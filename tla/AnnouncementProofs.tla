-------------------------- MODULE AnnouncementProofs -------------------------
(***************************************************************************)
(* Proofs about Announcement: the entry holds only attributes that fit,    *)
(* and another node learns what the application asked for, for every set   *)
(* of names, ports, addresses, keys and values.                            *)
(***************************************************************************)
EXTENDS Announcement, SequenceTheorems, TLAPS

Optional == Values \cup {NoValue}

(* Every attribute passes validate_txt_attribute.                          *)
ValidTxt(txt) == \A k \in DOMAIN txt : ValidAttribute(k, txt[k])
-----------------------------------------------------------------------------
(* The codec.                                                              *)

(* A key is a text at one position of KeySeq.                              *)
LEMMA KeysAreTexts ==
  /\ \A j \in DOMAIN KeySeq : KeySeq[j] \in Keys /\ KeySeq[j] \in Seq(Bytes)
  /\ \A k \in Keys : k \in Seq(Bytes) /\ \E j \in DOMAIN KeySeq : KeySeq[j] = k
  /\ \A i, j \in DOMAIN KeySeq : KeySeq[i] = KeySeq[j] => i = j
  /\ DOMAIN KeySeq \subseteq Nat
PROOF
<1>1. KeySeq \in Seq(Seq(Bytes)) /\ IsInjective(KeySeq)
  BY AnnouncementAssumption
<1>2. DOMAIN KeySeq = 1..Len(KeySeq) /\ Len(KeySeq) \in Nat
  BY <1>1, LenProperties
<1>3. \A j \in DOMAIN KeySeq : KeySeq[j] \in Seq(Bytes)
  BY <1>1, <1>2, ElementOfSeq
<1> QED
  BY <1>1, <1>2, <1>3 DEF Keys, Range, IsInjective

(* Attributes are what Txt says, seen from one attribute.                  *)
LEMMA TxtMembers ==
  /\ \A txt \in Txt : /\ DOMAIN txt \subseteq Keys
                      /\ \A k \in DOMAIN txt : txt[k] \in Optional
                      /\ txt = [k \in DOMAIN txt |-> txt[k]]
  /\ \A S \in SUBSET Keys : \A txt \in [S -> Optional] : txt \in Txt
BY DEF Txt, Optional

(* The length of a string, and where its first equals sign stands.         *)
LEMMA AttributeString ==
  ASSUME NEW k \in Seq(Bytes), NEW v \in Optional
  PROVE  /\ Attribute(k, v) \in Seq(Bytes)
         /\ Len(Attribute(k, v)) = IF v = NoValue THEN Len(k) ELSE Len(k) + 1 + Len(v)
         /\ v # NoValue =>
              /\ v \in Seq(Bytes)
              /\ Attribute(k, v)[Len(k) + 1] = Equals
              /\ \A i \in 1..Len(k) : Attribute(k, v)[i] = k[i]
              /\ \A i \in 1..Len(v) : Attribute(k, v)[Len(k) + 1 + i] = v[i]
PROOF
<1>1. CASE v = NoValue
  BY <1>1 DEF Attribute
<1>2. CASE v # NoValue
  <2>1. v \in Seq(Bytes) /\ Equals \in Bytes
    BY <1>2, AnnouncementAssumption DEF Optional
  <2>2. <<Equals>> \in Seq(Bytes) /\ Len(<<Equals>>) = 1 /\ <<Equals>>[1] = Equals
    BY <2>1
  <2> DEFINE ke == k \o <<Equals>>
  <2>3. /\ ke \in Seq(Bytes) /\ Len(ke) = Len(k) + 1
        /\ \A i \in 1..(Len(k) + 1) : ke[i] = IF i <= Len(k) THEN k[i] ELSE <<Equals>>[i - Len(k)]
    BY <2>2, ConcatProperties
  <2>4. /\ ke \o v \in Seq(Bytes) /\ Len(ke \o v) = Len(ke) + Len(v)
        /\ \A i \in 1..(Len(ke) + Len(v)) :
             (ke \o v)[i] = IF i <= Len(ke) THEN ke[i] ELSE v[i - Len(ke)]
    BY <2>1, <2>3, ConcatProperties
  <2>5. Attribute(k, v) = ke \o v
    BY <1>2 DEF Attribute
  <2>6. Len(k) \in Nat /\ Len(v) \in Nat
    BY <2>1, LenProperties
  <2> HIDE DEF ke
  <2>7. Attribute(k, v)[Len(k) + 1] = Equals
    <3>1. (ke \o v)[Len(k) + 1] = ke[Len(k) + 1]
      BY <2>3, <2>4, <2>6
    <3>2. ke[Len(k) + 1] = <<Equals>>[1]
      BY <2>3, <2>6
    <3> QED BY <3>1, <3>2, <2>2, <2>5
  <2>8. \A i \in 1..Len(k) : Attribute(k, v)[i] = k[i]
    BY <2>3, <2>4, <2>5, <2>6
  <2>9. \A i \in 1..Len(v) : Attribute(k, v)[Len(k) + 1 + i] = v[i]
    BY <2>3, <2>4, <2>5, <2>6
  <2> QED BY <1>2, <2>1, <2>3, <2>4, <2>5, <2>6, <2>7, <2>8, <2>9
<1> QED BY <1>1, <1>2

(* A receiver splits the string of a plain key where the sender joined it. *)
LEMMA Decodes ==
  ASSUME NEW k \in Seq(Bytes), NEW v \in Optional, EqualsAt(k) = {}
  PROVE  KeyOf(Attribute(k, v)) = k /\ ValueOf(Attribute(k, v)) = v
PROOF
<1> DEFINE s == Attribute(k, v)
<1>1. CASE v = NoValue
  BY <1>1 DEF Attribute, KeyOf, ValueOf
<1>2. CASE v # NoValue
  <2>1. /\ s \in Seq(Bytes) /\ Len(s) = Len(k) + 1 + Len(v)
        /\ v \in Seq(Bytes)
        /\ s[Len(k) + 1] = Equals
        /\ \A i \in 1..Len(k) : s[i] = k[i]
        /\ \A i \in 1..Len(v) : s[Len(k) + 1 + i] = v[i]
    BY <1>2, AttributeString
  <2>2. Len(k) \in Nat /\ Len(v) \in Nat
    BY <2>1, LenProperties
  <2>3. \A i \in 1..Len(k) : k[i] # Equals
    BY DEF EqualsAt
  <2> HIDE DEF s
  <2>4. Len(k) + 1 \in EqualsAt(s) /\ \A i \in EqualsAt(s) : Len(k) + 1 <= i
    <3>1. Len(k) + 1 \in 1..Len(s)
      BY <2>1, <2>2
    <3>2. ASSUME NEW i \in 1..Len(s), s[i] = Equals
          PROVE  ~(i <= Len(k))
      <4>1. SUFFICES ASSUME i <= Len(k) PROVE FALSE
        OBVIOUS
      <4>2. i \in 1..Len(k)
        BY <2>1, <2>2, <4>1
      <4> QED BY <2>1, <2>3, <3>2, <4>2
    <3> QED BY <2>1, <2>2, <3>1, <3>2 DEF EqualsAt
  <2>5. Min(EqualsAt(s)) = Len(k) + 1
    <3>1. \A x \in EqualsAt(s) : x \in Nat
      BY <2>1, <2>2, LenProperties DEF EqualsAt
    <3>2. \A x \in EqualsAt(s) : (\A y \in EqualsAt(s) : x <= y) => x = Len(k) + 1
      BY <2>2, <2>4, <3>1
    <3> QED BY <2>4, <3>2 DEF Min
  <2>6. KeyOf(s) = k
    <3>1. KeyOf(s) = SubSeq(s, 1, Len(k))
      BY <2>2, <2>4, <2>5 DEF KeyOf
    <3>2. \A i \in 1..Len(k) : s[i] \in Bytes
      BY <2>1, <2>2, ElementOfSeq
    <3>3. /\ SubSeq(s, 1, Len(k)) \in Seq(Bytes)
          /\ Len(SubSeq(s, 1, Len(k))) = Len(k)
          /\ \A i \in 1..Len(k) : SubSeq(s, 1, Len(k))[i] = s[i]
      BY <2>2, <3>2, SubSeqProperties
    <3> QED BY <2>1, <3>1, <3>3, SeqEqual
  <2>7. ValueOf(s) = v
    <3> DEFINE w == SubSeq(s, Len(k) + 2, Len(s))
    <3>1. ValueOf(s) = w
      BY <2>2, <2>4, <2>5 DEF ValueOf
    <3>2. \A i \in (Len(k) + 2)..Len(s) : s[i] \in Bytes
      BY <2>1, <2>2, ElementOfSeq
    <3>3. /\ w \in Seq(Bytes)
          /\ Len(w) = Len(v)
          /\ \A i \in 1..Len(v) : w[i] = s[Len(k) + 1 + i]
      BY <2>1, <2>2, <3>2, SubSeqProperties
    <3> HIDE DEF w
    <3> QED BY <2>1, <3>1, <3>3, SeqEqual
  <2> QED BY <2>6, <2>7 DEF s
<1> QED BY <1>1, <1>2

(* What a receiver reads from the strings of a TXT record is the map they  *)
(* were made from, if its keys are valid and plain.                        *)
LEMMA TxtRoundTrip ==
  ASSUME NEW txt \in Txt, ValidTxt(txt),
         \A k \in DOMAIN txt : EqualsAt(k) = {}
  PROVE  TxtMap(TxtStrings(txt)) = txt
PROOF
<1> DEFINE strings == TxtStrings(txt)
           read == {i \in DOMAIN strings : strings[i] # <<>>}
           at(k) == {i \in read : KeyOf(strings[i]) = k}
           known == {KeyOf(strings[i]) : i \in read}
<1>1. /\ DOMAIN txt \subseteq Keys
      /\ \A k \in DOMAIN txt : txt[k] \in Optional /\ k # <<>> /\ k \in Seq(Bytes)
  BY TxtMembers, KeysAreTexts DEF ValidTxt, ValidAttribute
<1>2. /\ DOMAIN strings = {j \in DOMAIN KeySeq : KeySeq[j] \in DOMAIN txt}
      /\ \A i \in DOMAIN strings : strings[i] = Attribute(KeySeq[i], txt[KeySeq[i]])
  BY <1>1 DEF TxtStrings
<1> HIDE DEF strings
<1>3. \A i \in DOMAIN strings :
        KeyOf(strings[i]) = KeySeq[i] /\ ValueOf(strings[i]) = txt[KeySeq[i]]
  <2> TAKE i \in DOMAIN strings
  <2>1. KeySeq[i] \in DOMAIN txt
    BY <1>2
  <2> QED BY <2>1, <1>1, <1>2, Decodes
<1>4. read = DOMAIN strings
  <2> SUFFICES ASSUME NEW i \in DOMAIN strings PROVE strings[i] # <<>>
    OBVIOUS
  <2>1. KeySeq[i] \in DOMAIN txt
    BY <1>2
  <2> DEFINE k == KeySeq[i]
  <2>2. Len(k) \in Nat \ {0}
    BY <2>1, <1>1, EmptySeq
  <2>3. Len(strings[i]) = IF txt[k] = NoValue THEN Len(k) ELSE Len(k) + 1 + Len(txt[k])
    BY <2>1, <1>1, <1>2, AttributeString
  <2>4. txt[k] # NoValue => Len(txt[k]) \in Nat
    <3> HAVE txt[k] # NoValue
    <3>1. txt[k] \in Seq(Bytes)
      BY <2>1, <1>1, AnnouncementAssumption DEF Optional
    <3> QED BY <3>1, LenProperties
  <2>5. Len(strings[i]) # 0
    <3>1. CASE txt[k] = NoValue
      BY <3>1, <2>2, <2>3
    <3>2. CASE txt[k] # NoValue
      <4>1. Len(strings[i]) = Len(k) + 1 + Len(txt[k])
        BY <3>2, <2>3
      <4>2. \A a, b \in Nat : a + 1 + b # 0
        OBVIOUS
      <4> QED BY <3>2, <4>1, <4>2, <2>2, <2>4
    <3> QED BY <3>1, <3>2
  <2> QED BY <2>5, EmptySeq
<1>5. known = DOMAIN txt
  <2>1. \A i \in read : KeyOf(strings[i]) \in DOMAIN txt
    BY <1>2, <1>3, <1>4
  <2>2. ASSUME NEW k \in DOMAIN txt PROVE k \in known
    <3>1. PICK j \in DOMAIN KeySeq : KeySeq[j] = k
      BY <1>1, KeysAreTexts
    <3>2. j \in read /\ KeyOf(strings[j]) = k
      BY <3>1, <1>2, <1>3, <1>4
    <3> QED BY <3>2
  <2> QED BY <2>1, <2>2
<1>6. \A k \in DOMAIN txt : ValueOf(strings[Min(at(k))]) = txt[k]
  <2> TAKE k \in DOMAIN txt
  <2>1. PICK j \in DOMAIN KeySeq : KeySeq[j] = k
    BY <1>1, KeysAreTexts
  <2>2. j \in DOMAIN strings /\ j \in Nat
    BY <2>1, <1>2, KeysAreTexts
  <2>3. at(k) = {j}
    BY <2>1, <2>2, <1>2, <1>3, <1>4, KeysAreTexts
  <2>4. Min({j}) = j
    BY <2>2 DEF Min
  <2> QED BY <2>1, <2>2, <2>3, <2>4, <1>3
<1>7. TxtMap(strings) = [k \in known |-> ValueOf(strings[Min(at(k))])]
  BY DEF TxtMap
<1>8. txt = [k \in DOMAIN txt |-> txt[k]]
  BY TxtMembers
<1> HIDE DEF known, at, read
<1>9. TxtMap(strings) = [k \in DOMAIN txt |-> txt[k]]
  BY <1>5, <1>6, <1>7
<1> QED BY <1>8, <1>9 DEF strings

(* Every string of a valid attribute fits into a TXT record.               *)
LEMMA ValidIsEncodable ==
  ASSUME NEW txt \in Txt, ValidTxt(txt), NEW s \in Range(TxtStrings(txt))
  PROVE  Len(s) <= MaxString
PROOF
<1>1. PICK i \in DOMAIN TxtStrings(txt) : s = TxtStrings(txt)[i]
  BY DEF Range
<1>2. /\ i \in DOMAIN KeySeq /\ KeySeq[i] \in DOMAIN txt
      /\ s = Attribute(KeySeq[i], txt[KeySeq[i]])
  BY <1>1 DEF TxtStrings
<1> DEFINE k == KeySeq[i]
           v == txt[KeySeq[i]]
<1>3. /\ k \in Seq(Bytes) /\ v \in Optional
      /\ Len(k) + (IF v = NoValue THEN 0 ELSE Len(v)) <= MaxText
  BY <1>2, TxtMembers, KeysAreTexts DEF ValidTxt, ValidAttribute
<1>4. Len(s) = IF v = NoValue THEN Len(k) ELSE Len(k) + 1 + Len(v)
  BY <1>2, <1>3, AttributeString
<1>5. Len(k) \in Nat /\ (v # NoValue => Len(v) \in Nat)
  <2>1. v # NoValue => v \in Seq(Bytes)
    BY <1>3, AnnouncementAssumption DEF Optional
  <2> QED BY <1>3, <2>1, LenProperties
<1>6. MaxText \in Nat /\ MaxString \in Nat /\ MaxString = MaxText + 1
  BY AnnouncementAssumption
<1> HIDE DEF k, v
<1>7. CASE v = NoValue
  <2>1. Len(k) + 0 <= MaxText /\ Len(s) = Len(k)
    BY <1>3, <1>4, <1>7
  <2> QED BY <2>1, <1>5, <1>6
<1>8. CASE v # NoValue
  <2>1. Len(k) + Len(v) <= MaxText /\ Len(s) = Len(k) + 1 + Len(v)
    BY <1>3, <1>4, <1>8
  <2>2. \A a, b, c, d \in Nat : a + b <= c /\ d = c + 1 => a + 1 + b <= d
    OBVIOUS
  <2>3. Len(k) \in Nat /\ Len(v) \in Nat
    BY <1>5, <1>8
  <2>4. Len(k) + 1 + Len(v) <= MaxString
    BY <2>1, <2>2, <2>3, <1>6
  <2> QED BY <2>1, <2>4
<1> QED BY <1>7, <1>8
-----------------------------------------------------------------------------
(* Names.                                                                  *)

(* The labels of names and of targets.                                     *)
NameLabels == Labels \cup (Labels \X Ports)

(* The first label is split off, what is left is the suffix, if the name   *)
(* has exactly one label of its own.                                       *)
LEMMA TailOfName ==
  ASSUME NEW S, NEW own \in Seq(S), own # <<>>, NEW suffix \in Seq(S)
  PROVE  /\ Tail(own \o suffix) = suffix <=> Len(own) = 1
         /\ Head(own \o suffix) = Head(own)
PROOF
<1> DEFINE name == own \o suffix
<1>1. Len(own) \in Nat \ {0} /\ Len(suffix) \in Nat
  BY EmptySeq, LenProperties
<1>2. /\ name \in Seq(S) /\ Len(name) = Len(own) + Len(suffix)
      /\ \A i \in 1..(Len(own) + Len(suffix)) :
           name[i] = IF i <= Len(own) THEN own[i] ELSE suffix[i - Len(own)]
  BY ConcatProperties
<1> HIDE DEF name
<1>3. name # <<>>
  BY <1>1, <1>2, EmptySeq
<1>4. /\ Tail(name) \in Seq(S) /\ Len(Tail(name)) = Len(name) - 1
      /\ \A i \in 1..Len(Tail(name)) : Tail(name)[i] = name[i + 1]
  BY <1>2, <1>3, HeadTailProperties
<1>5. Tail(name) = suffix => Len(own) = 1
  <2> HAVE Tail(name) = suffix
  <2>1. Len(suffix) = Len(name) - 1 /\ Len(name) = Len(own) + Len(suffix)
    BY <1>2, <1>4
  <2>2. \A a, b, c \in Nat : b = c - 1 /\ c = a + b => a = 1
    OBVIOUS
  <2>3. Len(name) \in Nat
    BY <1>2, LenProperties
  <2> QED BY <1>1, <2>1, <2>2, <2>3
<1>6. Len(own) = 1 => Tail(name) = suffix
  <2> HAVE Len(own) = 1
  <2>1. Len(Tail(name)) = Len(suffix)
    BY <1>1, <1>2, <1>4
  <2>2. \A i \in 1..Len(suffix) : Tail(name)[i] = suffix[i]
    BY <1>1, <1>2, <1>4, <2>1
  <2> QED BY <1>4, <2>1, <2>2, SeqEqual
<1>7. Head(name) = name[1] /\ Head(own) = own[1]
  BY <1>2, <1>3
<1>8. name[1] = own[1]
  BY <1>1, <1>2
<1> QED BY <1>5, <1>6, <1>7, <1>8 DEF name

(* The labels of a target in front of Local.                               *)
TargetLabels(port) == Append(Front(peer_id), <<Last(peer_id), port>>)

(* A target has as many labels of its own as the peer_id; the last of them *)
(* tells the port.                                                         *)
LEMMA TargetOfPort ==
  ASSUME peer_id \in PeerNames, NEW port \in Ports
  PROVE  /\ TargetLabels(port) \in Seq(NameLabels)
         /\ Len(TargetLabels(port)) = Len(peer_id)
         /\ Len(peer_id) \in Nat \ {0}
         /\ TargetLabels(port)[Len(peer_id)] = <<Last(peer_id), port>>
PROOF
<1>1. peer_id \in Seq(Labels) /\ peer_id # <<>>
  BY AnnouncementAssumption
<1>2. Len(peer_id) \in Nat \ {0} /\ Len(peer_id) - 1 \in Nat
  BY <1>1, EmptySeq
<1>3. \A i \in 1..Len(peer_id) : peer_id[i] \in Labels
  BY <1>1, ElementOfSeq
<1>4. Last(peer_id) \in Labels
  BY <1>2, <1>3 DEF Last
<1>5. Front(peer_id) \in Seq(NameLabels) /\ Len(Front(peer_id)) = Len(peer_id) - 1
  <2>1. \A i \in 1..(Len(peer_id) - 1) : peer_id[i] \in NameLabels
    BY <1>2, <1>3 DEF NameLabels
  <2>2. /\ SubSeq(peer_id, 1, Len(peer_id) - 1) \in Seq(NameLabels)
        /\ Len(SubSeq(peer_id, 1, Len(peer_id) - 1)) =
             IF 1 <= Len(peer_id) - 1 THEN Len(peer_id) - 1 - 1 + 1 ELSE 0
    BY <1>2, <2>1, SubSeqProperties
  <2>3. \A n \in Nat \ {0} : (IF 1 <= n - 1 THEN n - 1 - 1 + 1 ELSE 0) = n - 1
    OBVIOUS
  <2> QED BY <1>2, <2>2, <2>3 DEF Front
<1>6. <<Last(peer_id), port>> \in NameLabels
  BY <1>4 DEF NameLabels
<1> DEFINE front == Front(peer_id)
           label == <<Last(peer_id), port>>
<1> HIDE DEF front, label
<1>7. /\ Append(front, label) \in Seq(NameLabels)
      /\ Len(Append(front, label)) = Len(front) + 1
      /\ Append(front, label)[Len(front) + 1] = label
  BY <1>5, <1>6, AppendProperties DEF front, label
<1>8. Len(front) + 1 = Len(peer_id)
  BY <1>2, <1>5 DEF front
<1> QED BY <1>2, <1>7, <1>8 DEF TargetLabels, front, label

(* Different ports have different targets.                                 *)
LEMMA TargetsDiffer ==
  ASSUME peer_id \in PeerNames, NEW p \in Ports, NEW q \in Ports,
         Target(p) = Target(q)
  PROVE  p = q
PROOF
<1> DEFINE n == Len(peer_id)
<1>1. Local \in Seq(NameLabels)
  <2>1. Local \in Seq(Labels) /\ Labels \subseteq NameLabels
    BY AnnouncementAssumption DEF NameLabels
  <2> QED BY <2>1, SeqMonotonic
<1>2. n \in Nat \ {0} /\ Len(Local) \in Nat
  BY <1>1, TargetOfPort, LenProperties
<1>3. ASSUME NEW r \in Ports
      PROVE  Target(r)[n] = <<Last(peer_id), r>>
  <2> DEFINE own == TargetLabels(r)
  <2>1. own \in Seq(NameLabels) /\ Len(own) = n /\ own[n] = <<Last(peer_id), r>>
    BY TargetOfPort
  <2> HIDE DEF own
  <2>2. \A i \in 1..(Len(own) + Len(Local)) :
          (own \o Local)[i] = IF i <= Len(own) THEN own[i] ELSE Local[i - Len(own)]
    BY <1>1, <2>1, ConcatProperties
  <2>3. n \in 1..(Len(own) + Len(Local)) /\ n <= Len(own)
    BY <1>2, <2>1
  <2>4. (own \o Local)[n] = own[n]
    BY <2>2, <2>3
  <2> QED BY <2>1, <2>4 DEF Target, own, TargetLabels
<1> QED BY <1>3

(* The suffixes are recognized if the peer_id is a single label.           *)
LEMMA SuffixesOfNames ==
  ASSUME peer_id \in PeerNames
  PROVE  /\ Tail(peer_id \o ServiceName) = ServiceName <=> Len(peer_id) = 1
         /\ Head(peer_id \o ServiceName) = Head(peer_id)
         /\ \A port \in Ports : Tail(Target(port)) = Local <=> Len(peer_id) = 1
PROOF
<1>1. /\ peer_id \in Seq(Labels) /\ peer_id # <<>>
      /\ ServiceName \in Seq(Labels) /\ Local \in Seq(Labels)
  BY AnnouncementAssumption
<1>2. Local \in Seq(NameLabels)
  <2>1. Labels \subseteq NameLabels
    BY DEF NameLabels
  <2> QED BY <1>1, <2>1, SeqMonotonic
<1>3. \A port \in Ports : Tail(Target(port)) = Local <=> Len(peer_id) = 1
  <2> TAKE port \in Ports
  <2>1. /\ TargetLabels(port) \in Seq(NameLabels)
        /\ Len(TargetLabels(port)) = Len(peer_id)
        /\ Len(peer_id) # 0
    BY TargetOfPort
  <2>2. TargetLabels(port) # <<>>
    BY <2>1, EmptySeq
  <2>3. Tail(TargetLabels(port) \o Local) = Local <=> Len(TargetLabels(port)) = 1
    BY <1>2, <2>1, <2>2, TailOfName
  <2> QED BY <2>1, <2>3 DEF Target, TargetLabels
<1> QED BY <1>1, <1>3, TailOfName

(* What another node makes of the message of an entry.                     *)
LEMMA MessageHandled ==
  ASSUME peer_id \in PeerNames, NEW e \in Config, ValidTxt(e.txt),
         \A k \in DOMAIN e.txt : EqualsAt(k) = {}
  PROVE  IF e.addrs # {} /\ Len(peer_id) = 1
         THEN HandleMsg(Message(e)) = [id \in {Head(peer_id)} |-> e]
         ELSE DOMAIN HandleMsg(Message(e)) = {}
PROOF
<1> DEFINE msg == Message(e)
           taken == {r \in msg.srv \X msg.additional :
                      /\ r[1].target = r[2].name
                      /\ Tail(msg.name) = ServiceName
                      /\ Tail(r[2].name) = Local}
           addrs == {<<r[2].ip, r[1].port>> : r \in taken}
<1>1. HandleMsg(msg) = [id \in {Head(msg.name) : r \in taken} |->
                         [addrs |-> addrs, txt |-> TxtMap(msg.txt)]]
  BY DEF HandleMsg
<1>2. /\ msg.name = peer_id \o ServiceName
      /\ msg.srv = {[port |-> p, target |-> Target(p)] : p \in PortsOf(e)}
      /\ msg.txt = TxtStrings(e.txt)
      /\ msg.additional = {[name |-> Target(a[2]), ip |-> a[1]] : a \in e.addrs}
  BY DEF Message
<1>3. /\ e.addrs \in SUBSET (Ips \X Ports) /\ e.txt \in Txt
      /\ e = [addrs |-> e.addrs, txt |-> e.txt]
  BY DEF Config, Addrs
<1>4. PortsOf(e) = {a[2] : a \in e.addrs} /\ PortsOf(e) \subseteq Ports
  BY <1>3 DEF PortsOf
<1> HIDE DEF msg
<1>5. \A r \in taken : Len(peer_id) = 1
  BY <1>2, SuffixesOfNames
<1>6. \A r \in taken : <<r[2].ip, r[1].port>> \in e.addrs
  <2> TAKE r \in taken
  <2>1. PICK p \in PortsOf(e) : r[1] = [port |-> p, target |-> Target(p)]
    BY <1>2
  <2>2. PICK a \in e.addrs : r[2] = [name |-> Target(a[2]), ip |-> a[1]]
    BY <1>2
  <2>3. a = <<a[1], a[2]>> /\ a[2] \in Ports /\ p \in Ports
    BY <1>3, <1>4
  <2>4. Target(p) = Target(a[2])
    BY <2>1, <2>2
  <2>5. p = a[2]
    BY <2>3, <2>4, TargetsDiffer
  <2>6. r[1].port = a[2] /\ r[2].ip = a[1]
    BY <2>1, <2>2, <2>5
  <2>7. <<r[2].ip, r[1].port>> = a
    BY <2>3, <2>6
  <2> QED BY <2>7
<1>7. ASSUME Len(peer_id) = 1, NEW a \in e.addrs
      PROVE  \E r \in taken : a = <<r[2].ip, r[1].port>>
  <2>1. a = <<a[1], a[2]>> /\ a[2] \in Ports /\ a[2] \in PortsOf(e)
    BY <1>3, <1>4
  <2> DEFINE s == [port |-> a[2], target |-> Target(a[2])]
             x == [name |-> Target(a[2]), ip |-> a[1]]
  <2>2. s \in msg.srv /\ x \in msg.additional
    BY <1>2, <2>1
  <2>3. Tail(msg.name) = ServiceName /\ Tail(Target(a[2])) = Local
    BY <1>2, <1>7, <2>1, SuffixesOfNames
  <2>4. <<s, x>> \in taken
    BY <2>2, <2>3
  <2>5. a = <<x.ip, s.port>>
    BY <2>1
  <2> QED BY <2>4, <2>5
<1>8. CASE e.addrs # {} /\ Len(peer_id) = 1
  <2>1. addrs = e.addrs /\ taken # {}
    BY <1>6, <1>7, <1>8
  <2>2. {Head(msg.name) : r \in taken} = {Head(peer_id)}
    BY <1>2, <2>1, SuffixesOfNames
  <2>3. TxtMap(msg.txt) = e.txt
    BY <1>2, <1>3, TxtRoundTrip
  <2>4. [addrs |-> addrs, txt |-> TxtMap(msg.txt)] = e
    BY <1>3, <2>1, <2>3
  <2> QED BY <1>1, <1>8, <2>2, <2>4 DEF msg
<1>9. CASE ~(e.addrs # {} /\ Len(peer_id) = 1)
  <2>1. taken = {}
    BY <1>5, <1>6, <1>9
  <2>2. {Head(msg.name) : r \in taken} = {}
    BY <2>1
  <2> QED BY <1>1, <1>9, <2>2 DEF msg
<1> QED BY <1>8, <1>9
-----------------------------------------------------------------------------
(* Changes.                                                                *)

ValidUpdate(op) == op.type = "SetTxt" => ValidAttribute(op.key, op.value)

ConfigOf(e) == IF e = None THEN NoConfig ELSE e

(* The empty map of attributes.                                            *)
LEMMA EmptyTxt ==
  /\ NoConfig \in Config /\ NoConfig.addrs = {} /\ NoConfig.txt = <<>>
  /\ DOMAIN <<>> = {}
  /\ \A f : f = [k \in {} |-> f[k]] => f = <<>>
PROOF
<1>1. /\ <<>> \in Seq(Optional) /\ Len(<<>>) = 0
      /\ \A s \in Seq(Optional) : s # <<>> => Len(s) \in Nat \ {0}
  BY EmptySeq
<1>2. <<>> \in [1..0 -> Optional] /\ DOMAIN <<>> = 1..0
  BY <1>1, LenProperties
<1>3. 1..0 = {}
  OBVIOUS
<1>4. <<>> \in [{} -> Optional]
  BY <1>2, <1>3
<1>5. <<>> \in Txt
  BY <1>4, TxtMembers
<1>6. \A f : f = [k \in {} |-> f[k]] => f = <<>>
  BY <1>4
<1> QED BY <1>2, <1>3, <1>5, <1>6 DEF NoConfig, Config, Addrs

(* The shape of an update.                                                 *)
LEMMA UpdateFields ==
  ASSUME NEW op \in Updates
  PROVE  \/ op.type = "RemoveAll"
         \/ op.type = "RemovePort" /\ op.port \in Ports
         \/ op.type = "RemoveAddr" /\ op.ip \in Ips
         \/ op.type = "AddAddr" /\ op.port \in Ports /\ op.ips \subseteq Ips
         \/ op.type = "SetTxt" /\ op.key \in Keys /\ op.value \in Optional
         \/ op.type = "RemoveTxt" /\ op.key \in Keys
BY DEF Updates, Optional

(* A change of a configuration is one, and its attributes stay valid.      *)
LEMMA ChangedConfig ==
  ASSUME NEW c \in Config, NEW op \in Updates
  PROVE  /\ Change(c, op) \in Config
         /\ ValidTxt(c.txt) /\ ValidUpdate(op) => ValidTxt(Change(c, op).txt)
PROOF
<1>1. /\ c.addrs \in SUBSET (Ips \X Ports) /\ c.txt \in Txt
      /\ c = [addrs |-> c.addrs, txt |-> c.txt]
  BY DEF Config, Addrs
<1>2. \A A \in SUBSET (Ips \X Ports) : \A t \in Txt : [addrs |-> A, txt |-> t] \in Config
  BY DEF Config, Addrs
<1>3. CASE op.type = "RemoveAll"
  <2>1. Change(c, op) = NoConfig
    BY <1>3 DEF Change
  <2> QED BY <2>1, EmptyTxt DEF ValidTxt
<1>4. CASE op.type = "RemovePort"
  <2>1. Change(c, op) = [addrs |-> {a \in c.addrs : a[2] # op.port}, txt |-> c.txt]
    BY <1>1, <1>4 DEF Change
  <2> QED BY <1>1, <1>2, <2>1
<1>5. CASE op.type = "RemoveAddr"
  <2>1. Change(c, op) = [addrs |-> {a \in c.addrs : a[1] # op.ip}, txt |-> c.txt]
    BY <1>1, <1>5 DEF Change
  <2> QED BY <1>1, <1>2, <2>1
<1>6. CASE op.type = "AddAddr"
  <2>1. Change(c, op) = [addrs |-> c.addrs \cup (op.ips \X {op.port}), txt |-> c.txt]
    BY <1>1, <1>6 DEF Change
  <2>2. op.ips \X {op.port} \subseteq Ips \X Ports
    BY <1>6, UpdateFields
  <2> QED BY <1>1, <1>2, <2>1, <2>2
<1>7. CASE op.type = "SetTxt"
  <2> DEFINE t == WithKey(c.txt, op.key, op.value)
  <2>1. Change(c, op) = [addrs |-> c.addrs, txt |-> t]
    BY <1>1, <1>7 DEF Change
  <2>2. op.key \in Keys /\ op.value \in Optional
    BY <1>7, UpdateFields
  <2>3. t \in [DOMAIN c.txt \cup {op.key} -> Optional] /\ DOMAIN c.txt \subseteq Keys
    BY <1>1, <2>2, TxtMembers DEF WithKey
  <2>4. t \in Txt
    BY <2>2, <2>3, TxtMembers
  <2>5. ValidTxt(c.txt) /\ ValidUpdate(op) => ValidTxt(t)
    BY <1>7 DEF ValidTxt, ValidUpdate, WithKey
  <2> HIDE DEF t
  <2> QED BY <1>1, <1>2, <2>1, <2>4, <2>5
<1>8. CASE op.type = "RemoveTxt"
  <2> DEFINE t == WithoutKey(c.txt, op.key)
  <2>1. Change(c, op) = [addrs |-> c.addrs, txt |-> t]
    BY <1>1, <1>8 DEF Change
  <2>2. t \in [DOMAIN c.txt \ {op.key} -> Optional] /\ DOMAIN c.txt \subseteq Keys
    BY <1>1, TxtMembers DEF WithoutKey
  <2>3. t \in Txt
    BY <2>2, TxtMembers
  <2>4. ValidTxt(c.txt) => ValidTxt(t)
    BY DEF ValidTxt, WithoutKey
  <2> HIDE DEF t
  <2> QED BY <1>1, <1>2, <2>1, <2>3, <2>4
<1> QED BY <1>3, <1>4, <1>5, <1>6, <1>7, <1>8, UpdateFields

(* On the table, an update does what Change says, an absent entry standing *)
(* for an empty one.                                                       *)
LEMMA UpdatedEntryIsChanged ==
  ASSUME entry \in Config \cup {None}, NEW op \in Updates
  PROVE  /\ UpdatedEntry(op) \in Config \cup {None}
         /\ ConfigOf(UpdatedEntry(op)) = Change(ConfigOf(entry), op)
PROOF
<1>1. CASE op.type = "RemoveAll"
  BY <1>1 DEF UpdatedEntry, ConfigOf, Change
<1>2. CASE op.type # "RemoveAll" /\ entry # None
  <2>1. Change(entry, op) \in Config /\ Change(entry, op) # None
    BY <1>2, ChangedConfig, NoneAssumption
  <2> QED BY <1>2, <2>1 DEF UpdatedEntry, ConfigOf
<1>3. CASE entry = None /\ op.type \in {"AddAddr", "SetTxt"}
  <2>1. Change(NoConfig, op) \in Config /\ Change(NoConfig, op) # None
    BY ChangedConfig, EmptyTxt, NoneAssumption
  <2> QED BY <1>3, <2>1 DEF UpdatedEntry, ConfigOf
<1>4. CASE entry = None /\ op.type \in {"RemovePort", "RemoveAddr", "RemoveTxt"}
  <2>1. UpdatedEntry(op) = None
    BY <1>4 DEF UpdatedEntry
  <2>2. Change(NoConfig, op) = NoConfig
    <3>1. CASE op.type = "RemovePort"
      BY <3>1 DEF Change, NoConfig
    <3>2. CASE op.type = "RemoveAddr"
      BY <3>2 DEF Change, NoConfig
    <3>3. CASE op.type = "RemoveTxt"
      <4>1. WithoutKey(<<>>, op.key) = [k \in {} |-> WithoutKey(<<>>, op.key)[k]]
        BY EmptyTxt DEF WithoutKey
      <4>2. WithoutKey(<<>>, op.key) = <<>>
        BY <4>1, EmptyTxt
      <4> QED BY <3>3, <4>2 DEF Change, NoConfig
    <3> QED BY <1>4, <3>1, <3>2, <3>3
  <2> QED BY <1>4, <2>1, <2>2 DEF ConfigOf
<1> QED BY <1>1, <1>2, <1>3, <1>4, UpdateFields
-----------------------------------------------------------------------------
(* The inductive invariant.                                                *)

(* Whatever is on its way to the sender was validated.                     *)
UpdatesValid == \A i \in 1..Len(updates) : ValidUpdate(updates[i])

(* The sender announces the entry as it is.                                *)
AnnouncesEntry ==
  stage = "running" => announced = IF entry = None THEN {} ELSE {Message(entry)}

(* Updates lead from one configuration over others to another.             *)
Lead(from, ops, to) ==
  \E h \in Seq(Config) :
    /\ Len(h) = Len(ops) + 1
    /\ h[1] = from /\ h[Len(h)] = to
    /\ \A i \in 1..Len(ops) : h[i + 1] = Change(h[i], ops[i])

(* The updates under way lead from the entry to what was asked for.        *)
LeadsToAsked == Lead(ConfigOf(entry), updates, asked)

IInv ==
  /\ AnnouncementTypeOK
  /\ UpdatesValid
  /\ AnnouncesEntry
  /\ LeadsToAsked
  /\ stage = "building" => updates = <<>>

(* No update leads nowhere else.                                           *)
LEMMA NothingUnderWay ==
  ASSUME NEW from \in Config, NEW to
  PROVE  Lead(from, <<>>, to) <=> from = to
PROOF
<1>1. Len(<<>>) = 0
  BY EmptySeq
<1>2. ASSUME Lead(from, <<>>, to) PROVE from = to
  BY <1>1, <1>2 DEF Lead
<1>3. ASSUME from = to PROVE Lead(from, <<>>, to)
  <2> DEFINE h == <<from>>
  <2>1. h \in Seq(Config) /\ Len(h) = 1 /\ h[1] = from
    OBVIOUS
  <2> HIDE DEF h
  <2> QED BY <1>1, <1>3, <2>1 DEF Lead
<1> QED BY <1>2, <1>3

(* The sender's message depends on nothing but the entry.                  *)
LEMMA Announces ==
  ASSUME NEW e, MakeResponse(e), entry' = e, UNCHANGED peer_id
  PROVE  /\ stage' \in {"running", "panicked"}
         /\ AnnouncesEntry'
PROOF
<1>1. CASE Panics(e)
  BY <1>1 DEF MakeResponse, AnnouncesEntry
<1>2. CASE ~Panics(e)
  <2>1. stage' = "running" /\ announced' = IF e = None THEN {} ELSE {Message(e)}
    BY <1>2 DEF MakeResponse
  <2>2. e # None => Message(entry)' = Message(e)
    BY DEF Message, Target, PortsOf
  <2> QED BY <2>1, <2>2 DEF AnnouncesEntry
<1> QED BY <1>1, <1>2

(* Initially nothing is asked for.                                         *)
LEMMA InitIInv == AInit => IInv
PROOF
<1> SUFFICES ASSUME AInit PROVE IInv
  OBVIOUS
<1>1. updates = <<>> /\ updates \in Seq(Updates) /\ Len(updates) = 0
  BY EmptySeq DEF AInit
<1>2. AnnouncementTypeOK
  BY <1>1, EmptyTxt, AnnouncementAssumption DEF AnnouncementTypeOK, AInit
<1>3. LeadsToAsked
  BY <1>1, EmptyTxt, NothingUnderWay DEF AInit, ConfigOf, LeadsToAsked
<1>4. UpdatesValid /\ AnnouncesEntry
  BY <1>1 DEF UpdatesValid, AnnouncesEntry, AInit
<1> QED BY <1>1, <1>2, <1>3, <1>4 DEF IInv

(* The builder changes entry and wishes alike.                             *)
LEMMA BuiltIInv ==
  ASSUME IInv, stage = "building", NEW op \in Updates, ValidUpdate(op), Built(op)
  PROVE  IInv'
PROOF
<1> USE DEF Built
<1>1. /\ entry \in Config \cup {None} /\ asked \in Config
      /\ updates = <<>> /\ updates \in Seq(Updates) /\ Len(updates) <= UpdateCap
      /\ entry # None => ValidTxt(entry.txt)
      /\ peer_id \in PeerNames
  BY DEF IInv, AnnouncementTypeOK, ValidTxt
<1>2. ConfigOf(entry) \in Config /\ ValidTxt(ConfigOf(entry).txt)
  BY <1>1, EmptyTxt DEF ConfigOf, ValidTxt
<1>3. asked = ConfigOf(entry)
  BY <1>1, <1>2, NothingUnderWay DEF IInv, LeadsToAsked
<1>4. entry' = Change(ConfigOf(entry), op) /\ asked' = entry'
  BY <1>3 DEF ConfigOf
<1>5. entry' \in Config /\ ValidTxt(entry'.txt) /\ entry' # None
  BY <1>2, <1>4, ChangedConfig, NoneAssumption
<1>6. AnnouncementTypeOK'
  BY <1>1, <1>4, <1>5 DEF IInv, AnnouncementTypeOK, ValidTxt
<1>7. LeadsToAsked'
  <2>1. updates' = <<>> /\ asked' = entry' /\ ConfigOf(entry') = entry'
    BY <1>1, <1>4, <1>5 DEF ConfigOf
  <2>2. Lead(entry', <<>>, entry')
    BY <1>5, NothingUnderWay
  <2> QED BY <2>1, <2>2 DEF LeadsToAsked
<1>8. UpdatesValid'
  BY DEF IInv, UpdatesValid
<1>9. AnnouncesEntry'
  BY DEF AnnouncesEntry
<1> QED BY <1>1, <1>6, <1>7, <1>8, <1>9 DEF IInv

(* An accepted update is a wish more, and an update more under way.        *)
LEMMA AcceptIInv ==
  ASSUME IInv, stage = "running", NEW op \in Updates, ValidUpdate(op), Accept(op)
  PROVE  IInv'
PROOF
<1>1. /\ asked \in Config /\ updates \in Seq(Updates)
      /\ Len(updates) \in Nat /\ Len(updates) <= UpdateCap /\ UpdateCap \in Nat
  BY LenProperties, AnnouncementAssumption DEF IInv, AnnouncementTypeOK
<1>2. CASE ~(Len(updates) < UpdateCap)
  <2>1. UNCHANGED avars
    BY <1>2 DEF Accept, avars
  <2> QED BY <2>1 DEF avars, IInv, AnnouncementTypeOK, UpdatesValid, AnnouncesEntry,
                      LeadsToAsked, Message, Target, PortsOf
<1>3. CASE Len(updates) < UpdateCap
  <2>1. /\ updates' = Append(updates, op) /\ asked' = Change(asked, op)
        /\ UNCHANGED <<stage, peer_id, entry, announced>>
    BY <1>3 DEF Accept
  <2>2. /\ updates' \in Seq(Updates) /\ Len(updates') = Len(updates) + 1
        /\ \A i \in 1..Len(updates) : updates'[i] = updates[i]
        /\ updates'[Len(updates) + 1] = op
    BY <1>1, <2>1, AppendProperties
  <2>3. asked' \in Config
    BY <1>1, <2>1, ChangedConfig
  <2>4. AnnouncementTypeOK'
    <3>1. Len(updates') <= UpdateCap
      BY <1>1, <1>3, <2>2
    <3> QED BY <2>1, <2>2, <2>3, <3>1 DEF IInv, AnnouncementTypeOK
  <2>5. UpdatesValid'
    <3> SUFFICES ASSUME NEW i \in 1..(Len(updates) + 1) PROVE ValidUpdate(updates'[i])
      BY <2>2 DEF UpdatesValid
    <3>1. CASE i \in 1..Len(updates)
      BY <2>2, <3>1 DEF IInv, UpdatesValid
    <3>2. CASE i = Len(updates) + 1
      BY <2>2, <3>2
    <3> QED BY <1>1, <3>1, <3>2
  <2>6. AnnouncesEntry'
    BY <2>1 DEF IInv, AnnouncesEntry, Message, Target, PortsOf
  <2>7. LeadsToAsked'
    <3> DEFINE n == Len(updates)
    <3>1. PICK h \in Seq(Config) :
            /\ Len(h) = n + 1
            /\ h[1] = ConfigOf(entry) /\ h[n + 1] = asked
            /\ \A i \in 1..n : h[i + 1] = Change(h[i], updates[i])
      BY DEF IInv, LeadsToAsked, Lead
    <3> DEFINE g == Append(h, asked')
    <3>2. /\ g \in Seq(Config) /\ Len(g) = n + 2
          /\ \A i \in 1..(n + 1) : g[i] = h[i]
          /\ g[n + 2] = asked'
      <4>1. /\ g \in Seq(Config) /\ Len(g) = Len(h) + 1
            /\ \A i \in 1..Len(h) : g[i] = h[i]
            /\ g[Len(h) + 1] = asked'
        BY <2>3, AppendProperties
      <4>2. Len(h) + 1 = n + 2
        BY <1>1, <3>1
      <4> HIDE DEF g
      <4> QED BY <3>1, <4>1, <4>2
    <3> HIDE DEF g
    <3>3. g[1] = ConfigOf(entry)
      BY <1>1, <3>1, <3>2
    <3>4. \A i \in 1..(n + 1) : g[i + 1] = Change(g[i], updates'[i])
      <4> TAKE i \in 1..(n + 1)
      <4>1. CASE i \in 1..n
        <5>1. i \in 1..(n + 1) /\ i + 1 \in 1..(n + 1)
          BY <1>1, <4>1
        <5>2. g[i] = h[i] /\ g[i + 1] = h[i + 1] /\ updates'[i] = updates[i]
          BY <2>2, <3>2, <4>1, <5>1
        <5> QED BY <3>1, <4>1, <5>2
      <4>2. CASE i = n + 1
        <5>1. n + 1 \in 1..(n + 1) /\ i + 1 = n + 2
          BY <1>1, <4>2
        <5>2. g[i] = asked /\ g[i + 1] = asked' /\ updates'[i] = op
          BY <2>2, <3>1, <3>2, <4>2, <5>1
        <5> QED BY <2>1, <5>2
      <4> QED BY <1>1, <4>1, <4>2
    <3>5. ConfigOf(entry') = ConfigOf(entry) /\ Len(updates') = n + 1
      BY <2>1, <2>2
    <3>6. Len(g) = Len(updates') + 1 /\ g[Len(g)] = asked'
      BY <1>1, <3>2, <3>5
    <3> QED BY <3>2, <3>3, <3>4, <3>5, <3>6 DEF LeadsToAsked, Lead
  <2> QED BY <2>1, <2>4, <2>5, <2>6, <2>7 DEF IInv
<1> QED BY <1>2, <1>3

(* The start of the sender, and what ends a service before it.             *)
LEMMA SpawnIInv == ASSUME IInv, Spawn PROVE IInv'
PROOF
<1>1. /\ stage = "building" /\ updates = <<>>
      /\ UNCHANGED <<peer_id, entry, updates, asked>>
  BY DEF Spawn, IInv
<1>2. stage' \in {"running", "panicked", "refused"} /\ AnnouncesEntry'
  <2>1. CASE stage' = "refused"
    BY <2>1 DEF AnnouncesEntry
  <2>2. CASE MakeResponse(entry)
    BY <1>1, <2>2, Announces
  <2> QED BY <2>1, <2>2 DEF Spawn, AnnouncesEntry
<1>3. AnnouncementTypeOK' /\ UpdatesValid' /\ LeadsToAsked'
  BY <1>1, <1>2 DEF IInv, AnnouncementTypeOK, UpdatesValid, LeadsToAsked
<1> QED BY <1>1, <1>2, <1>3 DEF IInv

(* The sender takes the first of the updates under way.                    *)
LEMMA OnUpdateIInv == ASSUME IInv, OnUpdate PROVE IInv'
PROOF
<1> DEFINE op == Head(updates)
           n == Len(updates)
<1>1. /\ stage = "running" /\ updates # <<>> /\ updates' = Tail(updates)
      /\ entry' = UpdatedEntry(op) /\ MakeResponse(entry')
      /\ UNCHANGED <<peer_id, asked>>
  BY DEF OnUpdate
<1>2. /\ updates \in Seq(Updates) /\ entry \in Config \cup {None}
      /\ entry # None => ValidTxt(entry.txt)
      /\ n <= UpdateCap /\ UpdateCap \in Nat
  BY AnnouncementAssumption DEF IInv, AnnouncementTypeOK, ValidTxt
<1>3. n \in Nat \ {0} /\ n - 1 \in Nat
  BY <1>1, <1>2, EmptySeq
<1>4. /\ updates' \in Seq(Updates) /\ Len(updates') = n - 1
      /\ \A i \in 1..(n - 1) : updates'[i] = updates[i + 1]
      /\ op \in Updates /\ op = updates[1]
  BY <1>1, <1>2, HeadTailProperties
<1>5. ValidUpdate(op)
  BY <1>3, <1>4 DEF IInv, UpdatesValid
<1>6. ConfigOf(entry) \in Config /\ ValidTxt(ConfigOf(entry).txt)
  BY <1>2, EmptyTxt DEF ConfigOf, ValidTxt
<1>7. /\ entry' \in Config \cup {None}
      /\ ConfigOf(entry') = Change(ConfigOf(entry), op)
  BY <1>1, <1>2, <1>4, UpdatedEntryIsChanged
<1>8. entry' # None => ValidTxt(entry'.txt)
  BY <1>4, <1>5, <1>6, <1>7, ChangedConfig DEF ConfigOf
<1>9. stage' \in {"running", "panicked"} /\ AnnouncesEntry'
  BY <1>1, Announces
<1>10. AnnouncementTypeOK'
  <2>1. Len(updates') <= UpdateCap
    BY <1>2, <1>3, <1>4
  <2> QED BY <1>1, <1>4, <1>7, <1>8, <1>9, <2>1 DEF IInv, AnnouncementTypeOK, ValidTxt
<1>11. UpdatesValid'
  <2> SUFFICES ASSUME NEW i \in 1..(n - 1) PROVE ValidUpdate(updates'[i])
    BY <1>4 DEF UpdatesValid
  <2>1. i + 1 \in 1..n
    BY <1>3
  <2> QED BY <1>4, <2>1 DEF IInv, UpdatesValid
<1>12. LeadsToAsked'
  <2>1. PICK h \in Seq(Config) :
          /\ Len(h) = n + 1
          /\ h[1] = ConfigOf(entry) /\ h[n + 1] = asked
          /\ \A i \in 1..n : h[i + 1] = Change(h[i], updates[i])
    BY DEF IInv, LeadsToAsked, Lead
  <2>2. h # <<>>
    BY <1>3, <2>1, EmptySeq
  <2> DEFINE g == Tail(h)
  <2>3. /\ g \in Seq(Config) /\ Len(g) = n
        /\ \A i \in 1..n : g[i] = h[i + 1]
    <3>1. /\ g \in Seq(Config) /\ Len(g) = Len(h) - 1
          /\ \A i \in 1..Len(g) : g[i] = h[i + 1]
      BY <2>2, HeadTailProperties
    <3>2. Len(h) - 1 = n
      BY <1>3, <2>1
    <3> HIDE DEF g
    <3> QED BY <3>1, <3>2
  <2> HIDE DEF g
  <2>4. g[1] = ConfigOf(entry')
    <3>1. 1 \in 1..n
      BY <1>3
    <3>2. g[1] = h[1 + 1] /\ h[1 + 1] = Change(h[1], updates[1])
      BY <2>1, <2>3, <3>1
    <3> QED BY <1>4, <1>7, <2>1, <3>2
  <2>5. g[n] = asked'
    <3>1. n \in 1..n
      BY <1>3
    <3> QED BY <1>1, <2>1, <2>3, <3>1
  <2>6. \A i \in 1..(n - 1) : g[i + 1] = Change(g[i], updates'[i])
    <3> TAKE i \in 1..(n - 1)
    <3>1. i \in 1..n /\ i + 1 \in 1..n
      BY <1>3
    <3>2. g[i] = h[i + 1] /\ g[i + 1] = h[(i + 1) + 1]
      BY <2>3, <3>1
    <3>3. h[(i + 1) + 1] = Change(h[i + 1], updates[i + 1])
      BY <2>1, <3>1
    <3> QED BY <1>4, <3>2, <3>3
  <2>7. Len(g) = Len(updates') + 1
    BY <1>3, <1>4, <2>3
  <2> QED BY <1>4, <2>3, <2>4, <2>5, <2>6, <2>7 DEF LeadsToAsked, Lead
<1> QED BY <1>9, <1>10, <1>11, <1>12 DEF IInv

LEMMA NextIInv == IInv /\ [ANext]_avars => IInv'
PROOF
<1> SUFFICES ASSUME IInv, [ANext]_avars PROVE IInv'
  OBVIOUS
<1>1. ASSUME NEW port \in Ports, NEW ips \in SUBSET Ips, WithAddrs(port, ips)
      PROVE  IInv'
  <2> DEFINE op == [type |-> "AddAddr", port |-> port, ips |-> ips]
  <2>1. op \in Updates /\ ValidUpdate(op)
    BY DEF Updates, ValidUpdate
  <2>2. stage = "building" /\ Built(op)
    BY <1>1 DEF WithAddrs
  <2> QED BY <2>1, <2>2, BuiltIInv
<1>2. ASSUME NEW k \in Keys, NEW v \in Values \cup {NoValue}, WithTxtAttribute(k, v)
      PROVE  IInv'
  <2>1. CASE ValidAttribute(k, v)
    <3> DEFINE op == [type |-> "SetTxt", key |-> k, value |-> v]
    <3>1. op \in Updates /\ ValidUpdate(op)
      BY <2>1 DEF Updates, ValidUpdate
    <3>2. stage = "building" /\ Built(op)
      BY <1>2, <2>1 DEF WithTxtAttribute
    <3> QED BY <3>1, <3>2, BuiltIInv
  <2>2. CASE ~ValidAttribute(k, v)
    <3>1. stage' = "refused" /\ UNCHANGED <<peer_id, entry, updates, announced, asked>>
      BY <1>2, <2>2 DEF WithTxtAttribute
    <3> QED BY <3>1 DEF IInv, AnnouncementTypeOK, UpdatesValid, AnnouncesEntry, LeadsToAsked
  <2> QED BY <2>1, <2>2
<1>3. ASSUME Spawn PROVE IInv'
  BY <1>3, SpawnIInv
<1>4. ASSUME NEW op \in Updates, SetTxtAttribute(op) \/ OtherUpdate(op)
      PROVE  IInv'
  <2>1. stage = "running" /\ ValidUpdate(op) /\ Accept(op)
    BY <1>4 DEF SetTxtAttribute, OtherUpdate, ValidUpdate
  <2> QED BY <2>1, AcceptIInv
<1>5. ASSUME OnUpdate PROVE IInv'
  BY <1>5, OnUpdateIInv
<1>6. ASSUME UNCHANGED avars PROVE IInv'
  BY <1>6 DEF avars, IInv, AnnouncementTypeOK, UpdatesValid, AnnouncesEntry,
              LeadsToAsked, Message, Target, PortsOf
<1> QED BY <1>1, <1>2, <1>3, <1>4, <1>5, <1>6 DEF ANext

(* What the sender announces once nothing is under way is read as the      *)
(* application meant it.                                                   *)
LEMMA IInvImpliesSeen == IInv => SeenAsAsked
PROOF
<1> SUFFICES ASSUME IInv, stage = "running", updates = <<>>, PlainKeys
             PROVE  IF asked.addrs # {} /\ Len(peer_id) = 1
                    THEN Seen = {[id \in {Head(peer_id)} |-> asked]}
                    ELSE \A peers \in Seen : DOMAIN peers = {}
  BY DEF SeenAsAsked
<1>1. /\ entry \in Config \cup {None} /\ peer_id \in PeerNames
      /\ entry # None => ValidTxt(entry.txt)
  BY DEF IInv, AnnouncementTypeOK, ValidTxt
<1>2. asked = ConfigOf(entry)
  <2>1. ConfigOf(entry) \in Config
    BY <1>1, EmptyTxt DEF ConfigOf
  <2> QED BY <2>1, NothingUnderWay DEF IInv, LeadsToAsked
<1>3. CASE entry = None
  <2>1. announced = {} /\ asked.addrs = {}
    BY <1>2, <1>3, EmptyTxt DEF IInv, AnnouncesEntry, ConfigOf
  <2> QED BY <2>1 DEF Seen
<1>4. CASE entry # None
  <2>1. announced = {Message(asked)} /\ asked = entry /\ asked \in Config
    BY <1>1, <1>2, <1>4 DEF IInv, AnnouncesEntry, ConfigOf
  <2>2. Encodable(Message(asked))
    <3>1. asked.txt \in Txt /\ ValidTxt(asked.txt) /\ Message(asked).txt = TxtStrings(asked.txt)
      BY <1>1, <1>4, <2>1 DEF Config, Message
    <3> QED BY <3>1, ValidIsEncodable DEF Encodable
  <2>3. Seen = {HandleMsg(Message(asked))}
    BY <2>1, <2>2 DEF Seen
  <2>4. IF asked.addrs # {} /\ Len(peer_id) = 1
        THEN HandleMsg(Message(asked)) = [id \in {Head(peer_id)} |-> asked]
        ELSE DOMAIN HandleMsg(Message(asked)) = {}
    BY <1>1, <1>4, <2>1, MessageHandled DEF PlainKeys
  <2> QED BY <2>3, <2>4
<1> QED BY <1>3, <1>4
-----------------------------------------------------------------------------
(* The variables stay in their ranges, and neither the builder nor any     *)
(* update lets an attribute into the entry that does not fit into a string *)
(* of a TXT record, for every set of keys and values.                      *)
THEOREM AnnouncementType == ASpec => []AnnouncementTypeOK
PROOF
<1>1. IInv => AnnouncementTypeOK
  BY DEF IInv
<1> QED BY <1>1, InitIInv, NextIInv, PTL DEF ASpec

(* Others see exactly what the application asked for, once the sender took *)
(* its updates: for all addresses, ports, plain keys and values that are   *)
(* within the limits, and any history of calls.                            *)
THEOREM AnnouncementSeen == ASpec => []SeenAsAsked
BY InitIInv, NextIInv, IInvImpliesSeen, PTL DEF ASpec
-----------------------------------------------------------------------------
(* The last label of every peer_id leaves room for a hyphen and a port: 57 *)
(* bytes at most, for ports of five digits.                                *)
RoomForPort ==
  \A name \in PeerNames, p \in Ports :
    LabelLen[Last(name)] + 1 + PortLen[p] <= MaxLabel

LEMMA NothingPanics ==
  ASSUME RoomForPort, peer_id \in PeerNames, NEW e \in Config \cup {None}
  PROVE  ~Panics(e)
PROOF
<1> SUFFICES ASSUME e # None, NEW p \in PortsOf(e), ~TargetParses(p) PROVE FALSE
  BY DEF Panics
<1>1. e.addrs \subseteq Addrs
  BY DEF Config
<1>2. p \in Ports
  BY <1>1 DEF PortsOf, Addrs
<1> QED BY <1>2 DEF RoomForPort, TargetParses

(* make_response: "PeerId was checked in spawn()" is true of peer ids that *)
(* leave room for a port, whatever is announced when.                      *)
THEOREM AnnouncementNeverPanics ==
  ASSUME RoomForPort
  PROVE  ASpec => []CheckedInSpawn
PROOF
<1>1. AInit => CheckedInSpawn
  BY DEF AInit, CheckedInSpawn
<1>2. IInv /\ IInv' /\ CheckedInSpawn /\ [ANext]_avars => CheckedInSpawn'
  <2> SUFFICES ASSUME IInv, IInv', CheckedInSpawn, [ANext]_avars
               PROVE  CheckedInSpawn'
    OBVIOUS
  <2>1. /\ peer_id \in PeerNames
        /\ entry \in Config \cup {None} /\ entry' \in Config \cup {None}
    BY DEF IInv, AnnouncementTypeOK
  <2>2. ~Panics(entry) /\ ~Panics(entry')
    BY <2>1, NothingPanics
  <2>3. CASE Spawn
    BY <2>2, <2>3 DEF Spawn, MakeResponse, CheckedInSpawn
  <2>4. CASE OnUpdate
    BY <2>2, <2>4 DEF OnUpdate, MakeResponse, CheckedInSpawn
  <2>5. ASSUME ~Spawn, ~OnUpdate PROVE stage' \in {stage, "refused"}
    BY <2>5 DEF ANext, WithAddrs, WithTxtAttribute, Built, SetTxtAttribute,
                OtherUpdate, Accept, avars
  <2> QED BY <2>3, <2>4, <2>5 DEF CheckedInSpawn
<1> QED BY <1>1, <1>2, InitIInv, NextIInv, PTL DEF ASpec
=============================================================================
