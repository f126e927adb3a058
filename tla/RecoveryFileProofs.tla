------------------------- MODULE RecoveryFileProofs -------------------------
(***************************************************************************)
(* What holds of the recovery file for every brightness and every finite   *)
(* set of displays: what is saved loads, what an older version left loads  *)
(* as it was meant, a file cut short loads as nothing, and the path, its   *)
(* encoding and the open file descriptions implement the cell of           *)
(* StateFile.                                                              *)
(*                                                                         *)
(* Decoding is a walk over positions.  A file agrees with a list of tokens *)
(* from a position on as far as it goes (Agrees) and may go far enough     *)
(* (Fits); each field is then read as written if it fits and ends the file *)
(* if it does not (LevelReads, IdsRead), which makes DecodeAgrees: a file  *)
(* that begins like a saved state is that state if all of it is there,     *)
(* whatever follows, and garbled otherwise.                                *)
(*                                                                         *)
(* Path: the inductive invariant (FileInv) says that the file is one of    *)
(* this version, or the beginning of one, from the moment a thread touches *)
(* it (Current), and what an older version meant until then.               *)
(***************************************************************************)
EXTENDS RecoveryFile, FiniteSetTheorems, SequenceTheorems, TLAPS

-----------------------------------------------------------------------------
(* Reading what was written. *)

\* A list that is there from position i on, as far as the file goes.
Agrees(b, i, tokens) ==
    \A k \in 1..Len(tokens) : i + k - 1 <= Len(b) => b[i + k - 1] = tokens[k]

\* The file goes that far.
Fits(b, i, tokens) == i + Len(tokens) - 1 <= Len(b)

\* What an absent field, value or state is told apart from.
LEMMA Distinct ==
    /\ Garbled \notin Nat /\ Garbled # Nothing /\ Garbled # Torn
    /\ \A s \in SavedState : s # Nothing /\ s # Torn /\ s # Garbled
    /\ \A level \in Option(Levels) : level # Garbled
    /\ \A ids \in Option(SUBSET Displays) : ids # Garbled
BY FileAssumption DEF Option

\* A field is there with its kind, or it ends the file.
LEMMA FieldReads ==
    ASSUME NEW b \in Seq(Tokens), NEW i \in Nat \ {0}, NEW kind
    PROVE  Field(b, i, kind) = IF i <= Len(b) /\ b[i][1] = kind
                               THEN [value |-> b[i][2], next |-> i + 1]
                               ELSE [value |-> Garbled, next |-> Len(b) + 1]
BY DEF Field, IsField, NoField

\* The tokens of a brightness.
LEMMA LevelShape ==
    ASSUME NEW level \in Option(Levels)
    PROVE  /\ LevelTokens(level) \in Seq(Tokens)
           /\ level = Nothing => /\ Len(LevelTokens(level)) = 1
                                 /\ LevelTokens(level)[1] = << "tag", 0 >>
           /\ level # Nothing => /\ Len(LevelTokens(level)) = 2
                                 /\ LevelTokens(level)[1] = << "tag", 1 >>
                                 /\ LevelTokens(level)[2] = << "f32", level >>
                                 /\ level \in Levels
<1>1. CASE level = Nothing
  <2>1. << "tag", 0 >> \in Tokens
    BY DEF Tokens
  <2> QED BY <1>1, <2>1 DEF LevelTokens
<1>2. CASE level # Nothing
  <2>1. level \in Levels /\ << "tag", 1 >> \in Tokens /\ << "f32", level >> \in Tokens
    BY <1>2 DEF Tokens, Option
  <2> QED BY <1>2, <2>1 DEF LevelTokens
<1> QED BY <1>1, <1>2

\* A brightness is read as it was written, or the file ends inside of it.
LEMMA LevelReads ==
    ASSUME NEW b \in Seq(Tokens), NEW i \in Nat \ {0}, i <= Len(b) + 1,
           NEW level \in Option(Levels), Agrees(b, i, LevelTokens(level))
    PROVE  LevelAt(b, i) = IF Fits(b, i, LevelTokens(level))
                           THEN [value |-> level, next |-> i + Len(LevelTokens(level))]
                           ELSE NoField(b)
<1> DEFINE tokens == LevelTokens(level)
<1>1. Len(b) \in Nat /\ Garbled # 0 /\ i + 1 \in Nat \ {0}
  BY Distinct
<1>2. CASE i > Len(b)
  <2>1. Field(b, i, "tag") = [value |-> Garbled, next |-> Len(b) + 1]
    BY <1>2, FieldReads
  <2>2. LevelAt(b, i) = Field(b, Len(b) + 1, "f32")
    BY <1>1, <2>1 DEF LevelAt
  <2>3. Field(b, Len(b) + 1, "f32") = NoField(b)
    BY <1>1, FieldReads DEF NoField
  <2>4. ~Fits(b, i, tokens)
    BY <1>1, <1>2, LevelShape DEF Fits
  <2> QED BY <2>2, <2>3, <2>4
<1>3. CASE i <= Len(b) /\ level = Nothing
  <2>1. /\ Len(tokens) = 1 /\ tokens[1] = << "tag", 0 >>
        /\ b[i] = tokens[1]
    <3>1. Len(tokens) = 1 /\ tokens[1] = << "tag", 0 >>
      BY <1>3, LevelShape
    <3>2. i + 1 - 1 = i /\ 1 \in 1..Len(tokens)
      BY <3>1
    <3> QED BY <1>3, <3>1, <3>2 DEF Agrees
  <2>2. Field(b, i, "tag") = [value |-> 0, next |-> i + 1]
    BY <1>3, <2>1, FieldReads
  <2>3. LevelAt(b, i) = [value |-> Nothing, next |-> i + 1]
    BY <2>2 DEF LevelAt
  <2> QED BY <1>1, <1>3, <2>1, <2>3 DEF Fits
<1>4. CASE i <= Len(b) /\ level # Nothing
  <2>1. /\ Len(tokens) = 2 /\ tokens[1] = << "tag", 1 >> /\ tokens[2] = << "f32", level >>
        /\ b[i] = tokens[1]
        /\ i + 1 <= Len(b) => b[i + 1] = tokens[2]
    <3>1. Len(tokens) = 2 /\ tokens[1] = << "tag", 1 >> /\ tokens[2] = << "f32", level >>
      BY <1>4, LevelShape
    <3>2. i + 1 - 1 = i /\ i + 2 - 1 = i + 1 /\ 1 \in 1..Len(tokens) /\ 2 \in 1..Len(tokens)
      BY <3>1
    <3> QED BY <1>4, <3>1, <3>2 DEF Agrees
  <2>2. Field(b, i, "tag") = [value |-> 1, next |-> i + 1]
    BY <1>4, <2>1, FieldReads
  <2>3. LevelAt(b, i) = Field(b, i + 1, "f32")
    BY <2>2 DEF LevelAt
  <2>4. Field(b, i + 1, "f32") = IF i + 1 <= Len(b) THEN [value |-> level, next |-> i + 1 + 1]
                                 ELSE NoField(b)
    BY <1>1, <2>1, FieldReads DEF NoField
  <2> QED BY <1>1, <2>1, <2>3, <2>4 DEF Fits
<1> QED BY <1>1, <1>2, <1>3, <1>4

\* A finite set of displays as the list that is written.
LEMMA ListShape ==
    ASSUME NEW ids \in SUBSET Displays
    PROVE  /\ Len(ListOf[ids]) \in Nat /\ DOMAIN ListOf[ids] = 1..Len(ListOf[ids])
           /\ ListOf[ids] \in Seq(Displays)
           /\ {ListOf[ids][j] : j \in 1..Len(ListOf[ids])} = ids
<1> DEFINE n == Cardinality(ids)
<1>1. IsFiniteSet(ids)
  BY FileAssumption, FS_Subset
<1>2. n \in Nat /\ ExistsBijection(1..n, ids)
  BY <1>1, FS_CardinalityType
<1>3. \E f \in [1..n -> ids] : IsInjective(f)
  BY <1>2 DEF ExistsBijection, Bijection, Injection
<1>4. SetToSeq(ids) \in [1..n -> ids] /\ IsInjective(SetToSeq(ids))
  BY <1>3 DEF SetToSeq
<1>5. SetToSeq(ids) \in Injection(1..n, ids)
  BY <1>4 DEF Injection
<1>6. IsFiniteSet(1..n) /\ Cardinality(1..n) = n
  BY <1>2, FS_Interval
<1>7. SetToSeq(ids) \in Surjection(1..n, ids)
  BY <1>1, <1>5, <1>6, FS_Injection
<1>8. \A id \in ids : \E j \in 1..n : SetToSeq(ids)[j] = id
  BY <1>7 DEF Surjection
<1>9. ListOf[ids] = SetToSeq(ids)
  BY DEF ListOf
<1>10. ListOf[ids] \in [1..n -> ids] /\ ListOf[ids] \in Seq(Displays) /\ Len(ListOf[ids]) = n
  BY <1>2, <1>4, <1>9
<1> QED BY <1>2, <1>8, <1>9, <1>10

\* The tokens of a joined list.
LEMMA JoinShape ==
    ASSUME NEW s \in Seq(Tokens), NEW u \in Seq(Tokens)
    PROVE  /\ s \o u \in Seq(Tokens) /\ Len(s \o u) = Len(s) + Len(u)
           /\ \A k \in 1..Len(s) : (s \o u)[k] = s[k]
           /\ \A k \in 1..Len(u) : (s \o u)[Len(s) + k] = u[k]
<1>1. /\ Len(s) \in Nat /\ Len(u) \in Nat /\ Len(s \o u) = Len(s) + Len(u)
      /\ \A k \in 1..Len(s \o u) : (s \o u)[k] = IF k <= Len(s) THEN s[k] ELSE u[k - Len(s)]
  OBVIOUS
<1>2. \A k \in 1..Len(u) : Len(s) + k \in 1..Len(s \o u) /\ Len(s) + k - Len(s) = k
                            /\ ~(Len(s) + k <= Len(s))
  BY <1>1
<1> QED BY <1>1, <1>2

\* The tokens of a list of displays.
LEMMA IdShape ==
    ASSUME NEW ids \in SUBSET Displays, ids # Nothing
    PROVE  LET tokens == IdTokens(ids)
               n == Len(ListOf[ids])
           IN  /\ n \in Nat /\ tokens \in Seq(Tokens) /\ Len(tokens) = n + 2
               /\ tokens[1] = << "tag", 1 >> /\ tokens[2] = << "len", n >>
               /\ \A j \in 1..n : tokens[j + 2] = << "id", ListOf[ids][j] >>
               /\ {ListOf[ids][j] : j \in 1..n} = ids
<1> DEFINE list == ListOf[ids]
           n == Len(list)
           head == << << "tag", 1 >>, << "len", n >> >>
           rest == [j \in 1..n |-> << "id", list[j] >>]
<1>1. /\ n \in Nat /\ DOMAIN list = 1..n /\ list \in Seq(Displays)
      /\ {list[j] : j \in 1..n} = ids
  BY ListShape
<1>2. IdTokens(ids) = head \o rest
  BY <1>1 DEF IdTokens
<1> HIDE DEF list, n
<1>3. head \in Seq(Tokens) /\ Len(head) = 2 /\ head[1] = << "tag", 1 >> /\ head[2] = << "len", n >>
  <2>1. << "tag", 1 >> \in Tokens /\ << "len", n >> \in Tokens
    BY <1>1 DEF Tokens
  <2> QED BY <2>1
<1>4. rest \in Seq(Tokens) /\ Len(rest) = n /\ \A j \in 1..n : rest[j] = << "id", list[j] >>
  <2>1. \A j \in 1..n : << "id", list[j] >> \in Tokens
    BY <1>1 DEF Tokens
  <2>2. rest \in [1..n -> Tokens]
    BY <2>1
  <2> QED BY <1>1, <2>2
<1> HIDE DEF head, rest
<1>5. /\ head \o rest \in Seq(Tokens) /\ Len(head \o rest) = n + 2
      /\ (head \o rest)[1] = head[1] /\ (head \o rest)[2] = head[2]
      /\ \A j \in 1..n : (head \o rest)[j + 2] = rest[j]
  <2>1. /\ head \o rest \in Seq(Tokens) /\ Len(head \o rest) = Len(head) + Len(rest)
        /\ \A k \in 1..Len(head) : (head \o rest)[k] = head[k]
        /\ \A k \in 1..Len(rest) : (head \o rest)[Len(head) + k] = rest[k]
    <3>1. head \in Seq(Tokens) /\ rest \in Seq(Tokens)
      BY <1>3, <1>4
    <3> QED BY <3>1, JoinShape
  <2>2. 1 \in 1..Len(head) /\ 2 \in 1..Len(head) /\ \A j \in 1..n : 2 + j = j + 2
    BY <1>1, <1>3
  <2> QED BY <1>1, <1>3, <1>4, <2>1, <2>2
<1> QED BY <1>1, <1>2, <1>3, <1>4, <1>5 DEF list, n

\* The tokens of no list of displays.
LEMMA NoIdShape ==
    /\ IdTokens(Nothing) \in Seq(Tokens) /\ Len(IdTokens(Nothing)) = 1
    /\ IdTokens(Nothing)[1] = << "tag", 0 >>
<1>1. << "tag", 0 >> \in Tokens
  BY DEF Tokens
<1> QED BY <1>1 DEF IdTokens

\* A list of displays is read as it was written, or the file ends inside of it.
LEMMA IdsRead ==
    ASSUME NEW b \in Seq(Tokens), NEW i \in Nat \ {0}, i <= Len(b) + 1,
           NEW ids \in Option(SUBSET Displays), Agrees(b, i, IdTokens(ids))
    PROVE  IdsAt(b, i) = IF Fits(b, i, IdTokens(ids))
                         THEN [value |-> ids, next |-> i + Len(IdTokens(ids))]
                         ELSE NoField(b)
<1> DEFINE tokens == IdTokens(ids)
<1>1. Len(b) \in Nat /\ Garbled # 0 /\ Garbled # 1 /\ i + 1 \in Nat \ {0} /\ i + 2 \in Nat \ {0}
  BY Distinct
<1>2. CASE i > Len(b)
  <2>1. Field(b, i, "tag") = [value |-> Garbled, next |-> Len(b) + 1]
    BY <1>2, FieldReads
  <2>2. Field(b, Len(b) + 1, "len") = [value |-> Garbled, next |-> Len(b) + 1]
    BY <1>1, FieldReads
  <2>3. IdsAt(b, i) = NoField(b)
    BY <1>1, <2>1, <2>2 DEF IdsAt
  <2>4. ~Fits(b, i, tokens)
    <3>1. Len(tokens) >= 1 /\ Len(tokens) \in Nat
      <4>1. CASE ids = Nothing
        BY <4>1, NoIdShape
      <4>2. CASE ids # Nothing
        <5>1. ids \in SUBSET Displays
          BY <4>2 DEF Option
        <5>2. Len(ListOf[ids]) \in Nat /\ Len(tokens) = Len(ListOf[ids]) + 2
          BY <4>2, <5>1, IdShape
        <5> HIDE DEF tokens
        <5> QED BY <5>2
      <4> QED BY <4>1, <4>2
    <3> HIDE DEF tokens
    <3> QED BY <1>1, <1>2, <3>1 DEF Fits
  <2> QED BY <2>3, <2>4
<1>3. CASE i <= Len(b) /\ ids = Nothing
  <2>1. /\ Len(tokens) = 1 /\ tokens[1] = << "tag", 0 >>
        /\ b[i] = tokens[1]
    <3>1. Len(tokens) = 1 /\ tokens[1] = << "tag", 0 >>
      BY <1>3, NoIdShape
    <3>2. i + 1 - 1 = i /\ 1 \in 1..Len(tokens)
      BY <3>1
    <3> QED BY <1>3, <3>1, <3>2 DEF Agrees
  <2>2. Field(b, i, "tag") = [value |-> 0, next |-> i + 1]
    BY <1>3, <2>1, FieldReads
  <2>3. IdsAt(b, i) = [value |-> Nothing, next |-> i + 1]
    BY <2>2 DEF IdsAt
  <2> QED BY <1>1, <1>3, <2>1, <2>3 DEF Fits
<1>4. CASE i <= Len(b) /\ ids # Nothing
  <2> DEFINE list == ListOf[ids]
             n == Len(list)
  <2>1. /\ n \in Nat /\ Len(tokens) = n + 2
        /\ tokens[1] = << "tag", 1 >> /\ tokens[2] = << "len", n >>
        /\ \A j \in 1..n : tokens[j + 2] = << "id", list[j] >>
        /\ {list[j] : j \in 1..n} = ids
    BY <1>4, IdShape DEF Option
  <2> HIDE DEF tokens, n, list
  <2>2. /\ b[i] = << "tag", 1 >>
        /\ i + 1 <= Len(b) => b[i + 1] = << "len", n >>
        /\ \A j \in 1..n : i + j + 1 <= Len(b) => b[i + j + 1] = << "id", list[j] >>
    <3>1. \A k \in 1..Len(tokens) : i + k - 1 <= Len(b) => b[i + k - 1] = tokens[k]
      BY DEF Agrees, tokens
    <3>2. i + 1 - 1 = i /\ i + 2 - 1 = i + 1 /\ 1 \in 1..Len(tokens) /\ 2 \in 1..Len(tokens)
      BY <2>1
    <3>3. \A j \in 1..n : i + (j + 2) - 1 = i + j + 1 /\ j + 2 \in 1..Len(tokens)
      BY <2>1
    <3> QED BY <1>4, <2>1, <3>1, <3>2, <3>3
  <2>3. Field(b, i, "tag") = [value |-> 1, next |-> i + 1]
    BY <1>4, <2>2, FieldReads
  <2>4. Field(b, i + 1, "len") = IF i + 1 <= Len(b) THEN [value |-> n, next |-> i + 2]
                                 ELSE [value |-> Garbled, next |-> Len(b) + 1]
    BY <1>1, <2>2, FieldReads
  <2>5. CASE i + 1 > Len(b)
    <3>1. IdsAt(b, i) = NoField(b)
      BY <1>1, <2>3, <2>4, <2>5 DEF IdsAt
    <3> QED BY <1>1, <2>1, <2>5, <3>1 DEF Fits, tokens
  <2>6. CASE i + 1 <= Len(b)
    <3> DEFINE all == \A j \in (i + 2)..(i + 2 + n - 1) : IsField(b, j, "id")
    <3>1. Field(b, i + 1, "len") = [value |-> n, next |-> i + 2] /\ n # Garbled
      BY <2>1, <2>4, <2>6, Distinct
    <3>2. IdsAt(b, i) = IF all
                        THEN [ value |-> {b[j][2] : j \in (i + 2)..(i + 2 + n - 1)},
                               next |-> i + 2 + n ]
                        ELSE NoField(b)
      <4> DEFINE tag == Field(b, i, "tag")
                 len == Field(b, tag.next, "len")
                 range == len.next .. len.next + len.value - 1
      <4>1. IdsAt(b, i) =
               CASE tag.value = 0 -> [value |-> Nothing, next |-> i + 1]
                 [] tag.value # 0 /\ len.value # Garbled /\ (\A j \in range : IsField(b, j, "id")) ->
                       [value |-> {b[j][2] : j \in range}, next |-> len.next + len.value]
                 [] OTHER -> NoField(b)
        BY DEF IdsAt
      <4>2. tag.value = 1 /\ tag.next = i + 1
        BY <2>3
      <4>3. len.value = n /\ len.next = i + 2
        BY <3>1, <4>2
      <4>4. range = (i + 2)..(i + 2 + n - 1)
        BY <4>3
      <4> HIDE DEF tag, len, range
      <4> QED BY <3>1, <4>1, <4>2, <4>3, <4>4
    <3>3. all <=> Fits(b, i, tokens)
      <4>1. ASSUME Fits(b, i, tokens) PROVE all
        <5> SUFFICES ASSUME NEW j \in (i + 2)..(i + 2 + n - 1) PROVE IsField(b, j, "id")
          OBVIOUS
        <5>1. j - i - 1 \in 1..n /\ i + (j - i - 1) + 1 = j /\ j <= Len(b) /\ j \in 1..Len(b)
          BY <1>1, <2>1, <4>1 DEF Fits
        <5>2. b[j] = << "id", list[j - i - 1] >>
          BY <2>2, <5>1
        <5> QED BY <5>1, <5>2 DEF IsField
      <4>2. ASSUME all PROVE Fits(b, i, tokens)
        <5>1. CASE n = 0
          BY <1>1, <2>1, <2>6, <5>1 DEF Fits
        <5>2. CASE n # 0
          <6>1. i + 2 + n - 1 \in (i + 2)..(i + 2 + n - 1)
            BY <2>1, <5>2
          <6>2. i + 2 + n - 1 <= Len(b)
            BY <4>2, <6>1 DEF IsField
          <6> QED BY <2>1, <6>2 DEF Fits
        <5> QED BY <5>1, <5>2
      <4> QED BY <4>1, <4>2
    <3>4. ASSUME Fits(b, i, tokens)
          PROVE  {b[j][2] : j \in (i + 2)..(i + 2 + n - 1)} = ids
      <4>1. \A j \in (i + 2)..(i + 2 + n - 1) : j - i - 1 \in 1..n /\ b[j][2] = list[j - i - 1]
        <5> SUFFICES ASSUME NEW j \in (i + 2)..(i + 2 + n - 1)
                     PROVE  j - i - 1 \in 1..n /\ b[j][2] = list[j - i - 1]
          OBVIOUS
        <5>1. j - i - 1 \in 1..n /\ i + (j - i - 1) + 1 = j /\ j <= Len(b)
          BY <1>1, <2>1, <3>4 DEF Fits
        <5>2. b[j] = << "id", list[j - i - 1] >>
          BY <2>2, <5>1
        <5> QED BY <5>1, <5>2
      <4>2. \A k \in 1..n : i + k + 1 \in (i + 2)..(i + 2 + n - 1) /\ i + k + 1 - i - 1 = k
        BY <2>1
      <4>3. {b[j][2] : j \in (i + 2)..(i + 2 + n - 1)} = {list[k] : k \in 1..n}
        <5>1. \A x \in {b[j][2] : j \in (i + 2)..(i + 2 + n - 1)} : x \in {list[k] : k \in 1..n}
          BY <4>1
        <5>2. \A x \in {list[k] : k \in 1..n} : x \in {b[j][2] : j \in (i + 2)..(i + 2 + n - 1)}
          <6> SUFFICES ASSUME NEW k \in 1..n
                       PROVE  \E j \in (i + 2)..(i + 2 + n - 1) : b[j][2] = list[k]
            OBVIOUS
          <6>1. i + k + 1 \in (i + 2)..(i + 2 + n - 1) /\ i + k + 1 - i - 1 = k
            BY <4>2
          <6>2. b[i + k + 1][2] = list[i + k + 1 - i - 1]
            BY <4>1, <6>1
          <6> QED BY <6>1, <6>2
        <5> QED BY <5>1, <5>2
      <4> QED BY <2>1, <4>3
    <3>5. i + 2 + n = i + Len(tokens)
      BY <2>1
    <3> HIDE DEF all
    <3> QED BY <3>2, <3>3, <3>4, <3>5 DEF tokens
  <2> QED BY <1>1, <2>5, <2>6
<1> QED BY <1>1, <1>2, <1>3, <1>4

\* Nothing is read past the end.
LEMMA AtEnd ==
    ASSUME NEW b \in Seq(Tokens)
    PROVE  LevelAt(b, Len(b) + 1) = NoField(b) /\ IdsAt(b, Len(b) + 1) = NoField(b)
<1>1. Len(b) \in Nat /\ Len(b) + 1 \in Nat \ {0} /\ Garbled # 0
  BY Distinct
<1>2. \A kind : Field(b, Len(b) + 1, kind) = [value |-> Garbled, next |-> Len(b) + 1]
  BY <1>1, FieldReads
<1>3. LevelAt(b, Len(b) + 1) = NoField(b)
  BY <1>1, <1>2 DEF LevelAt, NoField
<1>4. IdsAt(b, Len(b) + 1) = NoField(b)
  BY <1>1, <1>2 DEF IdsAt
<1> QED BY <1>3, <1>4

\* The fields of a state in its encoding.
LEMMA Encoded ==
    ASSUME NEW state \in SavedState
    PROVE  LET tokens == Encode(state)
               p == LevelTokens(state.internal)
               e == IdTokens(state.external)
               k == LevelTokens(state.keyboard)
           IN  /\ p \in Seq(Tokens) /\ e \in Seq(Tokens) /\ k \in Seq(Tokens)
               /\ tokens \in Seq(Tokens) /\ Len(tokens) = 1 + Len(p) + Len(e) + Len(k)
               /\ tokens[1] = << "version", 3 >>
               /\ \A j \in 1..Len(p) : tokens[1 + j] = p[j]
               /\ \A j \in 1..Len(e) : tokens[1 + Len(p) + j] = e[j]
               /\ \A j \in 1..Len(k) : tokens[1 + Len(p) + Len(e) + j] = k[j]
<1> DEFINE v == << << "version", 3 >> >>
           p == LevelTokens(state.internal)
           e == IdTokens(state.external)
           k == LevelTokens(state.keyboard)
<1>1. /\ state.internal \in Option(Levels) /\ state.keyboard \in Option(Levels)
      /\ state.external \in Option(SUBSET Displays)
  BY DEF SavedState
<1>2. p \in Seq(Tokens) /\ e \in Seq(Tokens) /\ k \in Seq(Tokens)
  <2>1. e \in Seq(Tokens)
    <3>1. CASE state.external = Nothing
      BY <3>1, NoIdShape
    <3>2. CASE state.external # Nothing
      BY <1>1, <3>2, IdShape DEF Option
    <3> QED BY <3>1, <3>2
  <2> QED BY <1>1, <2>1, LevelShape
<1>3. v \in Seq(Tokens) /\ Len(v) = 1 /\ v[1] = << "version", 3 >>
  <2>1. << "version", 3 >> \in Tokens
    BY DEF Tokens
  <2> QED BY <2>1
<1>4. Encode(state) = ((v \o p) \o e) \o k
  BY DEF Encode
<1> HIDE DEF v, p, e, k
<1>5. /\ v \o p \in Seq(Tokens) /\ Len(v \o p) = 1 + Len(p)
      /\ (v \o p)[1] = << "version", 3 >>
      /\ \A j \in 1..Len(p) : (v \o p)[1 + j] = p[j]
  <2>1. /\ v \o p \in Seq(Tokens) /\ Len(v \o p) = Len(v) + Len(p)
        /\ \A j \in 1..Len(v) : (v \o p)[j] = v[j]
        /\ \A j \in 1..Len(p) : (v \o p)[Len(v) + j] = p[j]
    BY <1>2, <1>3, JoinShape
  <2>2. 1 \in 1..Len(v)
    BY <1>3
  <2> QED BY <1>3, <2>1, <2>2
<1> DEFINE vp == v \o p
           vpe == vp \o e
<1> HIDE DEF vp
<1>6. /\ vpe \in Seq(Tokens) /\ Len(vpe) = 1 + Len(p) + Len(e)
      /\ \A j \in 1..(1 + Len(p)) : vpe[j] = vp[j]
      /\ \A j \in 1..Len(e) : vpe[1 + Len(p) + j] = e[j]
  <2>1. vp \in Seq(Tokens) /\ Len(vp) = 1 + Len(p)
    BY <1>5 DEF vp
  <2>2. /\ vp \o e \in Seq(Tokens) /\ Len(vp \o e) = Len(vp) + Len(e)
        /\ \A j \in 1..Len(vp) : (vp \o e)[j] = vp[j]
        /\ \A j \in 1..Len(e) : (vp \o e)[Len(vp) + j] = e[j]
    BY <1>2, <2>1, JoinShape
  <2> QED BY <2>1, <2>2
<1> HIDE DEF vpe
<1>7. /\ vpe \o k \in Seq(Tokens) /\ Len(vpe \o k) = 1 + Len(p) + Len(e) + Len(k)
      /\ \A j \in 1..(1 + Len(p) + Len(e)) : (vpe \o k)[j] = vpe[j]
      /\ \A j \in 1..Len(k) : (vpe \o k)[1 + Len(p) + Len(e) + j] = k[j]
  <2>1. /\ vpe \o k \in Seq(Tokens) /\ Len(vpe \o k) = Len(vpe) + Len(k)
        /\ \A j \in 1..Len(vpe) : (vpe \o k)[j] = vpe[j]
        /\ \A j \in 1..Len(k) : (vpe \o k)[Len(vpe) + j] = k[j]
    BY <1>2, <1>6, JoinShape
  <2> QED BY <1>6, <2>1
<1>8. Encode(state) = vpe \o k
  BY <1>4 DEF vpe, vp
<1>9. Len(p) \in Nat /\ Len(e) \in Nat /\ Len(k) \in Nat
  BY <1>2
<1>10. /\ 1 \in 1..(1 + Len(p)) /\ 1 \in 1..(1 + Len(p) + Len(e))
       /\ \A j \in 1..Len(p) : 1 + j \in 1..(1 + Len(p)) /\ 1 + j \in 1..(1 + Len(p) + Len(e))
       /\ \A j \in 1..Len(e) : 1 + Len(p) + j \in 1..(1 + Len(p) + Len(e))
  BY <1>9
<1>11. vp[1] = << "version", 3 >> /\ \A j \in 1..Len(p) : vp[1 + j] = p[j]
  BY <1>5 DEF vp
<1> QED BY <1>2, <1>6, <1>7, <1>8, <1>10, <1>11 DEF p, e, k

\* A file that agrees with a list agrees with every part of it.
LEMMA AgreesPart ==
    ASSUME NEW b \in Seq(Tokens), NEW tokens \in Seq(Tokens), Agrees(b, 1, tokens),
           NEW part \in Seq(Tokens), NEW o \in Nat, o + Len(part) <= Len(tokens),
           \A j \in 1..Len(part) : tokens[o + j] = part[j]
    PROVE  Agrees(b, o + 1, part)
<1> SUFFICES ASSUME NEW j \in 1..Len(part), o + 1 + j - 1 <= Len(b)
             PROVE  b[o + 1 + j - 1] = part[j]
  BY DEF Agrees
<1>1. Len(part) \in Nat /\ Len(tokens) \in Nat /\ Len(b) \in Nat
  OBVIOUS
<1>2. o + j \in 1..Len(tokens) /\ o + 1 + j - 1 = o + j /\ 1 + (o + j) - 1 = o + j /\ o + j <= Len(b)
  BY <1>1
<1>3. b[o + j] = tokens[o + j]
  BY <1>2 DEF Agrees
<1> QED BY <1>2, <1>3

\* A file that begins like a saved state loads as that state if it is all
\* there, whatever follows it, and as none otherwise.
LEMMA DecodeAgrees ==
    ASSUME NEW b \in Seq(Tokens), b # << >>, NEW state \in SavedState,
           Agrees(b, 1, Encode(state))
    PROVE  Decode(b) = IF Fits(b, 1, Encode(state)) THEN state ELSE Garbled
<1> DEFINE tokens == Encode(state)
           p == LevelTokens(state.internal)
           e == IdTokens(state.external)
           k == LevelTokens(state.keyboard)
           internal == LevelAt(b, 2)
           external == IdsAt(b, internal.next)
           keyboard == LevelAt(b, external.next)
<1>1. /\ p \in Seq(Tokens) /\ e \in Seq(Tokens) /\ k \in Seq(Tokens)
      /\ tokens \in Seq(Tokens) /\ Len(tokens) = 1 + Len(p) + Len(e) + Len(k)
      /\ tokens[1] = << "version", 3 >>
      /\ \A j \in 1..Len(p) : tokens[1 + j] = p[j]
      /\ \A j \in 1..Len(e) : tokens[1 + Len(p) + j] = e[j]
      /\ \A j \in 1..Len(k) : tokens[1 + Len(p) + Len(e) + j] = k[j]
  BY Encoded
<1>2. /\ state.internal \in Option(Levels) /\ state.keyboard \in Option(Levels)
      /\ state.external \in Option(SUBSET Displays)
      /\ state = [internal |-> state.internal, external |-> state.external,
                  keyboard |-> state.keyboard]
  BY DEF SavedState
<1> HIDE DEF tokens, p, e, k
<1>3. Len(p) \in Nat /\ Len(e) \in Nat /\ Len(k) \in Nat /\ Len(b) \in Nat /\ Len(b) >= 1
  BY <1>1
<1>4. Agrees(b, 1, tokens)
  BY DEF tokens
<1>5. /\ Agrees(b, 2, p) /\ Agrees(b, 2 + Len(p), e) /\ Agrees(b, 2 + Len(p) + Len(e), k)
  <2> DEFINE o == 1 + Len(p)
             q == 1 + Len(p) + Len(e)
  <2>1. o \in Nat /\ q \in Nat /\ 1 + Len(p) <= Len(tokens)
        /\ o + Len(e) <= Len(tokens) /\ q + Len(k) <= Len(tokens)
    BY <1>1, <1>3
  <2>2. Agrees(b, 1 + 1, p)
    BY <1>1, <1>4, <2>1, AgreesPart
  <2>3. (\A j \in 1..Len(e) : tokens[o + j] = e[j]) /\ (\A j \in 1..Len(k) : tokens[q + j] = k[j])
    BY <1>1
  <2> HIDE DEF o, q
  <2>4. Agrees(b, o + 1, e)
    BY <1>1, <1>4, <2>1, <2>3, AgreesPart
  <2>5. Agrees(b, q + 1, k)
    BY <1>1, <1>4, <2>1, <2>3, AgreesPart
  <2>6. 1 + 1 = 2 /\ o + 1 = 2 + Len(p) /\ q + 1 = 2 + Len(p) + Len(e)
    BY <1>3 DEF o, q
  <2> QED BY <2>2, <2>4, <2>5, <2>6
<1>6. Decode(b) = DecodeV3(b)
  <2>1. b[1] = << "version", 3 >>
    <3>1. 1 \in 1..Len(tokens) /\ 1 + 1 - 1 = 1
      BY <1>1, <1>3
    <3> QED BY <1>1, <1>3, <1>4, <3>1 DEF Agrees
  <2> QED BY <2>1 DEF Decode
<1>7. DecodeV3(b) = IF keyboard.value = Garbled THEN Garbled
                    ELSE [internal |-> internal.value, external |-> external.value,
                          keyboard |-> keyboard.value]
  BY DEF DecodeV3
<1> DEFINE end == NoField(b)
<1>8. end.next = Len(b) + 1 /\ end.value = Garbled
  BY DEF NoField
<1>9. internal = IF 1 + Len(p) <= Len(b) THEN [value |-> state.internal, next |-> 2 + Len(p)]
                 ELSE end
  <2>1. 2 <= Len(b) + 1 /\ (Fits(b, 2, p) <=> 1 + Len(p) <= Len(b))
    BY <1>3 DEF Fits
  <2> QED BY <1>2, <1>5, <2>1, LevelReads DEF p
<1>10. external = IF 1 + Len(p) + Len(e) <= Len(b)
                  THEN [value |-> state.external, next |-> 2 + Len(p) + Len(e)]
                  ELSE end
  <2>1. CASE 1 + Len(p) <= Len(b)
    <3>1. external = IdsAt(b, 2 + Len(p))
      BY <1>9, <2>1
    <3>2. /\ 2 + Len(p) \in Nat \ {0} /\ 2 + Len(p) <= Len(b) + 1
          /\ (Fits(b, 2 + Len(p), e) <=> 1 + Len(p) + Len(e) <= Len(b))
      BY <1>3, <2>1 DEF Fits
    <3>3. IdsAt(b, 2 + Len(p)) = IF Fits(b, 2 + Len(p), e)
                                 THEN [value |-> state.external, next |-> 2 + Len(p) + Len(e)]
                                 ELSE NoField(b)
      BY <1>2, <1>5, <3>2, IdsRead DEF e
    <3> QED BY <3>1, <3>2, <3>3
  <2>2. CASE ~(1 + Len(p) <= Len(b))
    <3>1. external = IdsAt(b, Len(b) + 1)
      BY <1>8, <1>9, <2>2
    <3>2. ~(1 + Len(p) + Len(e) <= Len(b))
      BY <1>3, <2>2
    <3> QED BY <3>1, <3>2, AtEnd
  <2> QED BY <2>1, <2>2
<1> HIDE DEF internal
<1>11. keyboard = IF 1 + Len(p) + Len(e) + Len(k) <= Len(b)
                  THEN [value |-> state.keyboard, next |-> 2 + Len(p) + Len(e) + Len(k)]
                  ELSE end
  <2>1. CASE 1 + Len(p) + Len(e) <= Len(b)
    <3>1. keyboard = LevelAt(b, 2 + Len(p) + Len(e))
      BY <1>10, <2>1
    <3>2. /\ 2 + Len(p) + Len(e) \in Nat \ {0} /\ 2 + Len(p) + Len(e) <= Len(b) + 1
          /\ (Fits(b, 2 + Len(p) + Len(e), k) <=> 1 + Len(p) + Len(e) + Len(k) <= Len(b))
      BY <1>3, <2>1 DEF Fits
    <3>3. LevelAt(b, 2 + Len(p) + Len(e)) =
             IF Fits(b, 2 + Len(p) + Len(e), k)
             THEN [value |-> state.keyboard, next |-> 2 + Len(p) + Len(e) + Len(k)]
             ELSE NoField(b)
      BY <1>2, <1>5, <3>2, LevelReads DEF k
    <3> QED BY <3>1, <3>2, <3>3
  <2>2. CASE ~(1 + Len(p) + Len(e) <= Len(b))
    <3>1. keyboard = LevelAt(b, Len(b) + 1)
      BY <1>8, <1>10, <2>2
    <3>2. ~(1 + Len(p) + Len(e) + Len(k) <= Len(b))
      BY <1>3, <2>2
    <3> QED BY <3>1, <3>2, AtEnd
  <2> QED BY <2>1, <2>2
<1>12. Fits(b, 1, tokens) <=> 1 + Len(p) + Len(e) + Len(k) <= Len(b)
  BY <1>1, <1>3 DEF Fits
<1> HIDE DEF external, keyboard, end
<1>13. CASE Fits(b, 1, tokens)
  <2>1. /\ 1 + Len(p) <= Len(b) /\ 1 + Len(p) + Len(e) <= Len(b)
        /\ 1 + Len(p) + Len(e) + Len(k) <= Len(b)
    BY <1>3, <1>12, <1>13
  <2>2. /\ internal.value = state.internal /\ external.value = state.external
        /\ keyboard.value = state.keyboard
    BY <1>9, <1>10, <1>11, <2>1
  <2>3. keyboard.value # Garbled
    BY <1>2, <2>2, Distinct
  <2> QED BY <1>2, <1>6, <1>7, <1>13, <2>2, <2>3 DEF tokens
<1>14. CASE ~Fits(b, 1, tokens)
  <2>1. keyboard.value = Garbled
    BY <1>8, <1>11, <1>12, <1>14
  <2> QED BY <1>6, <1>7, <1>14, <2>1 DEF tokens
<1> QED BY <1>13, <1>14

\* A file of this version, or the beginning of one.
Current(b) ==
    /\ b \in Seq(Tokens)
    /\ b # << >> => b[1] = << "version", 3 >>
    /\ \A j \in 1..Len(b) : b[j][1] = "f32" => b[j][2] \in Levels

\* The value of a field is one of its kind.
LEMMA FieldTyped ==
    ASSUME NEW b \in Seq(Tokens), NEW i \in Nat \ {0}
    PROVE  LET field(kind) == Field(b, i, kind)
           IN  /\ field("tag").value \in {0, 1, Garbled}
               /\ field("len").value \in Nat \cup {Garbled}
               /\ field("f32").value \in Levels \cup {-1, Garbled}
               /\ \A kind : field(kind).next \in Nat \ {0}
<1>1. Len(b) \in Nat
  OBVIOUS
<1>2. ASSUME i <= Len(b)
      PROVE  /\ b[i][1] = "tag" => b[i][2] \in {0, 1}
             /\ b[i][1] = "len" => b[i][2] \in Nat
             /\ b[i][1] = "f32" => b[i][2] \in Levels \cup {-1}
  <2>1. b[i] \in Tokens
    BY <1>1, <1>2
  <2> QED BY <2>1 DEF Tokens
<1> QED BY <1>1, <1>2, FieldReads

\* A brightness read from a file of this version is one, or ends the file.
LEMMA LevelTyped ==
    ASSUME NEW b, Current(b), NEW i \in Nat \ {0}
    PROVE  /\ LevelAt(b, i).value \in Option(Levels) \cup {Garbled}
           /\ LevelAt(b, i).next \in Nat \ {0}
           /\ LevelAt(b, i).value = Garbled => LevelAt(b, i).next = Len(b) + 1
<1> DEFINE tag == Field(b, i, "tag")
           level == Field(b, tag.next, "f32")
<1>1. b \in Seq(Tokens) /\ Len(b) \in Nat
  BY DEF Current
<1>2. tag.next \in Nat \ {0}
  BY <1>1, FieldTyped
<1>3. CASE tag.value = 0
  <2>1. LevelAt(b, i) = [value |-> Nothing, next |-> i + 1]
    BY <1>3 DEF LevelAt
  <2> QED BY <2>1, Distinct DEF Option
<1>4. CASE tag.value # 0
  <2>1. LevelAt(b, i) = level
    BY <1>4 DEF LevelAt
  <2> HIDE DEF tag
  <2>2. level = IF tag.next <= Len(b) /\ b[tag.next][1] = "f32"
                THEN [value |-> b[tag.next][2], next |-> tag.next + 1]
                ELSE [value |-> Garbled, next |-> Len(b) + 1]
    BY <1>1, <1>2, FieldReads
  <2>3. tag.next <= Len(b) /\ b[tag.next][1] = "f32" => b[tag.next][2] \in Levels
    <3>1. tag.next <= Len(b) => tag.next \in 1..Len(b)
      BY <1>1, <1>2
    <3> QED BY <3>1 DEF Current
  <2> QED BY <1>1, <1>2, <2>1, <2>2, <2>3, Distinct DEF Option
<1> QED BY <1>3, <1>4

\* A list of displays read from a file is one, or ends the file.
LEMMA IdsTyped ==
    ASSUME NEW b \in Seq(Tokens), NEW i \in Nat \ {0}
    PROVE  /\ IdsAt(b, i).value \in Option(SUBSET Displays) \cup {Garbled}
           /\ IdsAt(b, i).next \in Nat \ {0}
           /\ IdsAt(b, i).value = Garbled => IdsAt(b, i).next = Len(b) + 1
<1> DEFINE tag == Field(b, i, "tag")
           len == Field(b, tag.next, "len")
           ids == len.next .. len.next + len.value - 1
<1>1. Len(b) \in Nat
  OBVIOUS
<1>2. tag.next \in Nat \ {0}
  BY FieldTyped
<1> HIDE DEF tag
<1>3. len.next \in Nat \ {0} /\ len.value \in Nat \cup {Garbled}
  BY <1>2, FieldTyped
<1>4. IdsAt(b, i) =
        CASE tag.value = 0 -> [value |-> Nothing, next |-> i + 1]
          [] tag.value # 0 /\ len.value # Garbled /\ (\A j \in ids : IsField(b, j, "id")) ->
                [value |-> {b[j][2] : j \in ids}, next |-> len.next + len.value]
          [] OTHER -> NoField(b)
  BY DEF IdsAt, tag
<1> HIDE DEF len, ids
<1>5. CASE tag.value = 0
  <2>1. IdsAt(b, i) = [value |-> Nothing, next |-> i + 1]
    BY <1>4, <1>5
  <2> QED BY <2>1, Distinct DEF Option
<1>6. CASE tag.value # 0 /\ len.value # Garbled /\ (\A j \in ids : IsField(b, j, "id"))
  <2>1. IdsAt(b, i) = [value |-> {b[j][2] : j \in ids}, next |-> len.next + len.value]
    BY <1>4, <1>6
  <2>2. \A j \in ids : b[j][2] \in Displays
    <3> SUFFICES ASSUME NEW j \in ids PROVE b[j][2] \in Displays
      OBVIOUS
    <3>1. j \in 1..Len(b) /\ b[j][1] = "id"
      BY <1>6 DEF IsField
    <3>2. b[j] \in Tokens
      BY <3>1
    <3> QED BY <3>1, <3>2 DEF Tokens
  <2>3. {b[j][2] : j \in ids} \in SUBSET Displays
    BY <2>2
  <2>4. IdsAt(b, i).value \in SUBSET Displays /\ IdsAt(b, i).next = len.next + len.value
    BY <2>1, <2>3
  <2> QED BY <1>3, <1>6, <2>4, Distinct DEF Option
<1>7. CASE /\ tag.value # 0
           /\ ~(len.value # Garbled /\ (\A j \in ids : IsField(b, j, "id")))
  <2>1. IdsAt(b, i) = NoField(b)
    BY <1>4, <1>7
  <2> QED BY <1>1, <2>1 DEF NoField
<1> QED BY <1>5, <1>6, <1>7

\* A file of this version is a state, or decodes to none.
LEMMA DecodeTyped ==
    ASSUME NEW b, Current(b), b # << >>
    PROVE  Decode(b) \in SavedState \cup {Garbled}
<1> DEFINE internal == LevelAt(b, 2)
           external == IdsAt(b, internal.next)
           keyboard == LevelAt(b, external.next)
<1>1. b \in Seq(Tokens) /\ Len(b) \in Nat
  BY DEF Current
<1>2. Decode(b) = DecodeV3(b)
  <2>1. b[1][2] = 3
    BY DEF Current
  <2> QED BY <2>1 DEF Decode
<1>3. DecodeV3(b) = IF keyboard.value = Garbled THEN Garbled
                    ELSE [internal |-> internal.value, external |-> external.value,
                          keyboard |-> keyboard.value]
  BY DEF DecodeV3
<1>4. /\ internal.value \in Option(Levels) \cup {Garbled}
      /\ internal.next \in Nat \ {0}
      /\ internal.value = Garbled => internal.next = Len(b) + 1
  BY LevelTyped
<1> HIDE DEF internal
<1>5. /\ external.value \in Option(SUBSET Displays) \cup {Garbled}
      /\ external.next \in Nat \ {0}
      /\ external.value = Garbled => external.next = Len(b) + 1
  BY <1>1, <1>4, IdsTyped
<1>6. ASSUME internal.value = Garbled PROVE external.value = Garbled
  <2>1. external = IdsAt(b, Len(b) + 1)
    BY <1>4, <1>6
  <2>2. external = NoField(b)
    BY <1>1, <2>1, AtEnd
  <2> QED BY <2>2 DEF NoField
<1> HIDE DEF external
<1>7. keyboard.value \in Option(Levels) \cup {Garbled}
  BY <1>5, LevelTyped
<1>8. ASSUME external.value = Garbled PROVE keyboard.value = Garbled
  <2>1. keyboard = LevelAt(b, Len(b) + 1)
    BY <1>5, <1>8
  <2>2. keyboard = NoField(b)
    BY <1>1, <2>1, AtEnd
  <2> QED BY <2>2 DEF NoField
<1> HIDE DEF keyboard
<1> QED BY <1>2, <1>3, <1>4, <1>5, <1>6, <1>7, <1>8 DEF SavedState

\* A list of displays at the end of a file is read in full.
LEMMA IdsLast ==
    ASSUME NEW h \in Seq(Tokens), NEW ids \in Option(SUBSET Displays)
    PROVE  /\ h \o IdTokens(ids) \in Seq(Tokens)
           /\ Len(h \o IdTokens(ids)) = Len(h) + Len(IdTokens(ids))
           /\ \A k \in 1..Len(h) : (h \o IdTokens(ids))[k] = h[k]
           /\ IdsAt(h \o IdTokens(ids), Len(h) + 1).value = ids
<1> DEFINE tokens == IdTokens(ids)
           b == h \o tokens
<1>1. tokens \in Seq(Tokens)
  <2>1. CASE ids = Nothing
    BY <2>1, NoIdShape
  <2>2. CASE ids # Nothing
    BY <2>2, IdShape DEF Option
  <2> QED BY <2>1, <2>2
<1> HIDE DEF tokens
<1>2. /\ b \in Seq(Tokens) /\ Len(b) = Len(h) + Len(tokens)
      /\ \A k \in 1..Len(h) : b[k] = h[k]
      /\ \A k \in 1..Len(tokens) : b[Len(h) + k] = tokens[k]
  BY <1>1, JoinShape
<1> HIDE DEF b
<1>3. Len(h) \in Nat /\ Len(tokens) \in Nat
  BY <1>1
<1>4. \A k \in 1..Len(tokens) : Len(h) + 1 + k - 1 = Len(h) + k
  BY <1>3
<1>5. Agrees(b, Len(h) + 1, tokens)
  BY <1>2, <1>4 DEF Agrees
<1>6. Len(h) + 1 \in Nat \ {0} /\ Len(h) + 1 <= Len(b) + 1 /\ Fits(b, Len(h) + 1, tokens)
  BY <1>2, <1>3 DEF Fits
<1>7. IdsAt(b, Len(h) + 1) = [value |-> ids, next |-> Len(h) + 1 + Len(tokens)]
  BY <1>2, <1>5, <1>6, IdsRead DEF tokens
<1> QED BY <1>2, <1>7 DEF b, tokens

\* What the first version wrote decodes to what its flags said was pending.
LEMMA FirstVersion ==
    ASSUME NEW old \in V1States
    PROVE  /\ EncodeV1(old) \in Seq(Tokens) /\ EncodeV1(old) # << >>
           /\ Decode(EncodeV1(old)) = V1Meaning(old)
           /\ V1Meaning(old) \in SavedState
<1> DEFINE h == << <<"version", 1>>, <<"bool", old.pendingPanel>>, <<"f32", old.brightness>>,
                   <<"bool", old.pendingExternal>> >>
           b == EncodeV1(old)
<1>1. /\ old.pendingPanel \in BOOLEAN /\ old.pendingExternal \in BOOLEAN
      /\ old.brightness \in Levels \cup {-1} /\ old.external \in Option(SUBSET Displays)
  BY DEF V1States
<1>2. h \in Seq(Tokens) /\ Len(h) = 4
  <2>1. /\ <<"version", 1>> \in Tokens /\ <<"bool", old.pendingPanel>> \in Tokens
        /\ <<"f32", old.brightness>> \in Tokens /\ <<"bool", old.pendingExternal>> \in Tokens
    BY <1>1 DEF Tokens
  <2> QED BY <2>1
<1>3. /\ h[1] = <<"version", 1>> /\ h[2] = <<"bool", old.pendingPanel>>
      /\ h[3] = <<"f32", old.brightness>> /\ h[4] = <<"bool", old.pendingExternal>>
  OBVIOUS
<1>4. b = h \o IdTokens(old.external)
  BY DEF EncodeV1
<1> HIDE DEF h, b
<1>5. /\ b \in Seq(Tokens) /\ Len(b) = Len(h) + Len(IdTokens(old.external))
      /\ \A k \in 1..Len(h) : b[k] = h[k]
      /\ IdsAt(b, Len(h) + 1).value = old.external
  BY <1>1, <1>2, <1>4, IdsLast
<1>6. Len(b) \in Nat /\ Len(b) >= 4
  <2>1. Len(IdTokens(old.external)) \in Nat
    <3>1. IdTokens(old.external) \in Seq(Tokens)
      BY <1>1, IdShape, NoIdShape DEF Option
    <3> QED BY <3>1
  <2> QED BY <1>2, <1>5, <2>1
<1>7. /\ b[1] = <<"version", 1>> /\ b[2] = <<"bool", old.pendingPanel>>
      /\ b[3] = <<"f32", old.brightness>> /\ b[4] = <<"bool", old.pendingExternal>>
      /\ IdsAt(b, 5).value = old.external
  <2>1. 1 \in 1..Len(h) /\ 2 \in 1..Len(h) /\ 3 \in 1..Len(h) /\ 4 \in 1..Len(h) /\ Len(h) + 1 = 5
    BY <1>2
  <2> QED BY <1>3, <1>5, <2>1
<1>8. b # << >> /\ Decode(b) = DecodeV1(b)
  BY <1>6, <1>7 DEF Decode
<1>9. Field(b, 3, "f32").value = old.brightness
  BY <1>5, <1>6, <1>7, FieldReads
<1>10. DecodeV1(b) = [ internal |-> IF b[2][2] /\ old.brightness >= 0 THEN old.brightness ELSE Nothing,
                       external |-> IF b[4][2] THEN old.external ELSE Nothing,
                       keyboard |-> Nothing ]
  <2>1. old.external # Garbled
    BY <1>1, Distinct
  <2> QED BY <1>7, <1>9, <2>1 DEF DecodeV1
<1>11. old.brightness >= 0 <=> old.brightness # -1
  <2>1. old.brightness \in Nat \/ old.brightness = -1
    BY <1>1, FileAssumption
  <2> QED BY <2>1
<1>12. DecodeV1(b) = V1Meaning(old)
  BY <1>1, <1>7, <1>10, <1>11 DEF V1Meaning
<1>13. V1Meaning(old) \in SavedState
  BY <1>1 DEF V1Meaning, SavedState, Option
<1> QED BY <1>5, <1>8, <1>12, <1>13 DEF b

\* What the second version wrote decodes to it, without a keyboard.
LEMMA SecondVersion ==
    ASSUME NEW old \in [internal : Option(Levels), external : Option(SUBSET Displays)]
    PROVE  LET meaning == [internal |-> old.internal, external |-> old.external,
                           keyboard |-> Nothing]
           IN  /\ EncodeV2(old) \in Seq(Tokens) /\ EncodeV2(old) # << >>
               /\ Decode(EncodeV2(old)) = meaning
               /\ meaning \in SavedState
<1> DEFINE v == << <<"version", 2>> >>
           p == LevelTokens(old.internal)
           h == v \o p
           b == EncodeV2(old)
<1>1. old.internal \in Option(Levels) /\ old.external \in Option(SUBSET Displays)
  OBVIOUS
<1>2. v \in Seq(Tokens) /\ Len(v) = 1 /\ v[1] = <<"version", 2>>
  <2>1. <<"version", 2>> \in Tokens
    BY DEF Tokens
  <2> QED BY <2>1
<1>3. p \in Seq(Tokens) /\ Len(p) \in Nat
  BY <1>1, LevelShape
<1>4. b = h \o IdTokens(old.external)
  BY DEF EncodeV2
<1> HIDE DEF v, p, b
<1>5. /\ h \in Seq(Tokens) /\ Len(h) = 1 + Len(p) /\ h[1] = <<"version", 2>>
      /\ \A j \in 1..Len(p) : h[1 + j] = p[j]
  <2>1. /\ v \o p \in Seq(Tokens) /\ Len(v \o p) = Len(v) + Len(p)
        /\ \A j \in 1..Len(v) : (v \o p)[j] = v[j]
        /\ \A j \in 1..Len(p) : (v \o p)[Len(v) + j] = p[j]
    BY <1>2, <1>3, JoinShape
  <2>2. 1 \in 1..Len(v)
    BY <1>2
  <2> QED BY <1>2, <2>1, <2>2
<1> HIDE DEF h
<1>6. /\ b \in Seq(Tokens) /\ Len(b) = Len(h) + Len(IdTokens(old.external))
      /\ \A k \in 1..Len(h) : b[k] = h[k]
      /\ IdsAt(b, Len(h) + 1).value = old.external
  BY <1>1, <1>4, <1>5, IdsLast
<1>7. Len(b) \in Nat /\ Len(b) >= 1 + Len(p)
  <2>1. Len(IdTokens(old.external)) \in Nat
    <3>1. IdTokens(old.external) \in Seq(Tokens)
      BY <1>1, IdShape, NoIdShape DEF Option
    <3> QED BY <3>1
  <2> QED BY <1>3, <1>5, <1>6, <2>1
<1>8. b[1] = <<"version", 2>>
  <2>1. 1 \in 1..Len(h)
    BY <1>3, <1>5
  <2> QED BY <1>5, <1>6, <2>1
<1>9. b # << >> /\ Decode(b) = DecodeV2(b)
  BY <1>3, <1>7, <1>8 DEF Decode
<1>10. LevelAt(b, 2) = [value |-> old.internal, next |-> 2 + Len(p)]
  <2>1. \A j \in 1..Len(p) : 1 + j \in 1..Len(h) /\ 2 + j - 1 = 1 + j
    BY <1>3, <1>5
  <2>2. Agrees(b, 2, p)
    BY <1>5, <1>6, <2>1 DEF Agrees
  <2>3. 2 <= Len(b) + 1 /\ Fits(b, 2, p)
    BY <1>3, <1>7 DEF Fits
  <2> QED BY <1>1, <1>6, <2>2, <2>3, LevelReads DEF p
<1>11. IdsAt(b, 2 + Len(p)).value = old.external
  <2>1. Len(h) + 1 = 2 + Len(p)
    BY <1>3, <1>5
  <2> QED BY <1>6, <2>1
<1>12. DecodeV2(b) = [internal |-> old.internal, external |-> old.external, keyboard |-> Nothing]
  <2>1. old.external # Garbled
    BY <1>1, Distinct
  <2> QED BY <1>10, <1>11, <2>1 DEF DecodeV2
<1> QED BY <1>1, <1>6, <1>9, <1>12 DEF b, SavedState, Option

\* What is saved is a file of this version.
LEMMA EncodedCurrent ==
    ASSUME NEW state \in SavedState
    PROVE  Current(Encode(state)) /\ Len(Encode(state)) >= 1
<1> DEFINE tokens == Encode(state)
           p == LevelTokens(state.internal)
           e == IdTokens(state.external)
           k == LevelTokens(state.keyboard)
           Lit(s) == \A j \in 1..Len(s) : s[j][1] = "f32" => s[j][2] \in Levels
<1>1. /\ state.internal \in Option(Levels) /\ state.keyboard \in Option(Levels)
      /\ state.external \in Option(SUBSET Displays)
  BY DEF SavedState
<1>2. /\ p \in Seq(Tokens) /\ e \in Seq(Tokens) /\ k \in Seq(Tokens)
      /\ tokens \in Seq(Tokens) /\ Len(tokens) = 1 + Len(p) + Len(e) + Len(k)
      /\ tokens[1] = << "version", 3 >>
      /\ \A j \in 1..Len(p) : tokens[1 + j] = p[j]
      /\ \A j \in 1..Len(e) : tokens[1 + Len(p) + j] = e[j]
      /\ \A j \in 1..Len(k) : tokens[1 + Len(p) + Len(e) + j] = k[j]
  BY Encoded
<1>3. ASSUME NEW level \in Option(Levels) PROVE Lit(LevelTokens(level))
  <2>1. CASE level = Nothing
    BY <2>1, LevelShape
  <2>2. CASE level # Nothing
    <3>1. /\ Len(LevelTokens(level)) = 2 /\ LevelTokens(level)[1] = << "tag", 1 >>
          /\ LevelTokens(level)[2] = << "f32", level >> /\ level \in Levels
      BY <2>2, LevelShape
    <3>2. \A j \in 1..Len(LevelTokens(level)) : j = 1 \/ j = 2
      BY <3>1
    <3> QED BY <3>1, <3>2
  <2> QED BY <2>1, <2>2
<1>4. Lit(e)
  <2>1. CASE state.external = Nothing
    BY <2>1, NoIdShape
  <2>2. CASE state.external # Nothing
    <3> DEFINE n == Len(ListOf[state.external])
    <3>1. /\ n \in Nat /\ Len(e) = n + 2 /\ e[1] = << "tag", 1 >> /\ e[2] = << "len", n >>
          /\ \A j \in 1..n : e[j + 2] = << "id", ListOf[state.external][j] >>
      BY <1>1, <2>2, IdShape DEF Option
    <3> SUFFICES ASSUME NEW j \in 1..Len(e) PROVE e[j][1] # "f32"
      OBVIOUS
    <3> HIDE DEF n, e
    <3>2. j \in Nat /\ (j = 1 \/ j = 2 \/ (j - 2 \in 1..n /\ j = (j - 2) + 2))
      BY <3>1
    <3>3. CASE j = 1 \/ j = 2
      BY <3>1, <3>3
    <3>4. CASE j - 2 \in 1..n /\ j = (j - 2) + 2
      <4>1. e[(j - 2) + 2] = << "id", ListOf[state.external][j - 2] >>
        BY <3>1, <3>4
      <4>2. e[j] = << "id", ListOf[state.external][j - 2] >>
        BY <3>4, <4>1
      <4> QED BY <4>2
    <3> QED BY <3>2, <3>3, <3>4
  <2> QED BY <2>1, <2>2
<1>5. Lit(p) /\ Lit(k)
  BY <1>1, <1>3
<1> HIDE DEF tokens, p, e, k
<1>6. Len(p) \in Nat /\ Len(e) \in Nat /\ Len(k) \in Nat
  BY <1>2
<1>7. Lit(tokens)
  <2> SUFFICES ASSUME NEW j \in 1..Len(tokens), tokens[j][1] = "f32"
               PROVE  tokens[j][2] \in Levels
    OBVIOUS
  <2>1. CASE j = 1
    BY <1>2, <2>1
  <2>2. CASE j > 1 /\ j <= 1 + Len(p)
    <3>1. j - 1 \in 1..Len(p) /\ 1 + (j - 1) = j
      BY <1>6, <2>2
    <3>2. tokens[j] = p[j - 1]
      BY <1>2, <3>1
    <3> QED BY <1>5, <3>1, <3>2
  <2>3. CASE j > 1 + Len(p) /\ j <= 1 + Len(p) + Len(e)
    <3>1. j - 1 - Len(p) \in 1..Len(e) /\ 1 + Len(p) + (j - 1 - Len(p)) = j
      <4>1. j \in Int /\ Len(p) \in Int /\ Len(e) \in Int
        BY <1>2, <1>6
      <4> QED BY <2>3, <4>1
    <3>2. tokens[j] = e[j - 1 - Len(p)]
      BY <1>2, <3>1
    <3> QED BY <1>4, <3>1, <3>2
  <2>4. CASE j > 1 + Len(p) + Len(e)
    <3>1. j - 1 - Len(p) - Len(e) \in 1..Len(k) /\ 1 + Len(p) + Len(e) + (j - 1 - Len(p) - Len(e)) = j
      BY <1>2, <1>6, <2>4
    <3>2. tokens[j] = k[j - 1 - Len(p) - Len(e)]
      BY <1>2, <3>1
    <3> QED BY <1>5, <3>1, <3>2
  <2> QED BY <1>6, <2>1, <2>2, <2>3, <2>4
<1>8. Len(tokens) >= 1
  BY <1>2, <1>6
<1> QED BY <1>2, <1>7, <1>8 DEF Current, tokens

\* What the first tokens of a state make of a file of this version: one of
\* this version that begins with them.
LEMMA OverlayShape ==
    ASSUME NEW b, Current(b), NEW state \in SavedState, NEW n \in 0..Len(Encode(state))
    PROVE  LET written == SubSeq(Encode(state), 1, n)
               after == written \o SubSeq(b, Len(written) + 1, Len(b))
           IN  /\ Current(after)
               /\ \A j \in 1..n : after[j] = Encode(state)[j]
               /\ Len(after) = IF n <= Len(b) THEN Len(b) ELSE n
<1> DEFINE tokens == Encode(state)
           written == SubSeq(tokens, 1, n)
           rest == SubSeq(b, n + 1, Len(b))
           after == written \o rest
<1>1. Current(tokens) /\ b \in Seq(Tokens) /\ Len(b) \in Nat
  BY EncodedCurrent DEF Current
<1> HIDE DEF tokens
<1>2. tokens \in Seq(Tokens) /\ Len(tokens) \in Nat /\ n \in Nat /\ n <= Len(tokens)
  BY <1>1 DEF Current, tokens
<1>3. /\ written \in Seq(Tokens) /\ Len(written) = n
      /\ \A j \in 1..n : written[j] = tokens[j]
  <2>1. \A j \in 1..n : j \in 1..Len(tokens)
    BY <1>2
  <2>2. 1 \in Int /\ n \in Int /\ n - 1 + 1 = n /\ (IF 1 <= n THEN n - 1 + 1 ELSE 0) = n
        /\ \A j \in 1..n : tokens[j] \in Tokens /\ 1 + j - 1 = j
    BY <1>2, <2>1
  <2>3. /\ SubSeq(tokens, 1, n) \in Seq(Tokens)
        /\ Len(SubSeq(tokens, 1, n)) = IF 1 <= n THEN n - 1 + 1 ELSE 0
        /\ \A j \in 1..(n - 1 + 1) : SubSeq(tokens, 1, n)[j] = tokens[1 + j - 1]
    BY <2>2, SubSeqProperties
  <2> QED BY <2>2, <2>3
<1>4. /\ rest \in Seq(Tokens) /\ Len(rest) = IF n <= Len(b) THEN Len(b) - n ELSE 0
      /\ \A j \in 1..Len(rest) : rest[j] = b[n + j] /\ n + j \in 1..Len(b)
  <2>1. /\ n + 1 \in Int /\ Len(b) \in Int
        /\ \A j \in (n + 1)..Len(b) : b[j] \in Tokens
        /\ Len(b) - (n + 1) + 1 = Len(b) - n
    BY <1>1, <1>2
  <2>2. /\ rest \in Seq(Tokens)
        /\ Len(rest) = IF n + 1 <= Len(b) THEN Len(b) - (n + 1) + 1 ELSE 0
        /\ \A j \in 1..(Len(b) - (n + 1) + 1) : rest[j] = b[(n + 1) + j - 1]
    BY <2>1, SubSeqProperties
  <2> HIDE DEF rest
  <2>3. Len(rest) = IF n <= Len(b) THEN Len(b) - n ELSE 0
    <3>1. (n + 1 <= Len(b) <=> n < Len(b)) /\ (n <= Len(b) /\ ~(n < Len(b)) => Len(b) - n = 0)
      BY <1>1, <1>2
    <3>2. Len(rest) = IF n + 1 <= Len(b) THEN Len(b) - (n + 1) + 1 ELSE 0
      BY <2>2
    <3>3. CASE n < Len(b)
      <4>1. n + 1 <= Len(b) /\ n <= Len(b)
        BY <1>1, <1>2, <3>3
      <4>2. Len(rest) = Len(b) - (n + 1) + 1
        BY <3>2, <4>1
      <4> QED BY <2>1, <4>1, <4>2
    <3>4. CASE ~(n < Len(b))
      BY <3>1, <3>2, <3>4
    <3> QED BY <3>3, <3>4
  <2>4. \A j \in 1..Len(rest) : /\ j \in 1..(Len(b) - (n + 1) + 1)
                                /\ (n + 1) + j - 1 = n + j /\ n + j \in 1..Len(b)
    BY <1>1, <1>2, <2>3
  <2> QED BY <2>2, <2>3, <2>4
<1> HIDE DEF written, rest
<1>5. /\ after \in Seq(Tokens) /\ Len(after) = n + Len(rest)
      /\ \A j \in 1..n : after[j] = tokens[j]
      /\ \A j \in 1..Len(rest) : after[n + j] = b[n + j] /\ n + j \in 1..Len(b)
  <2>1. /\ after \in Seq(Tokens) /\ Len(after) = Len(written) + Len(rest)
        /\ \A j \in 1..Len(written) : after[j] = written[j]
        /\ \A j \in 1..Len(rest) : after[Len(written) + j] = rest[j]
    BY <1>3, <1>4, JoinShape
  <2> QED BY <1>3, <1>4, <2>1
<1> HIDE DEF after
<1>6. Len(rest) \in Nat
  BY <1>4
<1>7. Current(after)
  <2>1. \A j \in 1..Len(after) : \/ j \in 1..n /\ j \in 1..Len(tokens) /\ after[j] = tokens[j]
                                 \/ j \in 1..Len(b) /\ after[j] = b[j]
    <3> SUFFICES ASSUME NEW j \in 1..Len(after)
                 PROVE  \/ j \in 1..n /\ j \in 1..Len(tokens) /\ after[j] = tokens[j]
                        \/ j \in 1..Len(b) /\ after[j] = b[j]
      OBVIOUS
    <3>1. CASE j <= n
      BY <1>2, <1>5, <3>1
    <3>2. CASE j > n
      <4>1. j - n \in 1..Len(rest) /\ n + (j - n) = j
        BY <1>2, <1>5, <1>6, <3>2
      <4> QED BY <1>5, <4>1
    <3> QED BY <1>2, <3>1, <3>2
  <2>2. ASSUME after # << >> PROVE after[1] = << "version", 3 >>
    <3>1. 1 \in 1..Len(after)
      BY <1>5, <2>2
    <3>2. (1 \in 1..Len(tokens) => tokens[1] = << "version", 3 >>)
          /\ (1 \in 1..Len(b) => b[1] = << "version", 3 >>)
      BY <1>1, <1>2 DEF Current
    <3> QED BY <2>1, <3>1, <3>2
  <2>3. \A j \in 1..Len(after) : after[j][1] = "f32" => after[j][2] \in Levels
    BY <1>1, <2>1 DEF Current
  <2> QED BY <1>5, <2>2, <2>3 DEF Current
<1>8. Len(after) = IF n <= Len(b) THEN Len(b) ELSE n
  BY <1>1, <1>2, <1>4, <1>5
<1>9. SubSeq(b, Len(written) + 1, Len(b)) = rest
  BY <1>3 DEF rest
<1> QED BY <1>5, <1>7, <1>8, <1>9 DEF tokens, written, after

-----------------------------------------------------------------------------
(* The path. *)

\* What a file of this version, or none, decodes to.
LEMMA ContentsTyped ==
    ASSUME NEW b, b = Nothing \/ Current(b)
    PROVE  /\ b \in Option(Seq(Tokens))
           /\ Contents(b) \in SavedState \cup {Torn, Garbled}
           /\ Contents(b) = Torn <=> b = << >>
<1>1. CASE b = Nothing
  <2>1. NothingSaved \in SavedState
    BY DEF NothingSaved, SavedState, Option
  <2>2. << >> \in Seq(Tokens)
    OBVIOUS
  <2> QED BY <1>1, <2>1, <2>2, Distinct, FileAssumption DEF Contents, Option
<1>2. CASE b # Nothing
  <2>1. Current(b) /\ b \in Seq(Tokens) /\ Contents(b) = Decode(b)
    BY <1>2 DEF Contents, Current
  <2>2. CASE b = << >>
    BY <2>1, <2>2 DEF Decode, Option
  <2>3. CASE b # << >>
    BY <2>1, <2>3, DecodeTyped, Distinct DEF Option
  <2> QED BY <2>2, <2>3
<1> QED BY <1>1, <1>2

\* A state written over a file of this version loads, whatever was there.
LEMMA OverlayFull ==
    ASSUME bytes # Nothing, Current(bytes), NEW state \in SavedState
    PROVE  LET after == Overlay(Encode(state))
           IN  Current(after) /\ Contents(after) = state
<1> DEFINE tokens == Encode(state)
           n == Len(tokens)
           after == tokens \o SubSeq(bytes, Len(tokens) + 1, Len(bytes))
<1>1. tokens \in Seq(Tokens) /\ n \in Nat /\ n >= 1 /\ Len(bytes) \in Nat
  BY EncodedCurrent DEF Current
<1>2. SubSeq(tokens, 1, n) = tokens /\ n \in 0..n
  BY <1>1, SubSeqFull
<1>3. /\ Current(after)
      /\ \A j \in 1..n : after[j] = tokens[j]
      /\ Len(after) = IF n <= Len(bytes) THEN Len(bytes) ELSE n
  <2> DEFINE written == SubSeq(tokens, 1, n)
             over == written \o SubSeq(bytes, Len(written) + 1, Len(bytes))
  <2>1. /\ Current(over)
        /\ \A j \in 1..n : over[j] = tokens[j]
        /\ Len(over) = IF n <= Len(bytes) THEN Len(bytes) ELSE n
    BY <1>2, OverlayShape
  <2>2. over = after
    BY <1>2
  <2> HIDE DEF over, after
  <2> QED BY <2>1, <2>2
<1> HIDE DEF tokens, after
<1>4. Len(after) \in Nat /\ Len(after) >= n /\ after \in Seq(Tokens) /\ after # << >>
  <2>1. after \in Seq(Tokens)
    BY <1>3 DEF Current
  <2>2. Len(after) \in Nat /\ Len(after) >= n /\ Len(after) # 0
    BY <1>1, <1>3
  <2> QED BY <2>1, <2>2
<1>5. Agrees(after, 1, tokens) /\ Fits(after, 1, tokens)
  <2>1. \A k \in 1..n : 1 + k - 1 = k
    BY <1>1
  <2>2. 1 + n - 1 <= Len(after)
    BY <1>1, <1>4
  <2> QED BY <1>3, <2>1, <2>2 DEF Agrees, Fits
<1>6. Decode(after) = state
  BY <1>4, <1>5, DecodeAgrees DEF tokens
<1>7. Contents(after) = state
  BY <1>4, <1>6, FileAssumption DEF Contents
<1> QED BY <1>3, <1>7 DEF Overlay, tokens, after

\* The beginning of a state written over a file of this version leaves one of
\* this version, and nothing that loads if that file was empty.
LEMMA OverlayPart ==
    ASSUME bytes # Nothing, Current(bytes), NEW state \in SavedState,
           NEW n \in 0 .. Len(Encode(state)) - 1
    PROVE  LET after == Overlay(SubSeq(Encode(state), 1, n))
           IN  /\ Current(after)
               /\ bytes = << >> => Contents(after) \in {Torn, Garbled}
               /\ bytes # << >> => after # << >>
<1> DEFINE tokens == Encode(state)
           written == SubSeq(tokens, 1, n)
           after == written \o SubSeq(bytes, Len(written) + 1, Len(bytes))
<1>1. tokens \in Seq(Tokens) /\ Len(tokens) \in Nat /\ Len(tokens) >= 1 /\ bytes \in Seq(Tokens)
  BY EncodedCurrent DEF Current
<1>2. n \in 0..Len(tokens) /\ n \in Nat /\ n < Len(tokens) /\ Len(bytes) \in Nat
  BY <1>1
<1>3. /\ Current(after)
      /\ \A j \in 1..n : after[j] = tokens[j]
      /\ Len(after) = IF n <= Len(bytes) THEN Len(bytes) ELSE n
  BY <1>2, OverlayShape
<1> HIDE DEF tokens, written, after
<1>4. after \in Seq(Tokens) /\ Len(after) \in Nat
  BY <1>3 DEF Current
<1>5. ASSUME bytes # << >> PROVE after # << >>
  <2>1. Len(bytes) > 0
    BY <1>1, <1>5
  <2>2. Len(after) > 0
    BY <1>2, <1>3, <2>1
  <2> QED BY <2>2
<1>6. ASSUME bytes = << >> PROVE Contents(after) \in {Torn, Garbled}
  <2>1. Len(bytes) = 0
    BY <1>6
  <2>2. Len(after) = n
    BY <1>2, <1>3, <2>1
  <2>3. CASE n = 0
    <3>1. after = << >> /\ after # Nothing
      <4>1. after # Nothing
        BY <1>4, FileAssumption
      <4>2. after = << >>
        BY <1>4, <2>2, <2>3
      <4> QED BY <4>1, <4>2
    <3> QED BY <3>1 DEF Contents, Decode
  <2>4. CASE n # 0
    <3>1. after # << >> /\ after # Nothing
      BY <1>4, <2>2, <2>4, FileAssumption
    <3>2. \A k \in 1..Len(tokens) : 1 + k - 1 <= Len(after) => k \in 1..n /\ 1 + k - 1 = k
      BY <1>1, <1>2, <2>2
    <3>3. Agrees(after, 1, tokens)
      BY <1>3, <3>2 DEF Agrees
    <3>4. ~Fits(after, 1, tokens)
      BY <1>1, <1>2, <2>2 DEF Fits
    <3>5. Decode(after) = Garbled
      BY <1>4, <3>1, <3>3, <3>4, DecodeAgrees DEF tokens
    <3> QED BY <3>1, <3>5 DEF Contents
  <2> QED BY <2>3, <2>4
<1> QED BY <1>3, <1>5, <1>6 DEF Overlay, written, after, tokens

\* What an older version left is untouched until a thread opens or removes it,
\* what is there from then on is of this version, and only a file that is there
\* is open.
FileInv ==
    /\ cell = Contents(bytes)
    /\ meant = Nothing => bytes = Nothing \/ Current(bytes)
    /\ meant # Nothing => /\ cell = meant
                          /\ \A t \in Threads : fd[t] = "closed"
                          /\ bytes = Nothing => meant = NothingSaved
    /\ bytes = Nothing => \A t \in Threads : fd[t] # "open"

\* An open file is there, and of this version.
LEMMA OpenFile ==
    ASSUME TypeOK, FileInv, NEW t \in Threads, fd[t] # "closed"
    PROVE  /\ meant = Nothing /\ (bytes = Nothing \/ Current(bytes))
           /\ fd[t] = "open" => bytes # Nothing /\ Current(bytes)
           /\ image[t] \in SavedState \ {NothingSaved}
BY DEF FileInv, TypeOK

\* Initially.
LEMMA InitFile == Init => TypeOK /\ FileInv
<1> SUFFICES ASSUME Init PROVE TypeOK /\ FileInv
  OBVIOUS
<1>1. NothingSaved \in SavedState
  BY DEF NothingSaved, SavedState, Option
<1>2. /\ bytes \in Option(Seq(Tokens)) /\ cell = meant /\ meant \in SavedState
      /\ bytes = Nothing => meant = NothingSaved
  <2>1. CASE bytes = Nothing /\ meant = NothingSaved
    BY <1>1, <2>1 DEF Init, Contents, Option
  <2>2. CASE \E old \in V1States : bytes = EncodeV1(old) /\ meant = V1Meaning(old)
    <3>1. PICK old \in V1States : bytes = EncodeV1(old) /\ meant = V1Meaning(old)
      BY <2>2
    <3>2. bytes \in Seq(Tokens) /\ Decode(bytes) = meant /\ meant \in SavedState
      BY <3>1, FirstVersion
    <3> QED BY <3>2, FileAssumption DEF Init, Contents, Option
  <2>3. CASE \E old \in [internal : Option(Levels), external : Option(SUBSET Displays)] :
                /\ bytes = EncodeV2(old)
                /\ meant = [internal |-> old.internal, external |-> old.external,
                            keyboard |-> Nothing]
    <3>1. PICK old \in [internal : Option(Levels), external : Option(SUBSET Displays)] :
                /\ bytes = EncodeV2(old)
                /\ meant = [internal |-> old.internal, external |-> old.external,
                            keyboard |-> Nothing]
      BY <2>3
    <3>2. bytes \in Seq(Tokens) /\ Decode(bytes) = meant /\ meant \in SavedState
      BY <3>1, SecondVersion
    <3> QED BY <3>2, FileAssumption DEF Init, Contents, Option
  <2> QED BY <2>1, <2>2, <2>3 DEF Init
<1>3. TypeOK
  BY <1>1, <1>2 DEF Init, TypeOK, Option
<1>4. FileInv
  BY <1>2, Distinct DEF Init, FileInv
<1> QED BY <1>3, <1>4

\* A step that leaves a file of this version, or none, which has one open only
\* if there is one.
LEMMA FileLeft ==
    ASSUME NEW b, b = Nothing \/ Current(b), Leaves(b), meant' = Nothing,
           b = Nothing => \A t \in Threads : fd'[t] # "open"
    PROVE  /\ FileInv' /\ bytes' \in Option(Seq(Tokens))
           /\ cell' \in SavedState \cup {Torn, Garbled}
<1>1. bytes' = b /\ cell' = Contents(b)
  BY DEF Leaves
<1>2. /\ cell' = Contents(bytes')
      /\ bytes' \in Option(Seq(Tokens)) /\ cell' \in SavedState \cup {Torn, Garbled}
      /\ bytes' = Nothing \/ Current(bytes')
  BY <1>1, ContentsTyped
<1> QED BY <1>1, <1>2 DEF FileInv

\* load.
LEMMA LoadFile ==
    ASSUME TypeOK, FileInv, Load
    PROVE  TypeOK' /\ FileInv'
<1>1. FileInv'
  BY DEF Load, FileInv
<1>2. loaded' \in Option(SavedState) /\ legacy' \in BOOLEAN
  BY DEF Load, TypeOK, Option
<1> QED BY <1>1, <1>2 DEF Load, TypeOK

\* The open of save.
LEMMA OpenKeeps ==
    ASSUME TypeOK, FileInv, NEW t \in Threads, Open(t)
    PROVE  TypeOK' /\ FileInv'
<1>1. PICK state \in SavedState \ {NothingSaved} : image' = [image EXCEPT ![t] = state]
  BY DEF Open
<1>2. Current(<< >>) /\ << >> # Nothing
  <2> DEFINE none == << >>
  <2>1. none \in Seq(Tokens) /\ Len(none) = 0
    OBVIOUS
  <2> HIDE DEF none
  <2>2. \A j \in 1..Len(none) : FALSE
    BY <2>1
  <2>3. none # Nothing
    BY <2>1, FileAssumption
  <2> QED BY <2>1, <2>2, <2>3 DEF Current, none
<1>3. /\ FileInv' /\ bytes' \in Option(Seq(Tokens))
      /\ cell' \in SavedState \cup {Torn, Garbled}
  BY <1>2, FileLeft DEF Open
<1> QED BY <1>1, <1>3 DEF Open, TypeOK, Option

\* A thread that closes its file keeps the types and the rest.
LEMMA CloseKeeps ==
    ASSUME TypeOK, FileInv, NEW t \in Threads, fd[t] # "closed",
           NEW b, b = Nothing \/ Current(b), Leaves(b), Closed(t),
           bytes = Nothing <=> b = Nothing,
           UNCHANGED << legacy, alive, loaded, meant >>
    PROVE  TypeOK' /\ FileInv'
<1>1. meant = Nothing /\ NothingSaved \in SavedState
  BY OpenFile DEF NothingSaved, SavedState, Option
<1>2. \A u \in Threads : fd'[u] = "open" => fd[u] = "open"
  BY DEF Closed, TypeOK
<1>3. b = Nothing => \A u \in Threads : fd'[u] # "open"
  BY <1>2 DEF FileInv
<1>4. /\ FileInv' /\ bytes' \in Option(Seq(Tokens))
      /\ cell' \in SavedState \cup {Torn, Garbled}
  BY <1>1, <1>3, FileLeft
<1> QED BY <1>1, <1>4 DEF Closed, TypeOK

\* What a write, whole or not, leaves.
LEMMA WriteLeaves ==
    ASSUME TypeOK, FileInv, NEW t \in Threads, fd[t] # "closed",
           NEW n \in 0..Len(Encode(image[t])),
           NEW b, b = IF fd[t] = "open" THEN Overlay(SubSeq(Encode(image[t]), 1, n)) ELSE bytes
    PROVE  /\ b = Nothing \/ Current(b)
           /\ bytes = Nothing <=> b = Nothing
           /\ fd[t] # "open" => b = bytes
           /\ fd[t] = "open" /\ n = Len(Encode(image[t])) => Contents(b) = image[t]
           /\ fd[t] = "open" /\ n < Len(Encode(image[t])) =>
                 /\ bytes = << >> => Contents(b) \in {Torn, Garbled}
                 /\ bytes # << >> => b # << >>
<1>1. /\ bytes = Nothing \/ Current(bytes)
      /\ fd[t] = "open" => bytes # Nothing /\ Current(bytes)
      /\ image[t] \in SavedState
  BY OpenFile
<1>2. CASE fd[t] # "open"
  BY <1>1, <1>2
<1> DEFINE tokens == Encode(image[t])
<1>3. tokens \in Seq(Tokens) /\ Len(tokens) \in Nat
  BY <1>1, EncodedCurrent DEF Current
<1>4. CASE fd[t] = "open" /\ n = Len(tokens)
  <2>1. SubSeq(tokens, 1, n) = tokens
    BY <1>3, <1>4, SubSeqFull
  <2>2. b = Overlay(tokens)
    BY <1>4, <2>1
  <2>3. Current(b) /\ Contents(b) = image[t]
    BY <1>1, <1>4, <2>2, OverlayFull
  <2>4. b # Nothing
    BY <2>3, FileAssumption DEF Current
  <2> QED BY <1>1, <1>3, <1>4, <2>3, <2>4
<1>5. CASE fd[t] = "open" /\ n # Len(tokens)
  <2>1. n \in 0..(Len(tokens) - 1)
    BY <1>3, <1>5
  <2>2. /\ Current(b)
        /\ bytes = << >> => Contents(b) \in {Torn, Garbled}
        /\ bytes # << >> => b # << >>
    BY <1>1, <1>5, <2>1, OverlayPart
  <2>3. b # Nothing
    BY <2>2, FileAssumption DEF Current
  <2> QED BY <1>1, <1>5, <2>2, <2>3
<1> QED BY <1>2, <1>4, <1>5

\* The step of a write: how many tokens it gets to, and what they leave.
LEMMA WriteStep ==
    ASSUME TypeOK, FileInv, NEW t \in Threads, Write(t) \/ WriteFails(t)
    PROVE  \E n, b :
              /\ n \in 0..Len(Encode(image[t]))
              /\ b = IF fd[t] = "open" THEN Overlay(SubSeq(Encode(image[t]), 1, n)) ELSE bytes
              /\ Leaves(b)
              /\ fd[t] # "closed" /\ Closed(t)
              /\ UNCHANGED << legacy, alive, loaded, meant >>
              /\ Write(t) => n = Len(Encode(image[t]))
              /\ ~Write(t) => "disk" \in Faults /\ n < Len(Encode(image[t]))
<1> DEFINE tokens == Encode(image[t])
<1>1. tokens \in Seq(Tokens) /\ Len(tokens) \in Nat
  <2>1. image[t] \in SavedState
    BY DEF TypeOK
  <2> QED BY <2>1, EncodedCurrent DEF Current
<1>2. CASE Write(t)
  <2>1. SubSeq(tokens, 1, Len(tokens)) = tokens /\ Len(tokens) \in 0..Len(tokens)
    BY <1>1, SubSeqFull
  <2>2. Leaves(IF fd[t] = "open" THEN Overlay(SubSeq(tokens, 1, Len(tokens))) ELSE bytes)
    BY <1>2, <2>1 DEF Write
  <2>3. /\ fd[t] # "closed" /\ Closed(t)
        /\ UNCHANGED << legacy, alive, loaded, meant >>
    BY <1>2 DEF Write
  <2> HIDE DEF tokens
  <2>4. \E n \in 0..Len(tokens) :
           /\ Leaves(IF fd[t] = "open" THEN Overlay(SubSeq(tokens, 1, n)) ELSE bytes)
           /\ n = Len(tokens)
    BY <2>1, <2>2
  <2> QED BY <1>2, <2>3, <2>4 DEF tokens
<1>3. CASE WriteFails(t) /\ ~Write(t)
  <2>1. PICK n \in 0 .. Len(tokens) - 1 :
           Leaves(IF fd[t] = "open" THEN Overlay(SubSeq(tokens, 1, n)) ELSE bytes)
    BY <1>3 DEF WriteFails
  <2>2. n \in 0..Len(tokens) /\ n < Len(tokens)
    BY <1>1
  <2>3. /\ fd[t] # "closed" /\ Closed(t) /\ "disk" \in Faults
        /\ UNCHANGED << legacy, alive, loaded, meant >>
    BY <1>3 DEF WriteFails
  <2> HIDE DEF tokens
  <2> QED BY <1>3, <2>1, <2>2, <2>3 DEF tokens
<1> QED BY <1>2, <1>3

\* The write of save, whole or not.
LEMMA WriteKeeps ==
    ASSUME TypeOK, FileInv, NEW t \in Threads, Write(t) \/ WriteFails(t)
    PROVE  TypeOK' /\ FileInv'
<1>1. PICK n, b :
         /\ n \in 0..Len(Encode(image[t]))
         /\ b = IF fd[t] = "open" THEN Overlay(SubSeq(Encode(image[t]), 1, n)) ELSE bytes
         /\ Leaves(b)
         /\ fd[t] # "closed" /\ Closed(t)
         /\ UNCHANGED << legacy, alive, loaded, meant >>
  BY WriteStep
<1>2. (b = Nothing \/ Current(b)) /\ (bytes = Nothing <=> b = Nothing)
  BY <1>1, WriteLeaves
<1> QED BY <1>1, <1>2, CloseKeeps

\* clear.
LEMMA ClearKeeps ==
    ASSUME TypeOK, FileInv, NEW t \in Threads, Clear(t)
    PROVE  TypeOK' /\ FileInv'
<1>1. \A u \in Threads : fd'[u] # "open"
  BY DEF Clear, TypeOK
<1>2. /\ FileInv' /\ bytes' \in Option(Seq(Tokens))
      /\ cell' \in SavedState \cup {Torn, Garbled}
  BY <1>1, FileLeft DEF Clear
<1> QED BY <1>2 DEF Clear, TypeOK, Option

\* The end of the process.
LEMMA EndKeeps ==
    ASSUME TypeOK, FileInv, End
    PROVE  TypeOK' /\ FileInv'
<1>1. NothingSaved \in SavedState
  BY DEF NothingSaved, SavedState, Option
<1> QED BY <1>1 DEF End, TypeOK, FileInv, Option

\* Every step keeps the types and what the file can be.
LEMMA NextKeeps ==
    ASSUME TypeOK, FileInv, [Next]_vars
    PROVE  TypeOK' /\ FileInv'
<1>1. CASE UNCHANGED vars
  BY <1>1 DEF vars, TypeOK, FileInv
<1> QED BY <1>1, LoadFile, EndKeeps, OpenKeeps, WriteKeeps, ClearKeeps DEF Next

\* The two invariants hold throughout.
LEMMA Kept == Spec => [](TypeOK /\ FileInv)
<1>1. Init => TypeOK /\ FileInv
  BY InitFile
<1>2. (TypeOK /\ FileInv) /\ [Next]_vars => (TypeOK /\ FileInv)'
  BY NextKeeps
<1> QED BY <1>1, <1>2, PTL DEF Spec

\* Whatever two threads, a full disk and the end of the process do to the path,
\* and whatever version left it, the bytes decode to a state, to nothing or to
\* none, never to a value no state has.
THEOREM TypeCorrect == Spec => []TypeOK
<1>1. Spec => [](TypeOK /\ FileInv)
  BY Kept
<1> QED BY <1>1, PTL

\* A save that returned Ok is what the next process loads, for every state, also
\* where the other thread has left a longer one behind it.
THEOREM SavedLoads == Spec => SavedIsLoaded
<1>1. ASSUME TypeOK, FileInv, NEW t \in Threads, Write(t), fd[t] = "open"
      PROVE  cell' = image[t]
  <2>1. PICK n, b :
           /\ n \in 0..Len(Encode(image[t]))
           /\ b = IF fd[t] = "open" THEN Overlay(SubSeq(Encode(image[t]), 1, n)) ELSE bytes
           /\ Leaves(b) /\ fd[t] # "closed" /\ n = Len(Encode(image[t]))
    BY <1>1, WriteStep
  <2>2. Contents(b) = image[t]
    BY <1>1, <2>1, WriteLeaves
  <2> QED BY <2>1, <2>2 DEF Leaves
<1>2. TypeOK /\ FileInv /\ [Next]_vars =>
         [\A t \in Threads : Write(t) /\ fd[t] = "open" => cell' = image[t]]_vars
  BY <1>1
<1>3. Spec => [](TypeOK /\ FileInv)
  BY Kept
<1> QED BY <1>2, <1>3, PTL DEF Spec, SavedIsLoaded

\* The first process of this version loads what the last one of an older
\* version still owed, whichever of them wrote the file and whatever it said.
THEOREM OlderVersionsLoad == Spec => ReadsOlderVersions
<1>1. ASSUME TypeOK, FileInv, [Next]_vars, alive', ~alive, meant \notin {Nothing, NothingSaved}
      PROVE  loaded' = meant
  <2>1. Load
    BY <1>1 DEF Next, End, Open, Write, WriteFails, Clear, vars, TypeOK
  <2>2. cell = meant /\ bytes # Nothing /\ meant \in SavedState
    BY <1>1 DEF FileInv, TypeOK, Option
  <2> QED BY <2>1, <2>2, Distinct DEF Load
<1>2. TypeOK /\ FileInv /\ [Next]_vars =>
         [alive' /\ ~alive /\ meant \notin {Nothing, NothingSaved} => loaded' = meant]_vars
  BY <1>1
<1>3. Spec => [](TypeOK /\ FileInv)
  BY Kept
<1> QED BY <1>2, <1>3, PTL DEF Spec, ReadsOlderVersions

-----------------------------------------------------------------------------
(* The cell. *)

\* A thread has something to write exactly while it has a file open, and
\* nothing worth writing exactly while that file has no name.
PendingFits ==
    /\ Pending = [t \in Threads |-> Pending[t]]
    /\ \A t \in Threads : /\ Pending[t] = Nothing <=> fd[t] = "closed"
                          /\ fd[t] = "open" => Pending[t] = image[t]
                          /\ Pending[t] = NothingSaved <=> fd[t] = "orphan"

\* That is so before and after every step.
LEMMA PendingIs ==
    (TypeOK => PendingFits) /\ (TypeOK' => PendingFits')
<1> DEFINE About(f, i, t) == CASE f[t] = "closed" -> Nothing
                               [] f[t] = "open"   -> i[t]
                               [] f[t] = "orphan" -> NothingSaved
<1>1. NothingSaved # Nothing /\ \A s \in SavedState : s # Nothing
  <2>1. NothingSaved \in SavedState
    BY DEF NothingSaved, SavedState, Option
  <2> QED BY <2>1, Distinct
<1>2. ASSUME NEW f, NEW i, NEW t,
             f[t] \in {"closed", "open", "orphan"}, i[t] \in SavedState,
             f[t] = "closed" <=> i[t] = NothingSaved
      PROVE  /\ About(f, i, t) = Nothing <=> f[t] = "closed"
             /\ f[t] = "open" => About(f, i, t) = i[t]
             /\ About(f, i, t) = NothingSaved <=> f[t] = "orphan"
  BY <1>1, <1>2
<1>3. ASSUME TypeOK PROVE PendingFits
  <2>1. /\ Pending = [t \in Threads |-> Pending[t]]
        /\ \A t \in Threads : Pending[t] = About(fd, image, t)
    <3>1. Pending = [t \in Threads |-> About(fd, image, t)]
      BY DEF Pending
    <3> HIDE DEF About
    <3> QED BY <3>1
  <2>2. \A t \in Threads : /\ fd[t] \in {"closed", "open", "orphan"} /\ image[t] \in SavedState
                           /\ fd[t] = "closed" <=> image[t] = NothingSaved
    BY <1>3 DEF TypeOK
  <2> HIDE DEF About
  <2> QED BY <1>2, <2>1, <2>2 DEF PendingFits
<1>4. ASSUME TypeOK' PROVE PendingFits'
  <2>1. /\ Pending' = [t \in Threads |-> Pending'[t]]
        /\ \A t \in Threads : Pending'[t] = About(fd', image', t)
    <3>1. Pending' = [t \in Threads |-> About(fd', image', t)]
      BY DEF Pending
    <3> HIDE DEF About
    <3> QED BY <3>1
  <2>2. \A t \in Threads : /\ fd'[t] \in {"closed", "open", "orphan"} /\ image'[t] \in SavedState
                           /\ fd'[t] = "closed" <=> image'[t] = NothingSaved
    BY <1>4 DEF TypeOK
  <2> HIDE DEF About
  <2> QED BY <1>2, <2>1, <2>2 DEF PendingFits
<1> QED BY <1>3, <1>4

\* What one thread's step makes of what is pending.
LEMMA PendingSteps ==
    ASSUME TypeOK, TypeOK', NEW t \in Threads,
           \A u \in Threads \ {t} : fd'[u] = fd[u] /\ image'[u] = image[u]
    PROVE  Pending' = [Pending EXCEPT ![t] = Pending'[t]]
<1>1. Pending = [u \in Threads |-> Pending[u]] /\ Pending' = [u \in Threads |-> Pending'[u]]
  BY PendingIs DEF PendingFits
<1>2. \A u \in Threads \ {t} : Pending'[u] = Pending[u]
  <2> SUFFICES ASSUME NEW u \in Threads \ {t} PROVE Pending'[u] = Pending[u]
    OBVIOUS
  <2>1. fd[u] \in {"closed", "open", "orphan"}
    BY DEF TypeOK
  <2> QED BY <2>1, PendingIs DEF PendingFits
<1> QED BY <1>1, <1>2

\* The open of save empties the cell.
LEMMA OpenTruncates ==
    ASSUME TypeOK, FileInv, TypeOK', NEW t \in Threads, Open(t)
    PROVE  Cell!Truncate(t)
<1>1. PICK state \in SavedState \ {NothingSaved} : image' = [image EXCEPT ![t] = state]
  BY DEF Open
<1>2. fd[t] = "closed" /\ fd' = [fd EXCEPT ![t] = "open"]
  BY DEF Open
<1>3. fd'[t] = "open" /\ image'[t] = state
  BY <1>1, <1>2 DEF TypeOK
<1>4. Pending[t] = Nothing /\ Pending'[t] = state
  BY <1>2, <1>3, PendingIs DEF PendingFits
<1>5. Pending' = [Pending EXCEPT ![t] = Pending'[t]]
  BY <1>1, <1>2, PendingSteps DEF TypeOK
<1>6. cell' = Torn
  <2> DEFINE none == << >>
  <2>1. none \in Seq(Tokens)
    OBVIOUS
  <2>2. none # Nothing
    BY <2>1, FileAssumption
  <2>3. Contents(none) = Torn
    BY <2>2 DEF Contents, Decode
  <2> QED BY <2>3 DEF Open, Leaves
<1> QED BY <1>4, <1>5, <1>6 DEF Cell!Truncate

\* clear takes what the threads have open out of the cell.
LEMMA ClearClears ==
    ASSUME TypeOK, FileInv, TypeOK', NEW t \in Threads, Clear(t)
    PROVE  Cell!Clear(t)
<1>1. fd[t] = "closed" /\ Leaves(Nothing)
      /\ fd' = [u \in Threads |-> IF fd[u] = "open" THEN "orphan" ELSE fd[u]]
  BY DEF Clear
<1>2. cell' = NothingSaved
  BY <1>1 DEF Leaves, Contents
<1>3. Pending[t] = Nothing
  BY <1>1, PendingIs DEF PendingFits
<1>4. \A u \in Threads : Pending'[u] = IF Pending[u] = Nothing THEN Nothing ELSE NothingSaved
  <2> SUFFICES ASSUME NEW u \in Threads
               PROVE  Pending'[u] = IF Pending[u] = Nothing THEN Nothing ELSE NothingSaved
    OBVIOUS
  <2>1. fd[u] \in {"closed", "open", "orphan"}
    BY DEF TypeOK
  <2>2. fd'[u] = IF fd[u] = "closed" THEN "closed" ELSE "orphan"
    BY <1>1, <2>1
  <2> QED BY <2>2, PendingIs DEF PendingFits
<1>5. Pending' = [u \in Threads |-> IF Pending[u] = Nothing THEN Nothing ELSE NothingSaved]
  <2>1. Pending' = [u \in Threads |-> Pending'[u]]
    BY PendingIs DEF PendingFits
  <2> QED BY <1>4, <2>1
<1> QED BY <1>2, <1>3, <1>5 DEF Cell!Clear

\* A write fills the cell, or spoils it.
LEMMA WriteFills ==
    ASSUME TypeOK, FileInv, TypeOK', NEW t \in Threads, Write(t) \/ WriteFails(t)
    PROVE  Cell!Write(t) \/ Cell!WriteFails(t)
<1>1. PICK n, b :
         /\ n \in 0..Len(Encode(image[t]))
         /\ b = IF fd[t] = "open" THEN Overlay(SubSeq(Encode(image[t]), 1, n)) ELSE bytes
         /\ Leaves(b)
         /\ fd[t] # "closed" /\ Closed(t)
         /\ Write(t) => n = Len(Encode(image[t]))
         /\ ~Write(t) => "disk" \in Faults /\ n < Len(Encode(image[t]))
  BY WriteStep
<1>2. /\ b = Nothing \/ Current(b)
      /\ fd[t] # "open" => b = bytes
      /\ fd[t] = "open" /\ n = Len(Encode(image[t])) => Contents(b) = image[t]
      /\ fd[t] = "open" /\ n < Len(Encode(image[t])) =>
            /\ bytes = << >> => Contents(b) \in {Torn, Garbled}
            /\ bytes # << >> => b # << >>
  BY <1>1, WriteLeaves
<1>3. cell = Contents(bytes) /\ cell' = Contents(b) /\ (bytes = Nothing \/ Current(bytes))
  BY <1>1, OpenFile DEF FileInv, Leaves
<1>4. fd[t] \in {"closed", "open", "orphan"} /\ fd'[t] = "closed"
  BY <1>1 DEF Closed, TypeOK
<1>5. /\ Pending[t] # Nothing /\ Pending'[t] = Nothing
      /\ fd[t] = "open" => Pending[t] = image[t] /\ Pending[t] # NothingSaved
      /\ fd[t] # "open" => Pending[t] = NothingSaved
  BY <1>1, <1>4, PendingIs DEF PendingFits
<1>6. Pending' = [Pending EXCEPT ![t] = Nothing]
  <2>1. \A u \in Threads \ {t} : fd'[u] = fd[u] /\ image'[u] = image[u]
    BY <1>1 DEF Closed, TypeOK
  <2> QED BY <1>5, <2>1, PendingSteps
<1>7. CASE fd[t] # "open"
  <2>1. cell' = cell /\ Pending[t] = NothingSaved
    BY <1>2, <1>3, <1>5, <1>7
  <2> QED BY <1>5, <1>6, <2>1 DEF Cell!Write
<1>8. CASE fd[t] = "open" /\ Write(t)
  <2>1. cell' = Pending[t] /\ Pending[t] # NothingSaved
    BY <1>1, <1>2, <1>3, <1>5, <1>8
  <2> QED BY <1>5, <1>6, <2>1 DEF Cell!Write
<1>9. CASE fd[t] = "open" /\ ~Write(t)
  <2>1. "disk" \in Faults /\ Pending[t] # NothingSaved
    BY <1>1, <1>5, <1>9
  <2>2. cell' \in {cell} \cup ({Garbled} \cup (IF cell = Torn THEN {} ELSE SavedState))
    <3>1. cell = Torn <=> bytes = << >>
      BY <1>3, ContentsTyped
    <3>2. cell' \in SavedState \cup {Torn, Garbled} /\ (cell' = Torn <=> b = << >>)
      BY <1>2, <1>3, ContentsTyped
    <3> QED BY <1>1, <1>2, <1>3, <1>9, <3>1, <3>2
  <2> QED BY <1>5, <1>6, <2>1, <2>2 DEF Cell!WriteFails, Cell!Spoilt
<1> QED BY <1>7, <1>8, <1>9

\* Every step on the path is one of the cell, or changes nothing of it.
LEMMA CellStep ==
    ASSUME TypeOK, FileInv, [Next]_vars
    PROVE  [Cell!Next]_<< cell, Pending >>
<1>1. TypeOK'
  BY NextKeeps
<1>2. CASE Load
  BY <1>2 DEF Load, Pending
<1>3. CASE End
  <2>1. Pending' = [t \in Threads |-> Nothing]
    <3>1. \A t \in Threads : fd'[t] = "closed"
      BY <1>3 DEF End
    <3> QED BY <1>1, <3>1, PendingIs DEF PendingFits
  <2> QED BY <1>3, <2>1 DEF End, Cell!Next, Cell!End
<1>4. CASE \E t \in Threads : Open(t) \/ Write(t) \/ WriteFails(t) \/ Clear(t)
  BY <1>1, <1>4, OpenTruncates, WriteFills, ClearClears DEF Cell!Next
<1>5. CASE UNCHANGED vars
  BY <1>5 DEF vars, Pending
<1> QED BY <1>2, <1>3, <1>4, <1>5 DEF Next

\* The encoding, the open file descriptions and the one path implement the cell
\* the daemon relies on, for all brightness levels and displays.
THEOREM FileIsACell == Spec => ImplementsCell
<1>1. Init => Cell!Init
  <2>1. ASSUME Init PROVE Cell!Init
    <3>1. TypeOK /\ \A t \in Threads : fd[t] = "closed"
      BY <2>1, InitFile DEF Init
    <3>2. Pending = [t \in Threads |-> Nothing]
      BY <3>1, PendingIs DEF PendingFits
    <3> QED BY <3>1, <3>2 DEF Cell!Init, TypeOK
  <2> QED BY <2>1
<1>2. TypeOK /\ FileInv /\ [Next]_vars => [Cell!Next]_<< cell, Pending >>
  BY CellStep
<1>3. Spec => [](TypeOK /\ FileInv)
  BY Kept
<1>4. ImplementsCell <=> Cell!Init /\ [][Cell!Next]_<< cell, Pending >>
  BY DEF ImplementsCell, Cell!Spec
<1> QED BY <1>1, <1>2, <1>3, <1>4, PTL DEF Spec
=============================================================================
