---------------------------- MODULE Gloss_proofs ----------------------------
(***************************************************************************)
(* Theorems about the system calls.                                        *)
(*                                                                         *)
(* First LineBuffer, for every choice of the characters and of the sizes   *)
(* that SizeAssumption admits: the program's 255, 256 and 255 among them.  *)
(* InBounds and NothingLost rest on ShortLines: simprint reads a line to   *)
(* its end only because no line handed to it is longer than LineLimit.     *)
(*                                                                         *)
(* Then the heap of Gloss, for every layout that springbok.ld can produce  *)
(* and every request.  BlocksApart is inductive once the pointer is known  *)
(* to lie between the last block and the end of the heap.                  *)
(***************************************************************************)
EXTENDS Gloss, SequenceTheorems, WellFoundedInduction, TLAPS

-----------------------------------------------------------------------------
(* Lines                                                                   *)

ShortLines == \A s \in Streams : Len(buffer[s]) < LineLimit

Inv == TypeOK /\ ShortLines

SevenBit == 0..127

-----------------------------------------------------------------------------
(* Lemmas on what simprint reads.                                          *)

\* A set of natural numbers that is not empty has a least element.
LEMMA LeastNumber ==
  ASSUME NEW T \in SUBSET Nat, T # {}
  PROVE  \E m \in T : \A n \in T : ~ (n < m)
<1>1. PICK m \in T : \A n \in T : ~ (<<n, m>> \in OpToRel(<, Nat))
  BY NatLessThanWellFounded, WFMin
<1> QED
  BY <1>1 DEF OpToRel

\* The choice in Visible is never empty: the handler stops at the first byte
\* it takes for a zero, at its limit or at the end, whichever is first.
LEMMA VisibleProperties ==
  ASSUME NEW line \in Seq(Characters)
  PROVE  /\ Visible(line) \in 0..Len(line)
         /\ Visible(line) <= SimprintLimit
         /\ \A i \in 1..Visible(line) : line[i] % 128 # 0
         /\ Visible(line) \in {Len(line), SimprintLimit} \/ line[Visible(line) + 1] % 128 = 0
<1> DEFINE T == {n \in 0..Len(line) : n \in {Len(line), SimprintLimit} \/ line[n + 1] % 128 = 0}
<1>1. Len(line) \in Nat /\ SimprintLimit \in Nat
  BY SizeAssumption
<1>2. T \in SUBSET Nat /\ Len(line) \in T
  BY <1>1
<1>3. PICK m \in T : \A n \in T : ~ (n < m)
  BY <1>2, LeastNumber
<1>4. m <= SimprintLimit
  <2>1. ASSUME SimprintLimit < m PROVE SimprintLimit \in T
    BY <1>1, <2>1
  <2>2. m \in Nat
    BY <1>2
  <2> HIDE DEF T
  <2> QED
    BY <1>1, <1>3, <2>1, <2>2
<1>5. ASSUME NEW i \in 1..m PROVE line[i] % 128 # 0
  <2>1. i - 1 \in 0..Len(line) /\ i - 1 < m /\ (i - 1) + 1 = i
    BY <1>1
  <2>2. i - 1 \notin T
    BY <1>3, <2>1
  <2> QED
    BY <2>1, <2>2
<1>6. /\ m \in 0..Len(line) /\ m <= SimprintLimit
      /\ \A i \in 1..m : line[i] % 128 # 0
      /\ m \in {Len(line), SimprintLimit} \/ line[m + 1] % 128 = 0
  BY <1>3, <1>4, <1>5
<1> QED
  BY <1>6 DEF Visible

\* A function on 1..n is a sequence.
LEMMA FunctionIsSeq ==
  ASSUME NEW S, NEW n \in Nat, NEW f \in [1..n -> S]
  PROVE  f \in Seq(S)
  BY SeqDef

\* Masking keeps the length of a line and leaves seven-bit codes.
LEMMA MaskedType ==
  ASSUME NEW line \in Seq(Characters)
  PROVE  /\ Masked(line) \in Seq(SevenBit)
         /\ Len(Masked(line)) = Len(line)
         /\ \A i \in 1..Len(line) : Masked(line)[i] = line[i] % 128
<1>1. \A c \in Characters : c % 128 \in SevenBit
  <2>1. \A c \in 0..255 : c % 128 \in SevenBit
    BY DEF SevenBit
  <2> QED
    BY <2>1, CharacterAssumption
<1>2. Len(line) \in Nat /\ \A i \in 1..Len(line) : line[i] \in Characters
  OBVIOUS
<1>3. Masked(line) \in [1..Len(line) -> SevenBit]
  BY <1>1, <1>2 DEF Masked
<1>4. Masked(line) \in Seq(SevenBit)
  BY <1>2, <1>3, FunctionIsSeq
<1>5. Len(Masked(line)) = Len(line)
  BY <1>2, <1>3, <1>4, LenProperties
<1>6. \A i \in 1..Len(line) : Masked(line)[i] = line[i] % 128
  BY DEF Masked
<1> QED
  BY <1>4, <1>5, <1>6

\* Simprint prints seven-bit characters other than NUL.
LEMMA SimprintedType ==
  ASSUME NEW line \in Seq(Characters)
  PROVE  Simprinted(line) \in Seq(1..127)
<1> DEFINE n == Visible(line)
           part == SubSeq(line, 1, n)
<1>1. n \in 0..Len(line) /\ \A i \in 1..n : line[i] % 128 # 0
  BY VisibleProperties
<1>2. part \in Seq(Characters) /\ Len(part) = n /\ \A i \in 1..n : part[i] = line[i]
  BY <1>1
<1>3. Simprinted(line) = Masked(part)
  BY DEF Simprinted
<1> HIDE DEF n, part
<1>4. /\ Masked(part) \in Seq(SevenBit) /\ Len(Masked(part)) = n
      /\ \A i \in 1..n : Masked(part)[i] = part[i] % 128
  BY <1>2, MaskedType
<1>5. \A i \in 1..n : Masked(part)[i] \in 1..127
  <2> SUFFICES ASSUME NEW i \in 1..n PROVE Masked(part)[i] \in 1..127
    OBVIOUS
  <2>1. Masked(part)[i] # 0
    BY <1>1, <1>2, <1>4
  <2>2. Masked(part)[i] \in SevenBit
    BY <1>4, ElementOfSeq
  <2> QED
    BY <2>1, <2>2 DEF SevenBit
<1>6. n \in Nat /\ Masked(part) \in [1..n -> 1..127]
  BY <1>1, <1>4, <1>5
<1> QED
  BY <1>3, <1>6, FunctionIsSeq

\* A line of at most SimprintLimit characters, none of them truncating, is
\* printed whole.
LEMMA PrintedWhole ==
  ASSUME NEW line \in Seq(Characters), Len(line) <= SimprintLimit,
         \A i \in 1..Len(line) : line[i] \notin Truncating
  PROVE  Simprinted(line) = Masked(line)
<1>1. Visible(line) = Len(line)
  <2>1. ASSUME Visible(line) < Len(line) PROVE FALSE
    <3>1. Visible(line) + 1 \in 1..Len(line)
      BY <2>1, VisibleProperties
    <3>2. line[Visible(line) + 1] \in Characters
      BY <3>1
    <3>3. line[Visible(line) + 1] % 128 # 0
      BY <3>1, <3>2 DEF Truncating
    <3> QED
      BY <2>1, <3>3, VisibleProperties, SizeAssumption
  <2> QED
    BY <2>1, VisibleProperties
<1> QED
  BY <1>1, SubSeqFull DEF Simprinted

\* Masking is per character.
LEMMA MaskedConcat ==
  ASSUME NEW s \in Seq(Characters), NEW t \in Seq(Characters)
  PROVE  Masked(s \o t) = Masked(s) \o Masked(t)
<1>1. s \o t \in Seq(Characters) /\ Len(s \o t) = Len(s) + Len(t)
  OBVIOUS
<1>2. /\ Masked(s \o t) \in Seq(SevenBit) /\ Len(Masked(s \o t)) = Len(s) + Len(t)
      /\ \A i \in 1..(Len(s) + Len(t)) : Masked(s \o t)[i] = (s \o t)[i] % 128
  BY <1>1, MaskedType
<1>3. /\ Masked(s) \in Seq(SevenBit) /\ Len(Masked(s)) = Len(s)
      /\ Masked(t) \in Seq(SevenBit) /\ Len(Masked(t)) = Len(t)
      /\ \A i \in 1..Len(s) : Masked(s)[i] = s[i] % 128
      /\ \A i \in 1..Len(t) : Masked(t)[i] = t[i] % 128
  BY MaskedType
<1>4. Masked(s) \o Masked(t) \in Seq(SevenBit) /\ Len(Masked(s) \o Masked(t)) = Len(s) + Len(t)
  <2>1. /\ Masked(s) \o Masked(t) \in Seq(SevenBit)
        /\ Len(Masked(s) \o Masked(t)) = Len(Masked(s)) + Len(Masked(t))
    BY <1>3, ConcatProperties, Zenon
  <2> QED
    BY <1>3, <2>1
<1>5. ASSUME NEW i \in 1..(Len(s) + Len(t))
      PROVE  Masked(s \o t)[i] = (Masked(s) \o Masked(t))[i]
  <2>1. Masked(s \o t)[i] = (s \o t)[i] % 128
    BY <1>2
  <2>2. CASE i <= Len(s)
    BY <1>3, <2>1, <2>2
  <2>3. CASE ~ (i <= Len(s))
    <3>1. i - Len(s) \in 1..Len(t)
      BY <2>3
    <3>2. (Masked(s) \o Masked(t))[i] = Masked(t)[i - Len(s)]
      BY <1>3, <2>3, ConcatProperties
    <3>3. (s \o t)[i] = t[i - Len(s)]
      BY <2>3, <3>1, ConcatProperties
    <3> QED
      BY <1>3, <2>1, <3>1, <3>2, <3>3
  <2> QED
    BY <2>2, <2>3
<1> QED
  BY <1>2, <1>4, <1>5, SeqEqual

-----------------------------------------------------------------------------
(* The inductive invariant.                                                *)

\* Flushing a stream's line leaves the printed text and the buffer well typed.
LEMMA FlushType ==
  ASSUME TypeOK, file \in Streams, NEW line \in Seq(Characters), Flush(line)
  PROVE  /\ printed' \in [Streams -> Seq(1..127)]
         /\ buffer' \in [Streams -> Seq(Characters)]
         /\ \A s \in Streams : buffer'[s] = IF s = file THEN <<>> ELSE buffer[s]
<1>1. Simprinted(line) \in Seq(1..127)
  BY SimprintedType
<1>2. printed[file] \o Simprinted(line) \in Seq(1..127)
  BY <1>1, ConcatProperties DEF TypeOK
<1> QED
  BY <1>2 DEF Flush, TypeOK

\* Every step preserves the types and keeps every line below the limit.
LEMMA NextInv == Inv /\ [Next]_vars => Inv'
<1> SUFFICES ASSUME Inv, [Next]_vars PROVE Inv'
  OBVIOUS
<1> USE SizeAssumption, BoundAssumption DEF Inv, TypeOK, ShortLines
<1>1. ASSUME NEW fd \in Files, NEW isNull \in BOOLEAN, NEW length \in {-1, 0, 1},
             Refuse(fd, isNull, length)
      PROVE  Inv'
  BY <1>1 DEF Refuse
<1>2. ASSUME NEW fd \in Files, NEW length \in 1..MaxWritten, Accept(fd, length)
      PROVE  Inv'
  BY <1>2 DEF Accept, Streams
<1>3. CASE EndLine
  <2>1. file \in Streams /\ buffer[file] \in Seq(Characters)
    BY <1>3 DEF EndLine
  <2>2. /\ printed' \in [Streams -> Seq(1..127)]
        /\ buffer' \in [Streams -> Seq(Characters)]
        /\ \A s \in Streams : buffer'[s] = IF s = file THEN <<>> ELSE buffer[s]
    BY <1>3, <2>1, FlushType DEF EndLine
  <2> QED
    BY <1>3, <2>2 DEF EndLine
<1>4. ASSUME NEW c \in Characters, StoreCharacter(c) PROVE Inv'
  <2> DEFINE line == Append(buffer[file], c)
  <2>1. file \in Streams /\ buffer[file] \in Seq(Characters) /\ line \in Seq(Characters)
        /\ Len(line) = Len(buffer[file]) + 1
    BY <1>4 DEF StoreCharacter
  <2>2. written' \in [Streams -> Seq(Characters)] /\ bytesRead' \in 0..nbytes'
    BY <1>4, <2>1 DEF StoreCharacter
  <2>3. CASE Len(line) = LineLimit
    <3>1. Flush(line)
      BY <1>4, <2>3 DEF StoreCharacter
    <3>2. /\ printed' \in [Streams -> Seq(1..127)]
          /\ buffer' \in [Streams -> Seq(Characters)]
          /\ \A s \in Streams : buffer'[s] = IF s = file THEN <<>> ELSE buffer[s]
      BY <2>1, <3>1, FlushType
    <3> QED
      BY <1>4, <2>2, <3>2 DEF StoreCharacter
  <2>4. CASE Len(line) # LineLimit
    <3>1. buffer' = [buffer EXCEPT ![file] = line] /\ UNCHANGED printed
      BY <1>4, <2>4 DEF StoreCharacter
    <3>2. Len(line) < LineLimit
      BY <2>1, <2>4
    <3> QED
      BY <1>4, <2>1, <2>2, <3>1, <3>2 DEF StoreCharacter
  <2> QED
    BY <2>3, <2>4
<1>5. CASE Return
  BY <1>5 DEF Return
<1>6. CASE Restart
  BY <1>6 DEF Restart, AbandonCall
<1>7. CASE RestartAfterPrint
  <2>0. file \in Streams
    BY <1>7 DEF RestartAfterPrint
  <2>1. /\ FlushedLines \subseteq Seq(Characters)
        /\ nbytes' = 0 /\ bytesRead' = 0 /\ file' = "none"
        /\ repeated' \subseteq Streams
    <3>1. buffer[file] \in Seq(Characters)
      BY <2>0
    <3>2. \A c \in Characters : Append(buffer[file], c) \in Seq(Characters)
      BY <3>1
    <3>3. FlushedLines \subseteq Seq(Characters)
      BY <3>1, <3>2, Zenon DEF FlushedLines
    <3> QED
      BY <1>7, <2>0, <3>3 DEF RestartAfterPrint, AbandonCall
  <2>2. PICK line \in FlushedLines :
          printed' = [printed EXCEPT ![file] = @ \o Simprinted(line)]
    BY <1>7 DEF RestartAfterPrint
  <2>3. printed[file] \o Simprinted(line) \in Seq(1..127)
    BY <2>0, <2>1, SimprintedType, ConcatProperties
  <2>4. printed' \in [Streams -> Seq(1..127)]
    BY <2>2, <2>3
  <2> QED
    BY <1>7, <2>1, <2>4 DEF RestartAfterPrint
<1>8. CASE Reload
  BY <1>8 DEF Reload, AbandonCall
<1>9. CASE UNCHANGED vars
  BY <1>9 DEF vars
<1> QED
  BY <1>1, <1>2, <1>3, <1>4, <1>5, <1>6, <1>7, <1>8, <1>9 DEF Next, Write

\* No line has begun at first.
LEMMA InitInv == Init => Inv
  BY SizeAssumption DEF Init, Inv, TypeOK, ShortLines

\* The types hold, and every line is below the limit, in every state.
THEOREM Invariance == Spec => []Inv
  BY InitInv, NextInv, PTL DEF Spec

\* Type correctness: among others, no NUL ever reaches the log.
THEOREM TypeCorrect == Spec => []TypeOK
<1>1. Inv => TypeOK
  BY DEF Inv
<1> QED
  BY <1>1, Invariance, PTL

\* No byte of _write is ever stored outside its stream's buffer.
THEOREM StaysInBounds == Spec => []InBounds
<1>1. Inv => InBounds
  BY SizeAssumption DEF Inv, TypeOK, ShortLines, InBounds
<1> QED
  BY <1>1, Invariance, PTL

-----------------------------------------------------------------------------
(* Nothing is lost.                                                        *)

Clean(line) == \A i \in 1..Len(line) : line[i] \notin Truncating

\* What a stream owes its reader, as one equation between sequences.
Kept(log, line, all) == Clean(all) => log \o Masked(line) = Masked(all)

\* A character of the buffer that truncates was written: the buffer is clean
\* whenever all that was written is.
LEMMA CleanBuffer ==
  ASSUME NEW log \in Seq(1..127), NEW line \in Seq(Characters), NEW all \in Seq(Characters),
         Clean(all), log \o Masked(line) = Masked(all)
  PROVE  Clean(line)
<1> SUFFICES ASSUME NEW i \in 1..Len(line) PROVE line[i] % 128 # 0
  BY DEF Clean, Truncating
<1>1. /\ Masked(line) \in Seq(SevenBit) /\ Len(Masked(line)) = Len(line)
      /\ Masked(line)[i] = line[i] % 128
      /\ Len(Masked(all)) = Len(all)
      /\ \A j \in 1..Len(all) : Masked(all)[j] = all[j] % 128
  BY MaskedType
<1>2. log \in Seq(SevenBit)
  BY SeqMonotonic DEF SevenBit
<1>3. /\ Len(log \o Masked(line)) = Len(log) + Len(line)
      /\ (log \o Masked(line))[Len(log) + i] = Masked(line)[i]
  <2>1. /\ Len(log \o Masked(line)) = Len(log) + Len(Masked(line))
        /\ \A j \in 1..Len(log) + Len(Masked(line)) : (log \o Masked(line))[j] =
              IF j <= Len(log) THEN log[j] ELSE Masked(line)[j - Len(log)]
    BY <1>1, <1>2, ConcatProperties
  <2>2. Len(log) \in Nat /\ Len(line) \in Nat
    OBVIOUS
  <2>3. /\ Len(log) + i \in 1..Len(log) + Len(Masked(line))
        /\ ~ (Len(log) + i <= Len(log)) /\ (Len(log) + i) - Len(log) = i
    BY <1>1, <2>2
  <2> QED
    BY <1>1, <2>1, <2>3
<1>4. Len(log) + i \in 1..Len(all)
  BY <1>1, <1>3
<1>5. all[Len(log) + i] \in Characters /\ all[Len(log) + i] \notin Truncating
  BY <1>4 DEF Clean
<1> QED
  BY <1>1, <1>3, <1>4, <1>5 DEF Truncating

\* Appending a character to the line and to all that was written keeps the
\* equation, whether the line stays in the buffer or is flushed.
LEMMA StoreKeeps ==
  ASSUME NEW log \in Seq(1..127), NEW line \in Seq(Characters), NEW all \in Seq(Characters),
         NEW c \in Characters, Kept(log, line, all)
  PROVE  Kept(log, Append(line, c), Append(all, c))
<1> SUFFICES ASSUME Clean(Append(all, c))
             PROVE  log \o Masked(Append(line, c)) = Masked(Append(all, c))
  BY DEF Kept
<1>1. Clean(all)
  BY DEF Clean
<1>2. log \o Masked(line) = Masked(all)
  BY <1>1 DEF Kept
<1>3. <<c>> \in Seq(Characters) /\ Append(line, c) = line \o <<c>> /\ Append(all, c) = all \o <<c>>
  BY AppendIsConcat
<1>4. /\ Masked(line \o <<c>>) = Masked(line) \o Masked(<<c>>)
      /\ Masked(all \o <<c>>) = Masked(all) \o Masked(<<c>>)
  BY <1>3, MaskedConcat
<1>5. Masked(line) \in Seq(SevenBit) /\ Masked(<<c>>) \in Seq(SevenBit) /\ log \in Seq(SevenBit)
  <2>1. log \in Seq(SevenBit)
    BY SeqMonotonic DEF SevenBit
  <2> QED
    BY <1>3, <2>1, MaskedType
<1>6. log \o (Masked(line) \o Masked(<<c>>)) = (log \o Masked(line)) \o Masked(<<c>>)
  <2>1. \A p, q, r \in Seq(SevenBit) : (p \o q) \o r = p \o (q \o r)
    BY ConcatAssociative
  <2> QED
    BY <1>5, <2>1, Zenon
<1> QED
  BY <1>2, <1>3, <1>4, <1>6

\* A line that simprint is handed moves from the buffer to the log whole.
LEMMA FlushKeeps ==
  ASSUME NEW log \in Seq(1..127), NEW line \in Seq(Characters), NEW all \in Seq(Characters),
         Len(line) <= SimprintLimit, Kept(log, line, all)
  PROVE  Kept(log \o Simprinted(line), <<>>, all)
<1> SUFFICES ASSUME Clean(all)
             PROVE  (log \o Simprinted(line)) \o Masked(<<>>) = Masked(all)
  BY DEF Kept
<1>1. log \o Masked(line) = Masked(all)
  BY DEF Kept
<1>2. Simprinted(line) = Masked(line)
  BY <1>1, CleanBuffer, PrintedWhole DEF Clean
<1>3. Masked(<<>>) = <<>>
  <2>1. <<>> \in Seq(Characters)
    OBVIOUS
  <2>2. Masked(<<>>) \in Seq(SevenBit) /\ Len(Masked(<<>>)) = 0
    BY <2>1, MaskedType
  <2> QED
    BY <2>2, EmptySeq
<1>4. Masked(all) \in Seq(SevenBit)
  BY MaskedType
<1> QED
  BY <1>1, <1>2, <1>3, <1>4, ConcatEmptySeq

\* The equation, stream by stream, is what the property says.
LEMMA KeptIsNothingLost ==
  NothingLost <=> \A s \in Streams \ repeated : Kept(printed[s], buffer[s], written[s])
  BY DEF NothingLost, Kept, Clean

\* No line is empty before anything is printed.
LEMMA EmptyKept == Kept(<<>>, <<>>, <<>>)
<1>1. Masked(<<>>) = <<>>
  BY EmptySeq, MaskedType
<1>2. <<>> \o <<>> = <<>>
  OBVIOUS
<1> QED
  BY <1>1, <1>2 DEF Kept

\* Every step keeps the equation of every stream that no restart has caught
\* between simprint and the new length.
LEMMA NextKeeps ==
  ASSUME Inv, [Next]_vars, NEW s \in Streams, s \notin repeated',
         s \notin repeated => Kept(printed[s], buffer[s], written[s])
  PROVE  Kept(printed'[s], buffer'[s], written'[s])
<1> DEFINE line(c) == Append(buffer[s], c)
<1>0. CASE Reload
  BY <1>0, EmptyKept DEF Reload
<1> SUFFICES ASSUME ~Reload PROVE Kept(printed'[s], buffer'[s], written'[s])
  BY <1>0
<1>1. /\ printed[s] \in Seq(1..127) /\ buffer[s] \in Seq(Characters)
      /\ written[s] \in Seq(Characters) /\ Len(buffer[s]) < LineLimit
      /\ Kept(printed[s], buffer[s], written[s])
  <2>1. repeated \subseteq repeated'
    BY DEF Next, Write, Refuse, Accept, EndLine, StoreCharacter, Return, Restart,
           RestartAfterPrint, vars
  <2> QED
    BY <2>1 DEF Inv, TypeOK, ShortLines
<1>2. CASE UNCHANGED <<buffer, printed, written>>
  BY <1>1, <1>2
<1>3. CASE EndLine
  <2>1. CASE s = file
    <3>1. /\ printed'[s] = printed[s] \o Simprinted(buffer[s])
          /\ buffer'[s] = <<>> /\ written'[s] = written[s]
      BY <1>3, <2>1 DEF EndLine, Flush, Inv, TypeOK
    <3>2. Len(buffer[s]) <= SimprintLimit
      BY <1>1, SizeAssumption
    <3> QED
      BY <1>1, <3>1, <3>2, FlushKeeps
  <2>2. CASE s # file
    BY <1>1, <1>3, <2>2 DEF EndLine, Flush, Inv, TypeOK
  <2> QED
    BY <2>1, <2>2
<1>4. ASSUME NEW c \in Characters, StoreCharacter(c)
      PROVE  Kept(printed'[s], buffer'[s], written'[s])
  <2>1. /\ line(c) \in Seq(Characters) /\ Len(line(c)) = Len(buffer[s]) + 1
        /\ Append(written[s], c) \in Seq(Characters)
        /\ Kept(printed[s], line(c), Append(written[s], c))
    BY <1>1, StoreKeeps
  <2>2. CASE s = file /\ Len(line(c)) = LineLimit
    <3>1. /\ printed'[s] = printed[s] \o Simprinted(line(c))
          /\ buffer'[s] = <<>> /\ written'[s] = Append(written[s], c)
      BY <1>4, <2>2 DEF StoreCharacter, Flush, Inv, TypeOK
    <3>2. Len(line(c)) <= SimprintLimit
      BY <2>2, SizeAssumption
    <3> QED
      BY <1>1, <2>1, <3>1, <3>2, FlushKeeps
  <2>3. CASE s = file /\ Len(line(c)) # LineLimit
    <3>1. /\ printed'[s] = printed[s] /\ buffer'[s] = line(c)
          /\ written'[s] = Append(written[s], c)
      BY <1>4, <2>3 DEF StoreCharacter, Inv, TypeOK
    <3> QED
      BY <2>1, <3>1
  <2>4. CASE s # file
    BY <1>1, <1>4, <2>4 DEF StoreCharacter, Flush, Inv, TypeOK
  <2> QED
    BY <2>2, <2>3, <2>4
<1>5. CASE \E fd \in Files, length \in 1..MaxWritten : Accept(fd, length)
  BY <1>2, <1>5 DEF Accept
<1>6. CASE \E fd \in Files, isNull \in BOOLEAN, length \in {-1, 0, 1} : Refuse(fd, isNull, length)
  BY <1>2, <1>6 DEF Refuse
<1>7. CASE Return
  BY <1>2, <1>7 DEF Return
<1>8. CASE Restart
  BY <1>2, <1>8 DEF Restart
<1>9. CASE RestartAfterPrint
  <2>1. s # file
    BY <1>9 DEF RestartAfterPrint
  <2> QED
    BY <1>1, <1>9, <2>1 DEF RestartAfterPrint, Inv, TypeOK
<1> QED
  BY <1>2, <1>3, <1>4, <1>5, <1>6, <1>7, <1>8, <1>9 DEF Next, Write, vars

\* A step that starts in a state where nothing is lost ends in one.
LEMMA StepLosesNothing == Inv /\ NothingLost /\ [Next]_vars => NothingLost'
<1> SUFFICES ASSUME Inv, NothingLost, [Next]_vars
             PROVE  \A s \in Streams \ repeated' : Kept(printed'[s], buffer'[s], written'[s])
  BY DEF NothingLost, Kept, Clean
<1> QED
  BY NextKeeps, KeptIsNothingLost

\* Nothing is lost before anything is written.
LEMMA InitLosesNothing == Init => NothingLost
  BY EmptyKept, KeptIsNothingLost DEF Init

\* Nothing that the program writes is lost between the program and the log,
\* as long as it writes no 0x80 and no restart repeats a line: for every size
\* of the buffers, and over any number of restarts.
THEOREM KeepsEveryCharacter == Spec => []NothingLost
  BY InitLosesNothing, StepLosesNothing, Invariance, PTL DEF Spec

-----------------------------------------------------------------------------
(* The heap                                                                *)

\* The pointer has passed every block and is still in the heap.
PointerBeyondBlocks ==
  /\ heapPtr \in SHeap..EHeap
  /\ \A i \in 1..Len(blocks) : blocks[i].base + blocks[i].size <= heapPtr

HeapInv == HeapTypeOK /\ BlocksApart /\ PointerBeyondBlocks

\* Rounding up moves an address by less than the alignment.
LEMMA AlignUpBounds ==
  ASSUME NEW a \in Int
  PROVE  AlignUp(a) \in a..(a + Alignment - 1)
<1>1. a % Alignment \in 0..(Alignment - 1)
  BY LayoutAssumption
<1> QED
  BY <1>1, LayoutAssumption DEF AlignUp

\* The heap lies behind .bss and below the stack, although the linker rounds
\* both its ends up.
LEMMA Layout ==
  /\ SHeap \in Int /\ EHeap \in Int /\ SStack \in Int
  /\ EndOfBss <= SHeap /\ SHeap <= EHeap /\ EHeap <= SStack
<1>1. EndOfBss \in Int /\ SStack - (Alignment - 1) \in Int /\ SStack \in Int
  BY LayoutAssumption DEF SStack
<1>2. SHeap \in EndOfBss..(EndOfBss + Alignment - 1)
  BY <1>1, AlignUpBounds DEF SHeap
<1>3. EHeap \in (SStack - (Alignment - 1))..((SStack - (Alignment - 1)) + Alignment - 1)
  BY <1>1, AlignUpBounds DEF EHeap
<1> QED
  BY <1>1, <1>2, <1>3, LayoutAssumption

\* A request that is not refused ends inside the heap: no overflow hides it.
LEMMA GrantedFits ==
  ASSUME heapPtr \in SHeap..EHeap, NEW request \in Requests, ~NoMemory(request)
  PROVE  /\ request \in Nat
         /\ PointerPlus(heapPtr, request) = heapPtr + request
         /\ heapPtr + request <= EHeap
<1>1. request \in Int /\ EHeap + request < AddressSpace
  BY RequestAssumption
<1>2. heapPtr + request < AddressSpace
  BY <1>1, Layout, LayoutAssumption
<1> QED
  BY <1>1, <1>2, Layout DEF NoMemory, PointerPlus

\* The empty heap of a program just loaded.
LEMMA LoadedHeap ==
  ASSUME heapPtr' = SHeap, blocks' = <<>>
  PROVE  HeapInv'
  BY Layout DEF HeapInv, HeapTypeOK, BlocksApart, PointerBeyondBlocks

\* A block handed out lies behind every earlier one and in the heap.
LEMMA GiveMemoryKeeps ==
  ASSUME HeapInv, NEW request \in Requests, GiveMemory(request)
  PROVE  HeapInv'
<1> DEFINE block == [base |-> heapPtr, size |-> request]
<1>1. /\ heapPtr \in Int /\ blocks \in Seq(Block) /\ heapPtr \in SHeap..EHeap
      /\ SHeap \in Int /\ EHeap \in Int
  BY Layout DEF HeapInv, HeapTypeOK, PointerBeyondBlocks
<1>2. /\ request \in Nat /\ heapPtr' = heapPtr + request
      /\ heapPtr + request <= EHeap
  BY <1>1, GrantedFits DEF GiveMemory
<1>3. block \in Block /\ blocks' = Append(blocks, block)
  BY <1>1, <1>2 DEF Block, GiveMemory
<1>4. /\ blocks' \in Seq(Block) /\ Len(blocks') = Len(blocks) + 1
      /\ \A i \in 1..Len(blocks) : blocks'[i] = blocks[i]
      /\ blocks'[Len(blocks) + 1] = block
  BY <1>1, <1>3, AppendProperties
<1>5. \A i \in 1..Len(blocks') :
        i \in 1..Len(blocks) \/ i = Len(blocks) + 1
  BY <1>1, <1>4
<1>6. \A i \in 1..Len(blocks) :
        /\ blocks[i].base \in Int /\ blocks[i].size \in Int
        /\ blocks[i].base + blocks[i].size <= heapPtr
  <2> SUFFICES ASSUME NEW i \in 1..Len(blocks)
               PROVE  /\ blocks[i].base \in Int /\ blocks[i].size \in Int
                      /\ blocks[i].base + blocks[i].size <= heapPtr
    OBVIOUS
  <2>1. blocks[i] \in Block
    BY <1>1
  <2> QED
    BY <2>1 DEF Block, HeapInv, PointerBeyondBlocks
<1>7. PointerBeyondBlocks'
  <2>1. heapPtr' \in SHeap..EHeap
    BY <1>1, <1>2
  <2>2. ASSUME NEW i \in 1..Len(blocks')
        PROVE  blocks'[i].base + blocks'[i].size <= heapPtr'
    <3>1. CASE i \in 1..Len(blocks)
      <4>1. blocks'[i] = blocks[i]
        BY <1>4, <3>1
      <4>2. /\ blocks[i].base + blocks[i].size \in Int
            /\ blocks[i].base + blocks[i].size <= heapPtr
        BY <1>6, <3>1
      <4>3. heapPtr \in Int /\ heapPtr <= heapPtr'
        BY <1>1, <1>2
      <4> QED
        BY <1>2, <4>1, <4>2, <4>3
    <3>2. CASE i = Len(blocks) + 1
      BY <1>1, <1>2, <1>4, <3>2
    <3> QED
      BY <1>5, <3>1, <3>2
  <2> QED
    BY <2>1, <2>2 DEF PointerBeyondBlocks
<1>8. BlocksApart'
  <2>1. ASSUME NEW i \in 1..Len(blocks')
        PROVE  /\ EndOfBss <= blocks'[i].base
               /\ blocks'[i].base + blocks'[i].size <= SStack
               /\ \A j \in 1..(i - 1) :
                    blocks'[j].base + blocks'[j].size <= blocks'[i].base
    <3>1. CASE i \in 1..Len(blocks)
      <4>1. \A j \in 1..(i - 1) : j \in 1..Len(blocks)
        BY <3>1
      <4> QED
        BY <1>4, <3>1, <4>1 DEF HeapInv, BlocksApart
    <3>2. CASE i = Len(blocks) + 1
      <4>1. \A j \in 1..(i - 1) : j \in 1..Len(blocks)
        BY <1>1, <3>2
      <4>2. EndOfBss <= heapPtr /\ heapPtr + request <= SStack
        BY <1>1, <1>2, Layout, LayoutAssumption
      <4> QED
        BY <1>4, <1>6, <3>2, <4>1, <4>2
    <3> QED
      BY <1>5, <3>1, <3>2
  <2> QED
    BY <2>1 DEF BlocksApart
<1>9. HeapTypeOK'
  BY <1>1, <1>2, <1>4 DEF HeapTypeOK
<1> QED
  BY <1>7, <1>8, <1>9 DEF HeapInv

\* Every step of the calls, every restart and every load keeps the invariant.
LEMMA HeapStep == HeapInv /\ [GlossNext]_glossVars => HeapInv'
<1> SUFFICES ASSUME HeapInv, [GlossNext]_glossVars PROVE HeapInv'
  OBVIOUS
<1>1. CASE UNCHANGED heapVars
  BY <1>1 DEF heapVars, HeapInv, HeapTypeOK, BlocksApart, PointerBeyondBlocks
<1>2. ASSUME NEW request \in Requests, GiveMemory(request) PROVE HeapInv'
  BY <1>2, GiveMemoryKeeps
<1>3. CASE LoadHeap
  BY <1>3, LoadedHeap DEF LoadHeap
<1>4. CASE UNCHANGED glossVars
  BY <1>1, <1>4 DEF glossVars
<1> QED
  BY <1>1, <1>2, <1>3, <1>4 DEF GlossNext, RefuseMemory, Ask

\* The program has just been loaded.
LEMMA GlossInitInv == GlossInit => HeapInv
  BY Layout DEF GlossInit, HeapInv, HeapTypeOK, BlocksApart, PointerBeyondBlocks

\* No two blocks of _sbrk overlap, and none reaches into .bss or the stack, for
\* every layout of the memory and over any number of restarts.
THEOREM HeapIsSafe == GlossSpec => []BlocksApart
<1>1. GlossInit => HeapInv
  BY GlossInitInv
<1>2. HeapInv => BlocksApart
  BY DEF HeapInv
<1> QED
  BY <1>1, <1>2, HeapStep, PTL DEF GlossSpec

-----------------------------------------------------------------------------
(* The line buffers, with the other calls and the restarts around _write. *)

\* A step of Gloss is one of LineBuffer, or an answer that leaves the line
\* buffers alone.
LEMMA GlossStepOfLineBuffer ==
  ASSUME HeapInv, [GlossNext]_glossVars
  PROVE  [Next]_vars \/ \E value \in Nat \cup {-1} : Answer(value)
<1>1. ASSUME NEW request \in Requests, RefuseMemory(request)
      PROVE  \E value \in Nat \cup {-1} : Answer(value)
  BY <1>1 DEF RefuseMemory
<1>2. ASSUME NEW request \in Requests, GiveMemory(request)
      PROVE  \E value \in Nat \cup {-1} : Answer(value)
  <2>1. heapPtr \in Nat
    BY Layout, LayoutAssumption DEF HeapInv, PointerBeyondBlocks
  <2> QED
    BY <1>2, <2>1 DEF GiveMemory
<1>3. CASE Ask
  <2>1. PICK fd \in Files, isNull \in BOOLEAN :
          \E answer \in {Read(fd), Close(fd), Lseek(fd), Fstat(fd, isNull), Isatty(fd)} :
            Answer(answer)
    BY <1>3 DEF Ask
  <2>2. {Read(fd), Close(fd), Lseek(fd), Fstat(fd, isNull), Isatty(fd)}
          \subseteq Nat \cup {-1}
    BY DEF Read, Close, Lseek, Fstat, Isatty
  <2> QED
    BY <2>1, <2>2
<1> QED
  BY <1>1, <1>2, <1>3 DEF GlossNext, Next, glossVars

\* An answer stores a number and nothing else.
LEMMA AnswerKeeps ==
  ASSUME Inv, NEW value \in Nat \cup {-1}, Answer(value)
  PROVE  Inv' /\ (NothingLost => NothingLost')
<1>1. Inv'
  BY DEF Inv, TypeOK, ShortLines, Answer
<1>2. /\ buffer' = buffer /\ printed' = printed
      /\ written' = written /\ repeated' = repeated
  BY DEF Answer
<1>3. \A s \in Streams : Masked(buffer[s])' = Masked(buffer[s])
  BY <1>2 DEF Masked
<1>4. \A s \in Streams : Masked(written[s])' = Masked(written[s])
  BY <1>2 DEF Masked
<1>5. NothingLost => NothingLost'
  BY <1>2, <1>3, <1>4, Zenon DEF NothingLost
<1> QED
  BY <1>1, <1>5

\* The types, the line buffers' bounds and the account of the characters, for
\* the whole of springbok_gloss.cpp and over any number of restarts and loads.
THEOREM GlossIsSafe == GlossSpec => [](TypeOK /\ InBounds /\ NothingLost)
<1> DEFINE I == HeapInv /\ Inv /\ NothingLost
<1>1. GlossInit => I
  BY GlossInitInv, InitInv, InitLosesNothing DEF GlossInit
<1>2. I /\ [GlossNext]_glossVars => I'
  BY HeapStep, GlossStepOfLineBuffer, AnswerKeeps, NextInv, StepLosesNothing
<1>3. I => TypeOK /\ InBounds /\ NothingLost
  BY SizeAssumption DEF Inv, TypeOK, ShortLines, InBounds
<1> QED
  BY <1>1, <1>2, <1>3, PTL DEF GlossSpec
=============================================================================
