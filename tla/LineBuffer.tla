----------------------------- MODULE LineBuffer -----------------------------
(***************************************************************************)
(* _write of springbok_gloss.cpp: standard output and standard error go to *)
(* the emulator's log through simprint, a line at a time.  Each stream has *)
(* a buffer that is kept between calls; a line that fills it is cut.       *)
(* The simprint handler of the emulator reads the line again: at most      *)
(* SimprintLimit bytes, each masked to seven bits, up to the first zero.   *)
(*                                                                         *)
(* A step of a call handles one byte.  An exception can end the program    *)
(* between two steps, and the host can release the core again at any time, *)
(* also inside one: the statics of _write are then as the store before     *)
(* left them, unless the program is loaded anew.                           *)
(***************************************************************************)
EXTENDS Integers, Sequences

CONSTANTS Characters,       \* codes of the bytes that are not terminators
          LineLimit,        \* 255: characters after which a line is cut
          BufferSize,       \* 256: bytes of a buffer
          SimprintLimit,    \* 255: bytes simprint reads
          MaxWritten        \* bound on the bytes ever written

Terminators == {0, 10}      \* NUL and newline

ASSUME CharacterAssumption == Characters \subseteq (0..255) \ Terminators
ASSUME SizeAssumption ==
  /\ LineLimit \in Nat \ {0} /\ BufferSize \in Nat /\ SimprintLimit \in Nat
  /\ LineLimit < BufferSize
  /\ LineLimit <= SimprintLimit
ASSUME BoundAssumption == MaxWritten \in Nat

VARIABLES buffer,      \* per stream, the characters waiting
          file,        \* descriptor of the call in progress; "none" between calls
          nbytes,      \* bytes that call was given
          bytesRead,   \* bytes it has handled
          result,      \* what the latest call returned
          printed,     \* per stream, the characters that reached the log
          written,     \* per stream, the characters the program has written
          repeated,    \* streams with a line in the log that is still in the buffer
          total        \* bytes taken from the program

vars == <<buffer, file, nbytes, bytesRead, result, printed, written, repeated, total>>

Streams == {"stdout", "stderr"}
Files   == Streams \cup {"stdin", "other"}

TypeOK ==
  /\ buffer \in [Streams -> Seq(Characters)]
  /\ file \in Streams \cup {"none"}
  /\ nbytes \in Nat /\ bytesRead \in 0..nbytes
  /\ result \in Nat \cup {-1}
  /\ printed \in [Streams -> Seq(1..127)]
  /\ written \in [Streams -> Seq(Characters)]
  /\ repeated \subseteq Streams
  /\ total \in Nat

Init ==
  /\ buffer = [s \in Streams |-> <<>>]
  /\ file = "none"
  /\ nbytes = 0 /\ bytesRead = 0
  /\ result = 0
  /\ printed = [s \in Streams |-> <<>>]
  /\ written = [s \in Streams |-> <<>>]
  /\ repeated = {}
  /\ total = 0

-----------------------------------------------------------------------------
\* A call that the guards of _write turn away, in their order.
Refuse(fd, isNull, length) ==
  /\ file = "none"
  /\ \/ fd \notin Streams /\ result' = -1
     \/ fd \in Streams /\ length <= 0 /\ result' = 0
     \/ fd \in Streams /\ length > 0 /\ isNull /\ result' = -1
  /\ UNCHANGED <<buffer, file, nbytes, bytesRead, printed, written, repeated, total>>

Accept(fd, length) ==
  /\ file = "none"
  /\ fd \in Streams /\ length > 0
  /\ total + length <= MaxWritten
  /\ file' = fd
  /\ nbytes' = length /\ bytesRead' = 0
  /\ total' = total + length
  /\ UNCHANGED <<buffer, result, printed, written, repeated>>

Masked(line) == [i \in 1..Len(line) |-> line[i] % 128]

\* How much of a line the simprint handler reads.
Visible(line) ==
  CHOOSE n \in 0..Len(line) :
    /\ n <= SimprintLimit
    /\ \A i \in 1..n : line[i] % 128 # 0
    /\ n \in {Len(line), SimprintLimit} \/ line[n + 1] % 128 = 0

\* Faulty variant: the zero that ends the string is printed with it.
SimprintedWithNul(line) == IF Visible(line) < Len(line)
                           THEN Masked(SubSeq(line, 1, Visible(line) + 1))
                           ELSE Masked(line)
\* Faulty variant: one byte less than the line can hold is read.
SimprintedShort(line) ==
  Masked(SubSeq(line, 1, IF Visible(line) = LineLimit THEN LineLimit - 1 ELSE Visible(line)))

Simprinted(line) == Masked(SubSeq(line, 1, Visible(line)))

Flush(line) ==
  /\ printed' = [printed EXCEPT ![file] = @ \o Simprinted(line)]
  /\ buffer' = [buffer EXCEPT ![file] = <<>>]

EndLine ==
  /\ file # "none" /\ bytesRead < nbytes
  /\ Flush(buffer[file])
  /\ bytesRead' = bytesRead + 1
  /\ UNCHANGED <<file, nbytes, result, written, repeated, total>>

\* Faulty variant: the line is cut one character too late.
StoreCharacterPastEnd(c) ==
  /\ file # "none" /\ bytesRead < nbytes
  /\ LET line == Append(buffer[file], c)
     IN  IF Len(line) > LineLimit
         THEN Flush(line)
         ELSE buffer' = [buffer EXCEPT ![file] = line] /\ UNCHANGED printed
  /\ written' = [written EXCEPT ![file] = Append(@, c)]
  /\ bytesRead' = bytesRead + 1
  /\ UNCHANGED <<file, nbytes, result, repeated, total>>

StoreCharacter(c) ==
  /\ file # "none" /\ bytesRead < nbytes
  /\ LET line == Append(buffer[file], c)
     IN  IF Len(line) = LineLimit
         THEN Flush(line)
         ELSE buffer' = [buffer EXCEPT ![file] = line] /\ UNCHANGED printed
  /\ written' = [written EXCEPT ![file] = Append(@, c)]
  /\ bytesRead' = bytesRead + 1
  /\ UNCHANGED <<file, nbytes, result, repeated, total>>

Return ==
  /\ file # "none" /\ bytesRead = nbytes
  /\ result' = bytesRead
  /\ file' = "none"
  /\ UNCHANGED <<buffer, nbytes, bytesRead, printed, written, repeated, total>>

Write ==
  \/ \E fd \in Files, isNull \in BOOLEAN, length \in {-1, 0, 1} : Refuse(fd, isNull, length)
  \/ \E fd \in Files, length \in 1..MaxWritten : Accept(fd, length)
  \/ EndLine
  \/ \E c \in Characters : StoreCharacter(c)
  \/ Return

-----------------------------------------------------------------------------
(* The host releases the core again.                                       *)

AbandonCall == file' = "none" /\ nbytes' = 0 /\ bytesRead' = 0

\* Without a load: .bss is as it was, and crt0.S does not clear it.
Restart ==
  /\ AbandonCall
  /\ UNCHANGED <<buffer, result, printed, written, repeated, total>>

\* The lines that the next byte would hand to simprint.
FlushedLines ==
  {buffer[file]} \cup {line \in {Append(buffer[file], c) : c \in Characters} :
                         Len(line) = LineLimit}

\* Between the call of simprint and the store of the new length: the line is
\* in the log, and all of it but a character that was just added is still in
\* the buffer.
RestartAfterPrint ==
  /\ file # "none" /\ bytesRead < nbytes
  /\ \E line \in FlushedLines :
       printed' = [printed EXCEPT ![file] = @ \o Simprinted(line)]
  /\ repeated' = repeated \cup {file}
  /\ AbandonCall
  /\ UNCHANGED <<buffer, result, written, total>>

\* The program is loaded again by a loader that clears .bss.  The lines waiting
\* are gone with it: the account of what was written starts anew.
Reload ==
  /\ AbandonCall
  /\ buffer' = [s \in Streams |-> <<>>]
  /\ printed' = [s \in Streams |-> <<>>]
  /\ written' = [s \in Streams |-> <<>>]
  /\ repeated' = {}
  /\ UNCHANGED <<result, total>>

Next == Write \/ Restart \/ RestartAfterPrint \/ Reload

Spec == Init /\ [][Next]_vars

-----------------------------------------------------------------------------
(* Properties.                                                             *)

\* Between two bytes, and between two calls, the next character and the NUL
\* after it both fit in the stream's buffer.
InBounds == \A s \in Streams : Len(buffer[s]) + 1 < BufferSize

\* Bytes the handler takes for the end of the string although they are not NUL.
Truncating == {c \in Characters : c % 128 = 0}

\* A stream on which no truncating byte (0x80) was written loses nothing: each
\* of its characters, masked, is in the log or in the buffer, once and in
\* order, also over restarts.  The cut at the limit drops none, and simprint
\* reads every line to its end.  Only a restart between a line's way to the log
\* and the store of the new length repeats it.
NothingLost ==
  \A s \in Streams \ repeated :
    (\A i \in 1..Len(written[s]) : written[s][i] \notin Truncating)
      => printed[s] \o Masked(buffer[s]) = Masked(written[s])
=============================================================================
