------------------------------- MODULE Gloss --------------------------------
(***************************************************************************)
(* springbok_gloss.cpp: the system calls of the C library.  _write is that *)
(* of LineBuffer.  _sbrk hands out the heap, which springbok.ld places     *)
(* between .bss and the stack; its pointer is a static of .data, and so    *)
(* outlives a restart of the core but not a load of the program.  The      *)
(* other calls only answer.                                                *)
(***************************************************************************)
EXTENDS LineBuffer

CONSTANTS Requests,      \* numbers of bytes asked of _sbrk
          AddressSpace,  \* 2^32
          Alignment,     \* 64: ALIGN of springbok.ld
          EndOfBss,      \* _ebss
          EndOfDtcm,     \* ORIGIN(DTCM) + LENGTH(DTCM)
          StackSize,     \* STACK_SIZE
          MaxBlocks      \* bound on the blocks handed out

AlignUp(address) == IF address % Alignment = 0
                    THEN address
                    ELSE (address - (address % Alignment)) + Alignment

SStack == EndOfDtcm - StackSize                  \* _sstack
SHeap  == AlignUp(EndOfBss)                      \* _sheap
EHeap  == AlignUp(SStack - (Alignment - 1))      \* _eheap

\* The linker refuses a heap of negative size, and DTCM lies so low that a
\* pointer plus an int does not wrap.
ASSUME LayoutAssumption ==
  /\ AddressSpace \in Nat /\ Alignment \in Nat \ {0}
  /\ EndOfBss \in Nat /\ EndOfDtcm \in Nat /\ StackSize \in Nat
  /\ Alignment + StackSize <= EndOfDtcm
  /\ SHeap <= EHeap
ASSUME RequestAssumption ==
  /\ Requests \subseteq Int
  /\ \A n \in Requests : EHeap + n < AddressSpace
ASSUME MaxBlocksAssumption == MaxBlocks \in Nat

VARIABLES heapPtr,   \* _heap_ptr
          blocks     \* what _sbrk handed out since the program was loaded

heapVars  == <<heapPtr, blocks>>
glossVars == <<vars, heapVars>>

Block == [base : Int, size : Int]

HeapTypeOK == heapPtr \in Int /\ blocks \in Seq(Block)

GlossInit ==
  /\ Init
  /\ heapPtr = SHeap
  /\ blocks = <<>>

-----------------------------------------------------------------------------
(* _sbrk *)

PointerPlus(pointer, n) == IF pointer + n < AddressSpace
                           THEN pointer + n ELSE pointer + n - AddressSpace

\* Faulty variant: a negative request is not refused.
NoMemoryUnsigned(request) == PointerPlus(heapPtr, request) > EHeap

NoMemory(request) == \/ request < 0
                     \/ PointerPlus(heapPtr, request) > EHeap

Answer(value) ==
  /\ file = "none"
  /\ result' = value
  /\ UNCHANGED <<buffer, file, nbytes, bytesRead, printed, written, repeated, total>>

\* errno is ENOMEM; the two messages go to the log past the line buffers.
RefuseMemory(request) ==
  /\ NoMemory(request)
  /\ Answer(-1)
  /\ UNCHANGED heapVars

GiveMemory(request) ==
  /\ ~NoMemory(request)
  /\ Len(blocks) < MaxBlocks
  /\ Answer(heapPtr)
  /\ heapPtr' = PointerPlus(heapPtr, request)
  /\ blocks' = Append(blocks, [base |-> heapPtr, size |-> request])

-----------------------------------------------------------------------------
(* The calls that only answer: what they return for a descriptor. *)

Read(fd)   == IF fd = "stdin" THEN 0 ELSE -1        \* always at the end of file
Close(fd)  == -1
Lseek(fd)  == IF fd \in Streams THEN 0 ELSE -1
Fstat(fd, isNull) == IF fd \in Streams /\ ~isNull THEN 0 ELSE -1
Isatty(fd) == IF fd \in Streams THEN 1 ELSE -1

Ask ==
  /\ \E fd \in Files, isNull \in BOOLEAN :
       \E answer \in {Read(fd), Close(fd), Lseek(fd), Fstat(fd, isNull), Isatty(fd)} :
         Answer(answer)
  /\ UNCHANGED heapVars

-----------------------------------------------------------------------------
\* The .data section is loaded: the pointer is back at the start of the heap.
LoadHeap == heapPtr' = SHeap /\ blocks' = <<>>

GlossNext ==
  \/ (Write \/ Restart \/ RestartAfterPrint) /\ UNCHANGED heapVars
  \/ \E request \in Requests : RefuseMemory(request)
  \/ \E request \in Requests : GiveMemory(request)
  \/ Ask
  \/ Reload /\ LoadHeap
  \/ Restart /\ LoadHeap     \* a loader that leaves .bss as it is

GlossSpec == GlossInit /\ [][GlossNext]_glossVars

-----------------------------------------------------------------------------
(* Properties. *)

\* No two blocks that _sbrk handed out since the load share a byte, over all
\* the runs the core was released for, and none reaches into .bss or the
\* stack: the pointer that outlives a restart never moves back, no request is
\* large or negative enough to lead it out of the heap, and the end the linker
\* rounds up to stays below the stack.
BlocksApart ==
  \A i \in 1..Len(blocks) :
    /\ EndOfBss <= blocks[i].base
    /\ blocks[i].base + blocks[i].size <= SStack
    /\ \A j \in 1..(i - 1) : blocks[j].base + blocks[j].size <= blocks[i].base
=============================================================================
