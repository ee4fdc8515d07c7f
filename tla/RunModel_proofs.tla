-------------------------- MODULE RunModel_proofs --------------------------
(***************************************************************************)
(* Theorems about RunModel, for every number of elements and all outputs:  *)
(* what each call finds held, what is left at the end, and what a success  *)
(* answers for.                                                            *)
(*                                                                         *)
(* The code of a build is followed as a program logic follows a sequence   *)
(* of statements: every place of it gets a mark that says what is held     *)
(* there while nothing has failed, what can be held there after a failure, *)
(* and how far the answer is.  One instruction leads from a mark to the    *)
(* next (Leads), a piece of code from its first mark to its last (Path),   *)
(* and two pieces whose marks meet do so together.  The invariant of the   *)
(* machine is that it keeps to the marks of its build.                     *)
(***************************************************************************)
EXTENDS RunModel, SequenceTheorems, TLAPS

-----------------------------------------------------------------------------
(* Marks.                                                                  *)

\* ok: what is held while nothing has failed; failed: what can be held once
\* something has; stage: how far the answer is.
Mark(ok, failed, stage) == [ok |-> ok, failed |-> failed, stage |-> stage]

\* What an instruction does to the references held.
After(i, holding) == (holding \cup i.gets) \ i.frees

\* Every kind of instruction but CallIfOk, which leads to two places.
Ops == {"try", "require", "malloc", "process", "release", "unguarded"}

\* The references of an instruction fit its kind, and the error it can leave
\* is its own.
WellFormed(i) ==
  /\ i.op \in {"require", "process", "unguarded"} => i.gets = {} /\ i.frees = {}
  /\ i.op = "malloc" => i.frees = {}
  /\ i.op = "release" => i.gets = {}
  /\ i.op \in {"try", "require"} => i.call \notin {"ok", "process_output"}
  /\ i.op = "process" => i.call = "process_output"

\* While nothing has failed, and when the instruction is the first to fail.
LeadsOk(i, p, q) ==
  /\ q.ok = After(i, p.ok)
  /\ i.op \in {"try", "process"} => i.uses \subseteq p.ok /\ p.ok \subseteq q.failed

\* After a failure.
LeadsFailed(i, p, q) ==
  IF i.op \in {"malloc", "release"}
  THEN After(i, p.failed) \subseteq q.failed
  ELSE p.failed \subseteq q.failed

\* Only the early return needs to know that the instance alone is held.
LeadsRequired(i, p) ==
  i.op = "require" =>
    i.uses = {"instance"} /\ p.ok = {"instance"} /\ p.failed = {}

\* A mapping is acquired from the list of outputs and undone before it.
LeadsMapped(i, p) ==
  /\ "mapping1" \in i.gets => i.op = "try" /\ "outputs" \in i.uses /\ "outputs" \notin i.frees
  /\ "outputs" \in i.frees => "mapping1" \notin (p.ok \cup p.failed)
  /\ i.op = "release" /\ i.uses # {} => i.frees = {"mapping1"} /\ i.uses = {"outputs"}

LeadsStage(i, p, q) ==
  CASE i.op = "try" /\ i.call = "invoke" -> p.stage = "running" /\ q.stage = "computed"
    [] i.op = "process" -> p.stage = "computed" /\ q.stage = "answered"
    [] OTHER -> q.stage = p.stage

Leads(i, p, q) ==
  /\ i.op \in Ops
  /\ WellFormed(i)
  /\ LeadsOk(i, p, q)
  /\ LeadsFailed(i, p, q)
  /\ LeadsRequired(i, p)
  /\ LeadsMapped(i, p)
  /\ LeadsStage(i, p, q)

IsCode(s) == \E S : s \in Seq(S)

\* m gives a mark to every place of the code s, the one behind it included.
Marked(m, s) ==
  /\ IsCode(s)
  /\ \A k \in 1..Len(s) : Leads(s[k], m[k], m[k + 1])

Path(s, p, q) == \E m : Marked(m, s) /\ m[1] = p /\ m[Len(s) + 1] = q

-----------------------------------------------------------------------------
(* Putting code together.                                                  *)

\* The marks of s, then those of t.
Joined(m, s, n, t) ==
  [k \in 1..Len(s \o t) + 1 |-> IF k <= Len(s) THEN m[k] ELSE n[k - Len(s)]]

\* The length of a piece of code is a natural number.
LEMMA LenOfCode ==
  ASSUME NEW s, IsCode(s)
  PROVE  Len(s) \in Nat
BY LenProperties DEF IsCode

\* Two pieces of code in a row: its length and its places.
LEMMA ConcatOfCode ==
  ASSUME NEW s, NEW t, IsCode(s), IsCode(t)
  PROVE  /\ IsCode(s \o t)
         /\ Len(s \o t) = Len(s) + Len(t)
         /\ \A k \in 1..Len(s) + Len(t) :
              (s \o t)[k] = IF k <= Len(s) THEN s[k] ELSE t[k - Len(s)]
<1>1. PICK S, T : s \in Seq(S) /\ t \in Seq(T)
  BY DEF IsCode
<1>2. s \in Seq(S \cup T) /\ t \in Seq(S \cup T)
  BY <1>1
<1> QED BY <1>2, ConcatProperties DEF IsCode

\* The marks of two pieces of code that meet mark the two in a row.
LEMMA JoinedIsMarked ==
  ASSUME NEW s, NEW t, NEW m, NEW n, Marked(m, s), Marked(n, t),
         m[Len(s) + 1] = n[1]
  PROVE  /\ IsCode(s \o t)
         /\ Marked(Joined(m, s, n, t), s \o t)
         /\ Joined(m, s, n, t)[1] = m[1]
         /\ Joined(m, s, n, t)[Len(s) + 1] = n[1]
         /\ Joined(m, s, n, t)[Len(s \o t) + 1] = n[Len(t) + 1]
<1> DEFINE j == Joined(m, s, n, t)
<1>1. Len(s) \in Nat /\ Len(t) \in Nat
  BY LenOfCode DEF Marked
<1>2. /\ IsCode(s \o t)
      /\ Len(s \o t) = Len(s) + Len(t)
      /\ \A k \in 1..Len(s) + Len(t) :
           (s \o t)[k] = IF k <= Len(s) THEN s[k] ELSE t[k - Len(s)]
  BY ConcatOfCode DEF Marked
<1>4. \A k \in 1..Len(s) + Len(t) + 1 :
        j[k] = IF k <= Len(s) THEN m[k] ELSE n[k - Len(s)]
  BY <1>2 DEF Joined
<1>5. \A k \in 1..Len(s) + 1 : j[k] = m[k]
  <2> SUFFICES ASSUME NEW k \in 1..Len(s) + 1 PROVE j[k] = m[k]
    OBVIOUS
  <2> HIDE DEF j
  <2>1. k \in 1..Len(s) + Len(t) + 1
    BY <1>1
  <2>2. CASE k <= Len(s)
    BY <2>1, <2>2, <1>4
  <2>3. CASE k = Len(s) + 1
    <3>1. ~(k <= Len(s)) /\ k - Len(s) = 1
      BY <2>3, <1>1
    <3> QED BY <3>1, <2>1, <2>3, <1>4
  <2> QED BY <2>2, <2>3, <1>1
<1>6. \A k \in 1..Len(t) + 1 : j[Len(s) + k] = n[k]
  <2> SUFFICES ASSUME NEW k \in 1..Len(t) + 1 PROVE j[Len(s) + k] = n[k]
    OBVIOUS
  <2> HIDE DEF j
  <2>1. /\ Len(s) + k \in 1..Len(s) + Len(t) + 1
        /\ ~(Len(s) + k <= Len(s))
        /\ Len(s) + k - Len(s) = k
    BY <1>1
  <2> QED BY <2>1, <1>4
<1>7. ASSUME NEW k \in 1..Len(s \o t)
      PROVE  Leads((s \o t)[k], j[k], j[k + 1])
  <2> HIDE DEF j
  <2>1. CASE k <= Len(s)
    <3>1. k \in 1..Len(s) /\ k \in 1..Len(s) + 1 /\ k + 1 \in 1..Len(s) + 1
      BY <2>1, <1>1, <1>2
    <3>2. (s \o t)[k] = s[k]
      BY <2>1, <1>2
    <3>3. Leads(s[k], m[k], m[k + 1])
      BY <3>1 DEF Marked
    <3> QED BY <3>1, <3>2, <3>3, <1>5
  <2>2. CASE ~(k <= Len(s))
    <3> DEFINE l == k - Len(s)
    <3>1. l \in 1..Len(t) /\ l + 1 \in 1..Len(t) + 1 /\ k = Len(s) + l /\ k + 1 = Len(s) + (l + 1)
      BY <2>2, <1>1, <1>2
    <3>2. (s \o t)[k] = t[l]
      BY <2>2, <1>2
    <3>3. Leads(t[l], n[l], n[l + 1])
      BY <3>1 DEF Marked
    <3>4. l \in 1..Len(t) + 1
      BY <3>1, <1>1
    <3> HIDE DEF l
    <3>5. j[k] = n[l] /\ j[k + 1] = n[l + 1]
      BY <3>1, <3>4, <1>6
    <3> QED BY <3>2, <3>3, <3>5
  <2> QED BY <2>1, <2>2
<1>8. Marked(j, s \o t)
  BY <1>2, <1>7 DEF Marked
<1>9. j[1] = m[1]
  BY <1>1, <1>5
<1>10. j[Len(s) + 1] = n[1]
  BY <1>1, <1>6
<1>11. j[Len(s \o t) + 1] = n[Len(t) + 1]
  <2>1. Len(t) + 1 \in 1..Len(t) + 1 /\ Len(s \o t) + 1 = Len(s) + (Len(t) + 1)
    BY <1>1, <1>2
  <2> HIDE DEF j
  <2> QED BY <2>1, <1>6
<1> QED BY <1>2, <1>8, <1>9, <1>10, <1>11

\* Paths compose.
LEMMA PathConcat ==
  ASSUME NEW s, NEW t, NEW p, NEW q, NEW r, Path(s, p, q), Path(t, q, r)
  PROVE  Path(s \o t, p, r)
<1>1. PICK m : Marked(m, s) /\ m[1] = p /\ m[Len(s) + 1] = q
  BY DEF Path
<1>2. PICK n : Marked(n, t) /\ n[1] = q /\ n[Len(t) + 1] = r
  BY DEF Path
<1>3. /\ Marked(Joined(m, s, n, t), s \o t)
      /\ Joined(m, s, n, t)[1] = p
      /\ Joined(m, s, n, t)[Len(s \o t) + 1] = r
  BY <1>1, <1>2, JoinedIsMarked
<1> QED BY <1>3 DEF Path

\* No code leads nowhere.
LEMMA NoSteps ==
  ASSUME NEW p
  PROVE  Path(<<>>, p, p)
<1>1. IsCode(<<>>) /\ Len(<<>>) = 0
  <2>1. <<>> \in Seq({})
    OBVIOUS
  <2> QED BY <2>1 DEF IsCode
<1>2. Marked(<<p>>, <<>>) /\ <<p>>[1] = p
  BY <1>1 DEF Marked
<1> QED BY <1>1, <1>2 DEF Path

\* A path of as many steps as there are instructions, for the lengths that the code has.
LEMMA OneStep ==
  ASSUME NEW i1, NEW p1, NEW p2,
         Leads(i1, p1, p2)
  PROVE  Path(<<i1>>, p1, p2)
<1> DEFINE s == <<i1>>
           m == <<p1, p2>>
<1>1. IsCode(s) /\ Len(s) = 1
  <2>1. s \in Seq({i1})
    OBVIOUS
  <2> QED BY <2>1 DEF IsCode
<1>2. Len(s) + 1 = 2
  BY <1>1
<1>3. m[1] = p1 /\ m[2] = p2
  OBVIOUS
<1>4. s[1] = i1
  OBVIOUS
<1> HIDE DEF s, m
<1>5. \A k \in 1..1 : Leads(s[k], m[k], m[k + 1])
  <2>1. \A k \in 1..1 : k = 1
    OBVIOUS
  <2>2. m[1 + 1] = p2
    BY <1>3
  <2> QED BY <2>1, <2>2, <1>3, <1>4
<1>6. Marked(m, s)
  BY <1>1, <1>2, <1>5 DEF Marked
<1>7. Path(s, p1, p2)
  BY <1>2, <1>3, <1>6 DEF Path
<1> QED BY <1>7 DEF s

\* Two steps.
LEMMA TwoSteps ==
  ASSUME NEW i1, NEW i2, NEW p1, NEW p2, NEW p3,
         Leads(i1, p1, p2), Leads(i2, p2, p3)
  PROVE  Path(<<i1, i2>>, p1, p3)
<1> DEFINE s == <<i1, i2>>
           m == <<p1, p2, p3>>
<1>1. IsCode(s) /\ Len(s) = 2
  <2>1. s \in Seq({i1, i2})
    OBVIOUS
  <2> QED BY <2>1 DEF IsCode
<1>2. Len(s) + 1 = 3
  BY <1>1
<1>3. m[1] = p1 /\ m[2] = p2 /\ m[3] = p3
  OBVIOUS
<1>4. s[1] = i1 /\ s[2] = i2
  OBVIOUS
<1> HIDE DEF s, m
<1>5. \A k \in 1..2 : Leads(s[k], m[k], m[k + 1])
  <2>1. \A k \in 1..2 : k = 1 \/ k = 2
    OBVIOUS
  <2>2. m[1 + 1] = p2 /\ m[2 + 1] = p3
    BY <1>3
  <2> QED BY <2>1, <2>2, <1>3, <1>4
<1>6. Marked(m, s)
  BY <1>1, <1>2, <1>5 DEF Marked
<1>7. Path(s, p1, p3)
  BY <1>2, <1>3, <1>6 DEF Path
<1> QED BY <1>7 DEF s

\* Three steps.
LEMMA ThreeSteps ==
  ASSUME NEW i1, NEW i2, NEW i3, NEW p1, NEW p2, NEW p3, NEW p4,
         Leads(i1, p1, p2), Leads(i2, p2, p3), Leads(i3, p3, p4)
  PROVE  Path(<<i1, i2, i3>>, p1, p4)
<1> DEFINE s == <<i1, i2, i3>>
           m == <<p1, p2, p3, p4>>
<1>1. IsCode(s) /\ Len(s) = 3
  <2>1. s \in Seq({i1, i2, i3})
    OBVIOUS
  <2> QED BY <2>1 DEF IsCode
<1>2. Len(s) + 1 = 4
  BY <1>1
<1>3. m[1] = p1 /\ m[2] = p2 /\ m[3] = p3 /\ m[4] = p4
  OBVIOUS
<1>4. s[1] = i1 /\ s[2] = i2 /\ s[3] = i3
  OBVIOUS
<1> HIDE DEF s, m
<1>5. \A k \in 1..3 : Leads(s[k], m[k], m[k + 1])
  <2>1. \A k \in 1..3 : k = 1 \/ k = 2 \/ k = 3
    OBVIOUS
  <2>2. m[1 + 1] = p2 /\ m[2 + 1] = p3 /\ m[3 + 1] = p4
    BY <1>3
  <2> QED BY <2>1, <2>2, <1>3, <1>4
<1>6. Marked(m, s)
  BY <1>1, <1>2, <1>5 DEF Marked
<1>7. Path(s, p1, p4)
  BY <1>2, <1>3, <1>6 DEF Path
<1> QED BY <1>7 DEF s

\* Four steps.
LEMMA FourSteps ==
  ASSUME NEW i1, NEW i2, NEW i3, NEW i4, NEW p1, NEW p2, NEW p3,
         NEW p4, NEW p5,
         Leads(i1, p1, p2), Leads(i2, p2, p3), Leads(i3, p3, p4),
         Leads(i4, p4, p5)
  PROVE  Path(<<i1, i2, i3, i4>>, p1, p5)
<1> DEFINE s == <<i1, i2, i3, i4>>
           m == <<p1, p2, p3, p4, p5>>
<1>1. IsCode(s) /\ Len(s) = 4
  <2>1. s \in Seq({i1, i2, i3, i4})
    OBVIOUS
  <2> QED BY <2>1 DEF IsCode
<1>2. Len(s) + 1 = 5
  BY <1>1
<1>3. m[1] = p1 /\ m[2] = p2 /\ m[3] = p3 /\ m[4] = p4 /\ m[5] = p5
  OBVIOUS
<1>4. s[1] = i1 /\ s[2] = i2 /\ s[3] = i3 /\ s[4] = i4
  OBVIOUS
<1> HIDE DEF s, m
<1>5. \A k \in 1..4 : Leads(s[k], m[k], m[k + 1])
  <2>1. \A k \in 1..4 : k = 1 \/ k = 2 \/ k = 3 \/ k = 4
    OBVIOUS
  <2>2. m[1 + 1] = p2 /\ m[2 + 1] = p3 /\ m[3 + 1] = p4 /\ m[4 + 1] = p5
    BY <1>3
  <2> QED BY <2>1, <2>2, <1>3, <1>4
<1>6. Marked(m, s)
  BY <1>1, <1>2, <1>5 DEF Marked
<1>7. Path(s, p1, p5)
  BY <1>2, <1>3, <1>6 DEF Path
<1> QED BY <1>7 DEF s

\* Six steps.
LEMMA SixSteps ==
  ASSUME NEW i1, NEW i2, NEW i3, NEW i4, NEW i5, NEW i6, NEW p1,
         NEW p2, NEW p3, NEW p4, NEW p5, NEW p6, NEW p7,
         Leads(i1, p1, p2), Leads(i2, p2, p3), Leads(i3, p3, p4),
         Leads(i4, p4, p5), Leads(i5, p5, p6), Leads(i6, p6, p7)
  PROVE  Path(<<i1, i2, i3, i4, i5, i6>>, p1, p7)
<1> DEFINE s == <<i1, i2, i3, i4, i5, i6>>
           m == <<p1, p2, p3, p4, p5, p6, p7>>
<1>1. IsCode(s) /\ Len(s) = 6
  <2>1. s \in Seq({i1, i2, i3, i4, i5, i6})
    OBVIOUS
  <2> QED BY <2>1 DEF IsCode
<1>2. Len(s) + 1 = 7
  BY <1>1
<1>3. m[1] = p1 /\ m[2] = p2 /\ m[3] = p3 /\ m[4] = p4 /\ m[5] = p5 /\ m[6] = p6 /\ m[7] = p7
  OBVIOUS
<1>4. s[1] = i1 /\ s[2] = i2 /\ s[3] = i3 /\ s[4] = i4 /\ s[5] = i5 /\ s[6] = i6
  OBVIOUS
<1> HIDE DEF s, m
<1>5. \A k \in 1..6 : Leads(s[k], m[k], m[k + 1])
  <2>1. \A k \in 1..6 : k = 1 \/ k = 2 \/ k = 3 \/ k = 4 \/ k = 5 \/ k = 6
    OBVIOUS
  <2>2. m[1 + 1] = p2 /\ m[2 + 1] = p3 /\ m[3 + 1] = p4 /\ m[4 + 1] = p5 /\ m[5 + 1] = p6 /\ m[6 + 1] = p7
    BY <1>3
  <2> QED BY <2>1, <2>2, <1>3, <1>4
<1>6. Marked(m, s)
  BY <1>1, <1>2, <1>5 DEF Marked
<1>7. Path(s, p1, p7)
  BY <1>2, <1>3, <1>6 DEF Path
<1> QED BY <1>7 DEF s

-----------------------------------------------------------------------------
(* The instructions.                                                       *)

\* What a guarded call that acquires something needs: its uses held while nothing
\* has failed, and a failure that leaves what was held to the clean-up.
LEMMA TryLeads ==
  ASSUME NEW call, NEW uses, NEW gets,
         NEW ok, NEW failed, NEW stage, NEW okNext, NEW failedNext,
         call \notin {"ok", "invoke", "process_output"},
         uses \subseteq ok,
         okNext = ok \cup gets,
         ok \cup failed \subseteq failedNext,
         "mapping1" \in gets => "outputs" \in uses
  PROVE  Leads(Try(call, uses, gets), Mark(ok, failed, stage), Mark(okNext, failedNext, stage))
BY DEF Leads, WellFormed, LeadsOk, LeadsFailed, LeadsRequired, LeadsMapped, LeadsStage,
       After, Ops, Mark, Try, Instruction

\* A release is made whatever has failed, so both sides of the mark lose it.
LEMMA ReleaseLeads ==
  ASSUME NEW frees,
         NEW ok, NEW failed, NEW stage, NEW okNext, NEW failedNext,
         okNext = ok \ frees,
         failed \ frees \subseteq failedNext,
         "outputs" \in frees => "mapping1" \notin (ok \cup failed)
  PROVE  Leads(Release(frees), Mark(ok, failed, stage), Mark(okNext, failedNext, stage))
BY DEF Leads, WellFormed, LeadsOk, LeadsFailed, LeadsRequired, LeadsMapped, LeadsStage,
       After, Ops, Mark, Release, Instruction

\* An allocation of load_input_data is made whatever has failed.
LEMMA MallocLeads ==
  ASSUME NEW gets,
         NEW ok, NEW failed, NEW stage, NEW okNext, NEW failedNext,
         okNext = ok \cup gets,
         failed \cup gets \subseteq failedNext,
         "mapping1" \notin gets
  PROVE  Leads(Malloc(gets), Mark(ok, failed, stage), Mark(okNext, failedNext, stage))
BY DEF Leads, WellFormed, LeadsOk, LeadsFailed, LeadsRequired, LeadsMapped, LeadsStage,
       After, Ops, Mark, Malloc, Instruction

\* The early return of create_context comes when the instance alone is held.
LEMMA RequireLeads ==
  ASSUME NEW call, NEW stage, call \notin {"ok", "process_output"}
  PROVE  Leads(Require(call, {"instance"}), Mark({"instance"}, {}, stage), Mark({"instance"},
                                                                                {}, stage))
BY DEF Leads, WellFormed, LeadsOk, LeadsFailed, LeadsRequired, LeadsMapped, LeadsStage,
       After, Ops, Mark, Require, Instruction

\* A push moves the view into the list, which gives it back; after a failure the
\* reference is dropped, and the view stays among what can be held.
LEMMA PushLeads ==
  ASSUME NEW view, NEW ok, NEW failed, NEW stage, NEW okNext, NEW failedNext,
         "inputs" \in ok,
         okNext = ok \ {view},
         ok \cup failed \subseteq failedNext,
         view # "outputs"
  PROVE  Leads(Push(view), Mark(ok, failed, stage), Mark(okNext, failedNext, stage))
BY DEF Leads, WellFormed, LeadsOk, LeadsFailed, LeadsRequired, LeadsMapped, LeadsStage,
       After, Ops, Mark, Push, Instruction

\* The invocation is where the outputs come from.
LEMMA InvokeLeads ==
  ASSUME NEW uses, NEW ok, NEW failed, NEW failedNext,
         uses \subseteq ok,
         ok \cup failed \subseteq failedNext
  PROVE  Leads(Try("invoke", uses, {}), Mark(ok, failed, "running"), Mark(ok,
                                                                          failedNext, "computed"))
BY DEF Leads, WellFormed, LeadsOk, LeadsFailed, LeadsRequired, LeadsMapped, LeadsStage,
       After, Ops, Mark, Try, Instruction

\* process_output is where the answer comes from.
LEMMA ProcessLeads ==
  ASSUME NEW uses, NEW ok, NEW failed, NEW failedNext,
         uses \subseteq ok,
         ok \cup failed \subseteq failedNext
  PROVE  Leads(Process(uses), Mark(ok, failed, "computed"), Mark(ok, failedNext, "answered"))
BY DEF Leads, WellFormed, LeadsOk, LeadsFailed, LeadsRequired, LeadsMapped, LeadsStage,
       After, Ops, Mark, Process, Instruction

\* The mapping is undone whatever has failed.
LEMMA UnmapLeads ==
  ASSUME NEW ok, NEW failed, NEW stage
  PROVE  Leads(Unmap("mapping1"), Mark(ok, failed, stage),
               Mark(ok \ {"mapping1"}, failed \ {"mapping1"}, stage))
BY DEF Leads, WellFormed, LeadsOk, LeadsFailed, LeadsRequired, LeadsMapped, LeadsStage,
       After, Ops, Mark, Unmap, Instruction

\* A use without a guard changes nothing that is held.
LEMMA UnguardedLeads ==
  ASSUME NEW call, NEW uses, NEW ok, NEW failed, NEW stage
  PROVE  Leads(Unguarded(call, uses), Mark(ok, failed, stage), Mark(ok, failed, stage))
BY DEF Leads, WellFormed, LeadsOk, LeadsFailed, LeadsRequired, LeadsMapped, LeadsStage,
       After, Ops, Mark, Unguarded, Instruction

-----------------------------------------------------------------------------
(* create_context.                                                         *)

Running(ok, failed) == Mark(ok, failed, "running")

\* create_sample_device of the static library loader.
LEMMA StaticDevicePath ==
  Path(StaticDevice, Running({"instance"}, {}),
       Running({"instance", "loader", "device"}, {"instance", "loader"}))
<1>1. Leads(Try("loader", {}, {"loader"}),
            Running({"instance"}, {}),
            Running({"instance", "loader"}, {"instance"}))
  BY TryLeads DEF Running
<1>2. Leads(Try("allocator", {}, {"allocator"}),
            Running({"instance", "loader"}, {"instance"}),
            Running({"instance", "loader", "allocator"}, {"instance", "loader"}))
  BY TryLeads DEF Running
<1>3. Leads(Try("device", {"loader", "allocator"}, {"device"}),
            Running({"instance", "loader", "allocator"}, {"instance", "loader"}),
            Running({"instance", "loader", "allocator", "device"},
                    {"instance", "loader", "allocator"}))
  BY TryLeads DEF Running
<1>4. Leads(Release({"allocator"}),
            Running({"instance", "loader", "allocator", "device"},
                    {"instance", "loader", "allocator"}),
            Running({"instance", "loader", "device"}, {"instance", "loader"}))
  BY ReleaseLeads DEF Running
<1> QED BY <1>1, <1>2, <1>3, <1>4, FourSteps DEF StaticDevice

\* The beginning of create_context, up to its early return.
LEMMA FirstPath ==
  Path(<<Try("instance", {}, {"instance"}), Require("register_types", {"instance"})>>,
       Running({}, {}),
       Running({"instance"}, {}))
<1>1. Leads(Try("instance", {}, {"instance"}),
            Running({}, {}),
            Running({"instance"}, {}))
  BY TryLeads DEF Running
<1>2. Leads(Require("register_types", {"instance"}),
            Running({"instance"}, {}),
            Running({"instance"}, {}))
  BY RequireLeads DEF Running
<1> QED BY <1>1, <1>2, TwoSteps

\* create_sample_device of the VMVX loader.
LEMMA VmvxDevicePath ==
  Path(VmvxDevice,
       Running({"instance"}, {}),
       Running({"instance", "loader", "device"}, {"instance", "loader"}))
<1>1. Leads(Try("vmvx_instance", {}, {"vmvx_instance"}),
            Running({"instance"}, {}),
            Running({"instance", "vmvx_instance"}, {"instance"}))
  BY TryLeads DEF Running
<1>2. Leads(Try("loader", {"vmvx_instance"}, {"loader"}),
            Running({"instance", "vmvx_instance"}, {"instance"}),
            Running({"instance", "vmvx_instance", "loader"}, {"instance", "vmvx_instance"}))
  BY TryLeads DEF Running
<1>3. Leads(Release({"vmvx_instance"}),
            Running({"instance", "vmvx_instance", "loader"}, {"instance", "vmvx_instance"}),
            Running({"instance", "loader"}, {"instance"}))
  BY ReleaseLeads DEF Running
<1>4. Leads(Try("allocator", {}, {"allocator"}),
            Running({"instance", "loader"}, {"instance"}),
            Running({"instance", "loader", "allocator"}, {"instance", "loader"}))
  BY TryLeads DEF Running
<1>5. Leads(Try("device", {"loader", "allocator"}, {"device"}),
            Running({"instance", "loader", "allocator"}, {"instance", "loader"}),
            Running({"instance", "loader", "allocator", "device"},
                    {"instance", "loader", "allocator"}))
  BY TryLeads DEF Running
<1>6. Leads(Release({"allocator"}),
            Running({"instance", "loader", "allocator", "device"},
                    {"instance", "loader", "allocator"}),
            Running({"instance", "loader", "device"}, {"instance", "loader"}))
  BY ReleaseLeads DEF Running
<1> QED BY <1>1, <1>2, <1>3, <1>4, <1>5, <1>6, SixSteps DEF VmvxDevice

\* create_sample_device of every build.
LEMMA DevicePath ==
  ASSUME NEW build \in Builds
  PROVE  Path(CreateSampleDevice(build),
              Running({"instance"}, {}),
              Running({"instance", "loader", "device"}, {"instance", "loader"}))
BY StaticDevicePath, VmvxDevicePath DEF CreateSampleDevice

\* create_module.
LEMMA ModulePath ==
  Path(CreateModule,
       Running({"instance", "loader", "device"}, {"instance", "loader"}),
       Running({"instance", "loader", "device", "module"}, {"instance", "loader", "device"}))
<1>1. Leads(Try("module", {"instance"}, {"module"}),
            Running({"instance", "loader", "device"}, {"instance", "loader"}),
            Running({"instance", "loader", "device", "module"}, {"instance", "loader", "device"}))
  BY TryLeads DEF Running
<1> QED BY <1>1, OneStep DEF CreateModule

\* The HAL modules of a build are among three.
LEMMA HalModulesAre ==
  ASSUME NEW build \in Builds
  PROVE  /\ build.hal \in {"full", "inline", "loader"}
         /\ HalModules(build) \subseteq {"hal_module", "hal_inline_module", "hal_loader_module"}
<1>1. build.hal \in {"full", "inline", "loader"}
  BY DEF Builds, VecBuilds, NetBuilds
<1> QED BY <1>1 DEF HalModules

\* The creation of the HAL modules of a build.
LEMMA HalModulesPath ==
  ASSUME NEW build \in Builds
  PROVE  Path(CreateHalModules(build),
              Running({"instance", "loader", "device", "module"}, {"instance", "loader", "device"}),
              Running({"instance", "loader", "device", "module"} \cup HalModules(build),
                      {"instance", "loader", "device", "module"} \cup HalModules(build)))
<1> DEFINE end == Running({"instance", "loader", "device", "module"} \cup HalModules(build),
                          {"instance", "loader", "device", "module"} \cup HalModules(build))
<1>1. CASE build.hal = "full"
  <2>1. HalModules(build) = {"hal_module"}
    BY <1>1 DEF HalModules
  <2>2. CreateHalModules(build) = <<Try("hal_module", {"instance", "device"}, {"hal_module"})>>
    BY <1>1 DEF CreateHalModules
  <2>3. Leads(Try("hal_module", {"instance", "device"}, {"hal_module"}),
              Running({"instance", "loader", "device", "module"}, {"instance", "loader", "device"}),
              end)
    BY <2>1, TryLeads DEF Running
  <2> QED BY <2>2, <2>3, OneStep
<1>2. CASE build.hal = "inline"
  <2>1. HalModules(build) = {"hal_inline_module"}
    BY <1>2 DEF HalModules
  <2>2. Leads(Try("hal_inline_module", {"instance", "device"}, {"hal_inline_module"}),
              Running({"instance", "loader", "device", "module"}, {"instance", "loader", "device"}),
              end)
    BY <2>1, TryLeads DEF Running
  <2>3. Path(<<Try("hal_inline_module", {"instance", "device"}, {"hal_inline_module"})>>,
             Running({"instance", "loader", "device", "module"}, {"instance", "loader", "device"}),
             end)
    BY <2>2, OneStep
  <2>4. Path(<<Try("hal_inline_module", {"instance", "device"}, {"hal_inline_module"})>> \o <<>>,
             Running({"instance", "loader", "device", "module"}, {"instance", "loader", "device"}),
             end)
    BY <2>3, NoSteps, PathConcat
  <2> QED BY <1>2, <2>4 DEF CreateHalModules
<1>3. CASE build.hal = "loader"
  <2>1. HalModules(build) = {"hal_inline_module", "hal_loader_module"}
    BY <1>3 DEF HalModules
  <2> DEFINE inline == Running({"instance", "loader", "device", "module", "hal_inline_module"},
                               {"instance", "loader", "device", "module"})
  <2>2. Leads(Try("hal_inline_module", {"instance", "device"}, {"hal_inline_module"}),
              Running({"instance", "loader", "device", "module"}, {"instance", "loader", "device"}),
              inline)
    BY TryLeads DEF Running
  <2>3. Leads(Try("hal_loader_module", {"instance", "loader"}, {"hal_loader_module"}), inline, end)
    BY <2>1, TryLeads DEF Running
  <2>4. Path(<<Try("hal_inline_module", {"instance", "device"}, {"hal_inline_module"})>>
             \o <<Try("hal_loader_module", {"instance", "loader"}, {"hal_loader_module"})>>,
             Running({"instance", "loader", "device", "module"}, {"instance", "loader", "device"}),
             end)
    BY <2>2, <2>3, OneStep, PathConcat
  <2> QED BY <1>3, <2>4 DEF CreateHalModules
<1> QED BY <1>1, <1>2, <1>3, HalModulesAre

\* The end of create_context: the loader, the modules and the context.
LEMMA ContextPath ==
  ASSUME NEW build \in Builds
  PROVE  Path(<<Release({"loader"}),
         Try("context", {"instance", "module"} \cup HalModules(build), {"context"}),
         Release(HalModules(build)),
         Release({"module"})>>,
         Running({"instance", "loader", "device", "module"} \cup HalModules(build),
                 {"instance", "loader", "device", "module"} \cup HalModules(build)),
         Running({"instance", "device", "context"}, {"instance", "device"}))
<1>1. Leads(Release({"loader"}),
            Running({"instance", "loader", "device", "module"} \cup HalModules(build),
                    {"instance", "loader", "device", "module"} \cup HalModules(build)),
            Running({"instance", "device", "module"} \cup HalModules(build),
                    {"instance", "device", "module"} \cup HalModules(build)))
  BY HalModulesAre, ReleaseLeads DEF Running
<1>2. Leads(Try("context", {"instance", "module"} \cup HalModules(build), {"context"}),
            Running({"instance", "device", "module"} \cup HalModules(build),
                    {"instance", "device", "module"} \cup HalModules(build)),
            Running({"instance", "device", "module", "context"} \cup HalModules(build),
                    {"instance", "device", "module"} \cup HalModules(build)))
  BY HalModulesAre, TryLeads DEF Running
<1>3. Leads(Release(HalModules(build)),
            Running({"instance", "device", "module", "context"} \cup HalModules(build),
                    {"instance", "device", "module"} \cup HalModules(build)),
            Running({"instance", "device", "module", "context"}, {"instance", "device", "module"}))
  BY HalModulesAre, ReleaseLeads DEF Running
<1>4. Leads(Release({"module"}),
            Running({"instance", "device", "module", "context"}, {"instance", "device", "module"}),
            Running({"instance", "device", "context"}, {"instance", "device"}))
  BY ReleaseLeads DEF Running
<1> QED BY <1>1, <1>2, <1>3, <1>4, FourSteps

\* create_context as a whole: only the instance and the device can be left when it fails.
LEMMA CreateContextPath ==
  ASSUME NEW build \in Builds
  PROVE  Path(CreateContext(build), Running({}, {}),
              Running({"instance", "device", "context"}, {"instance", "device"}))
BY FirstPath, DevicePath, ModulePath, HalModulesPath, ContextPath, PathConcat DEF CreateContext

-----------------------------------------------------------------------------
(* The inputs, the invocation, the outputs and the clean-up.               *)

\* Every sample has one output, the vectors two inputs and the networks one.
LEMMA Counts ==
  ASSUME NEW build \in Builds
  PROVE  /\ build.sample \in Vecs \cup Nets
         /\ NumOutput(build) = 1
         /\ build.sample \in Vecs => NumInput(build) = 2
         /\ build.sample \in Nets => NumInput(build) = 1
<1>1. build.sample \in Vecs \cup Nets
  BY DEF Builds, VecBuilds, NetBuilds
<1> QED
  BY <1>1 DEF Vecs, Nets, NumInput, NumOutput, KModel, Model, IntVec, FloatVec, Mnist,
              MobilenetFloat, MobilenetQuant

Created == {"instance", "device", "context"}
Views   == {"view1", "view2"}

Buffers(build) == IF build.sample \in Vecs THEN {"buffer1", "buffer2"} ELSE {}
Inputs(build)  == IF build.sample \in Vecs THEN Views ELSE {"view1"}

Prepared(build) ==
  Running(Created \cup Buffers(build) \cup Inputs(build), Created \cup Buffers(build) \cup Views)

\* What the run holds, and can hold after a failure, with the lists.
Listed(build)  == Created \cup Buffers(build) \cup {"inputs", "outputs"}
Kept(build)    == Listed(build) \cup Views

\* alloc_input_buffer for the first vector.
LEMMA AllocPath ==
  Path(<<Try("alloc", {}, {"buffer1"})>>,
       Running({"instance", "device", "context"}, {"instance", "device", "context"}),
       Running({"instance", "device", "context", "buffer1"}, {"instance", "device", "context"}))
<1>1. Leads(Try("alloc", {}, {"buffer1"}),
            Running({"instance", "device", "context"}, {"instance", "device", "context"}),
            Running({"instance", "device", "context", "buffer1"},
                    {"instance", "device", "context"}))
  BY TryLeads DEF Running
<1> QED BY <1>1, OneStep

\* alloc_input_buffer for the second vector.
LEMMA SecondAllocPath ==
  Path(<<Try("alloc", {}, {"buffer2"})>>,
       Running({"instance", "device", "context", "buffer1"}, {"instance", "device", "context"}),
       Running({"instance", "device", "context", "buffer1", "buffer2"},
               {"instance", "device", "context", "buffer1"}))
<1>1. Leads(Try("alloc", {}, {"buffer2"}),
            Running({"instance", "device", "context", "buffer1"},
                    {"instance", "device", "context"}),
            Running({"instance", "device", "context", "buffer1", "buffer2"},
                    {"instance", "device", "context", "buffer1"}))
  BY TryLeads DEF Running
<1> QED BY <1>1, OneStep

\* The span of the first vector.
LEMMA SpanPath ==
  Path(<<Malloc({"span1"})>>,
       Running({"instance", "device", "context", "buffer1", "buffer2"},
               {"instance", "device", "context", "buffer1"}),
       Running({"instance", "device", "context", "buffer1", "buffer2", "span1"},
               {"instance", "device", "context", "buffer1", "span1"}))
<1>1. Leads(Malloc({"span1"}),
            Running({"instance", "device", "context", "buffer1", "buffer2"},
                    {"instance", "device", "context", "buffer1"}),
            Running({"instance", "device", "context", "buffer1", "buffer2", "span1"},
                    {"instance", "device", "context", "buffer1", "span1"}))
  BY MallocLeads DEF Running
<1> QED BY <1>1, OneStep

\* The span of the second vector.
LEMMA SecondSpanPath ==
  Path(<<Malloc({"span2"})>>,
       Running({"instance", "device", "context", "buffer1", "buffer2", "span1"},
               {"instance", "device", "context", "buffer1", "span1"}),
       Running({"instance", "device", "context", "buffer1", "buffer2", "span1", "span2"},
               {"instance", "device", "context", "buffer1", "buffer2", "span1", "span2"}))
<1>1. Leads(Malloc({"span2"}),
            Running({"instance", "device", "context", "buffer1", "buffer2", "span1"},
                    {"instance", "device", "context", "buffer1", "span1"}),
            Running({"instance", "device", "context", "buffer1", "buffer2", "span1", "span2"},
                    {"instance", "device", "context", "buffer1", "buffer2", "span1", "span2"}))
  BY MallocLeads DEF Running
<1> QED BY <1>1, OneStep

\* The view of the first vector, and its span freed.
LEMMA ViewPath ==
  Path(<<Try("view", {"device", "span1"} \cup {"buffer1"}, {"view1"}),
         Release({"span1"})>>,
       Running({"instance", "device", "context", "buffer1", "buffer2", "span1", "span2"},
               {"instance", "device", "context", "buffer1", "buffer2", "span1", "span2"}),
       Running({"instance", "device", "context", "buffer1", "buffer2", "span2", "view1"},
               {"instance", "device", "context", "buffer1", "buffer2", "span2", "view1"}))
<1>1. Leads(Try("view", {"device", "span1"} \cup {"buffer1"}, {"view1"}),
            Running({"instance", "device", "context", "buffer1", "buffer2", "span1", "span2"},
                    {"instance", "device", "context", "buffer1", "buffer2", "span1", "span2"}),
            Running({"instance", "device", "context", "buffer1", "buffer2", "span1", "span2", "view1"},
                    {"instance", "device", "context", "buffer1", "buffer2", "span1", "span2"}))
  BY TryLeads DEF Running
<1>2. Leads(Release({"span1"}),
            Running({"instance", "device", "context", "buffer1", "buffer2", "span1", "span2", "view1"},
                    {"instance", "device", "context", "buffer1", "buffer2", "span1", "span2"}),
            Running({"instance", "device", "context", "buffer1", "buffer2", "span2", "view1"},
                    {"instance", "device", "context", "buffer1", "buffer2", "span2", "view1"}))
  BY ReleaseLeads DEF Running
<1> QED BY <1>1, <1>2, TwoSteps

\* The view of the second vector, and its span freed.
LEMMA SecondViewPath ==
  Path(<<Try("view", {"device", "span2"} \cup {"buffer2"}, {"view2"}),
         Release({"span2"})>>,
       Running({"instance", "device", "context", "buffer1", "buffer2", "span2", "view1"},
               {"instance", "device", "context", "buffer1", "buffer2", "span2", "view1"}),
       Running({"instance", "device", "context", "buffer1", "buffer2", "view1", "view2"},
               {"instance", "device", "context", "buffer1", "buffer2", "view1", "view2"}))
<1>1. Leads(Try("view", {"device", "span2"} \cup {"buffer2"}, {"view2"}),
            Running({"instance", "device", "context", "buffer1", "buffer2", "span2", "view1"},
                    {"instance", "device", "context", "buffer1", "buffer2", "span2", "view1"}),
            Running({"instance", "device", "context", "buffer1", "buffer2", "span2", "view1", "view2"},
                    {"instance", "device", "context", "buffer1", "buffer2", "span2", "view1"}))
  BY TryLeads DEF Running
<1>2. Leads(Release({"span2"}),
            Running({"instance", "device", "context", "buffer1", "buffer2", "span2", "view1", "view2"},
                    {"instance", "device", "context", "buffer1", "buffer2", "span2", "view1"}),
            Running({"instance", "device", "context", "buffer1", "buffer2", "view1", "view2"},
                    {"instance", "device", "context", "buffer1", "buffer2", "view1", "view2"}))
  BY ReleaseLeads DEF Running
<1> QED BY <1>1, <1>2, TwoSteps

\* The span of a network's input.
LEMMA NetSpanPath ==
  Path(<<Malloc({"span1"})>>,
       Running({"instance", "device", "context"}, {"instance", "device", "context"}),
       Running({"instance", "device", "context", "span1"},
               {"instance", "device", "context", "span1"}))
<1>1. Leads(Malloc({"span1"}),
            Running({"instance", "device", "context"}, {"instance", "device", "context"}),
            Running({"instance", "device", "context", "span1"},
                    {"instance", "device", "context", "span1"}))
  BY MallocLeads DEF Running
<1> QED BY <1>1, OneStep

\* The view of a network's input, and its span freed.
LEMMA NetViewPath ==
  Path(<<Try("view", {"device", "span1"} \cup {}, {"view1"}),
         Release({"span1"})>>,
       Running({"instance", "device", "context", "span1"},
               {"instance", "device", "context", "span1"}),
       Running({"instance", "device", "context", "view1"},
               {"instance", "device", "context", "view1", "view2"}))
<1>1. Leads(Try("view", {"device", "span1"} \cup {}, {"view1"}),
            Running({"instance", "device", "context", "span1"},
                    {"instance", "device", "context", "span1"}),
            Running({"instance", "device", "context", "span1", "view1"},
                    {"instance", "device", "context", "span1"}))
  BY TryLeads DEF Running
<1>2. Leads(Release({"span1"}),
            Running({"instance", "device", "context", "span1", "view1"},
                    {"instance", "device", "context", "span1"}),
            Running({"instance", "device", "context", "view1"},
                    {"instance", "device", "context", "view1", "view2"}))
  BY ReleaseLeads DEF Running
<1> QED BY <1>1, <1>2, TwoSteps

\* prepare_input_hal_buffer_views of every build.
LEMMA PreparePath ==
  ASSUME NEW build \in Builds
  PROVE  Path(PrepareInputs(build),
              Running({"instance", "device", "context"}, {"instance", "device", "context"}),
              Prepared(build))
<1>1. CASE build.sample \in Vecs
  <2>1. NumInput(build) = 2
    BY <1>1, Counts
  <2>2. AllocInputBuffer(build) = <<Try("alloc", {}, {"buffer1"})>> \o <<Try("alloc", {}, {"buffer2"})>>
    BY <2>1 DEF AllocInputBuffer, ForEach, Buffer
  <2>3. Path(AllocInputBuffer(build),
             Running({"instance", "device", "context"}, {"instance", "device", "context"}),
             Running({"instance", "device", "context", "buffer1", "buffer2"},
                     {"instance", "device", "context", "buffer1"}))
    BY <2>2, AllocPath, SecondAllocPath, PathConcat
  <2>4. LoadInputData(build) = AllocInputBuffer(build) \o (<<Malloc({"span1"})>> \o <<Malloc({"span2"})>>)
    <3>1. LoadInputData(build) = AllocInputBuffer(build)
                                 \o ForEach(NumInput(build), [i \in 1..2 |-> <<Malloc({Span[i]})>>])
      BY <1>1 DEF LoadInputData, VecLoadInputData
    <3>2. ForEach(2, [i \in 1..2 |-> <<Malloc({Span[i]})>>])
            = <<Malloc({"span1"})>> \o <<Malloc({"span2"})>>
      BY DEF ForEach, Span
    <3> QED BY <2>1, <3>1, <3>2
  <2>5. Path(LoadInputData(build),
             Running({"instance", "device", "context"}, {"instance", "device", "context"}),
             Running({"instance", "device", "context", "buffer1", "buffer2", "span1", "span2"},
                     {"instance", "device", "context", "buffer1", "buffer2", "span1", "span2"}))
    BY <2>3, <2>4, SpanPath, SecondSpanPath, PathConcat
  <2>6. PrepareInputs(build) =
          LoadInputData(build)
          \o (<<Try("view", {"device", "span1"} \cup {"buffer1"}, {"view1"}),
                Release({"span1"})>>
              \o <<Try("view", {"device", "span2"} \cup {"buffer2"}, {"view2"}),
                   Release({"span2"})>>)
    <3> DEFINE body == [i \in 1..2 |->
                 <<Try("view", {"device", Span[i]} \cup (IF build.sample \in Vecs THEN {Buffer[i]} ELSE {}),
                       {View[i]}),
                   Release({Span[i]})>>]
    <3>1. PrepareInputs(build) = LoadInputData(build) \o ForEach(2, body)
      BY <2>1 DEF PrepareInputs
    <3>2. body[1] = <<Try("view", {"device", "span1"} \cup {"buffer1"}, {"view1"}), Release({"span1"})>>
      BY <1>1 DEF Span, Buffer, View
    <3>3. body[2] = <<Try("view", {"device", "span2"} \cup {"buffer2"}, {"view2"}), Release({"span2"})>>
      BY <1>1 DEF Span, Buffer, View
    <3> HIDE DEF body
    <3> QED BY <3>1, <3>2, <3>3 DEF ForEach
  <2>7. Path(PrepareInputs(build),
             Running({"instance", "device", "context"}, {"instance", "device", "context"}),
             Running({"instance", "device", "context", "buffer1", "buffer2", "view1", "view2"},
                     {"instance", "device", "context", "buffer1", "buffer2", "view1", "view2"}))
    BY <2>5, <2>6, ViewPath, SecondViewPath, PathConcat
  <2>8. Prepared(build) =
          Running({"instance", "device", "context", "buffer1", "buffer2", "view1", "view2"},
                  {"instance", "device", "context", "buffer1", "buffer2", "view1", "view2"})
    <3>1. Created \cup Buffers(build) \cup Views = {"instance", "device", "context", "buffer1", "buffer2", "view1", "view2"}
      BY <1>1 DEF Created, Buffers, Views
    <3> QED BY <1>1, <3>1 DEF Prepared, Inputs
  <2> QED BY <2>7, <2>8
<1>2. CASE build.sample \in Nets
  <2>1. NumInput(build) = 1 /\ build.sample \notin Vecs
    BY <1>2, Counts DEF Vecs, Nets
  <2>2. LoadInputData(build) = <<Malloc({"span1"})>>
    BY <2>1 DEF LoadInputData, NetLoadInputData, Span
  <2>3. PrepareInputs(build) =
          LoadInputData(build)
          \o <<Try("view", {"device", "span1"} \cup {}, {"view1"}), Release({"span1"})>>
    <3> DEFINE body == [i \in 1..2 |->
                 <<Try("view", {"device", Span[i]} \cup (IF build.sample \in Vecs THEN {Buffer[i]} ELSE {}),
                       {View[i]}),
                   Release({Span[i]})>>]
    <3>1. PrepareInputs(build) = LoadInputData(build) \o ForEach(1, body)
      BY <2>1 DEF PrepareInputs
    <3>2. body[1] = <<Try("view", {"device", "span1"} \cup {}, {"view1"}), Release({"span1"})>>
      BY <2>1 DEF Span, Buffer, View
    <3> HIDE DEF body
    <3> QED BY <3>1, <3>2 DEF ForEach
  <2>4. Path(PrepareInputs(build),
             Running({"instance", "device", "context"}, {"instance", "device", "context"}),
             Running({"instance", "device", "context", "view1"},
                     {"instance", "device", "context", "view1", "view2"}))
    BY <2>2, <2>3, NetSpanPath, NetViewPath, PathConcat
  <2>5. Prepared(build) = Running({"instance", "device", "context", "view1"},
                                  {"instance", "device", "context", "view1", "view2"})
    <3>1. /\ Created \cup Buffers(build) \cup Inputs(build) = {"instance", "device", "context", "view1"}
          /\ Created \cup Buffers(build) \cup Views = {"instance", "device", "context", "view1", "view2"}
      BY <2>1 DEF Created, Buffers, Inputs, Views
    <3> QED BY <3>1 DEF Prepared
  <2> QED BY <2>4, <2>5
<1> QED BY <1>1, <1>2, Counts

\* The list of inputs of a vector sample.
LEMMA VecListPath ==
  Path(<<Try("list", {}, {"inputs"})>>,
       Running({"instance", "device", "context", "buffer1", "buffer2", "view1", "view2"},
               {"instance", "device", "context", "buffer1", "buffer2", "view1", "view2"}),
       Running({"instance", "device", "context", "buffer1", "buffer2", "view1", "view2", "inputs"},
               {"instance", "device", "context", "buffer1", "buffer2", "view1", "view2"}))
<1>1. Leads(Try("list", {}, {"inputs"}),
            Running({"instance", "device", "context", "buffer1", "buffer2", "view1", "view2"},
                    {"instance", "device", "context", "buffer1", "buffer2", "view1", "view2"}),
            Running({"instance", "device", "context", "buffer1", "buffer2", "view1", "view2", "inputs"},
                    {"instance", "device", "context", "buffer1", "buffer2", "view1", "view2"}))
  BY TryLeads DEF Running
<1> QED BY <1>1, OneStep

\* Its first view moves into the list.
LEMMA VecPushPath ==
  Path(<<Push("view1")>>,
       Running({"instance", "device", "context", "buffer1", "buffer2", "view1", "view2", "inputs"},
               {"instance", "device", "context", "buffer1", "buffer2", "view1", "view2"}),
       Running({"instance", "device", "context", "buffer1", "buffer2", "view2", "inputs"},
               {"instance", "device", "context", "buffer1", "buffer2", "view1", "view2", "inputs"}))
<1>1. Leads(Push("view1"),
            Running({"instance", "device", "context", "buffer1", "buffer2", "view1", "view2", "inputs"},
                    {"instance", "device", "context", "buffer1", "buffer2", "view1", "view2"}),
            Running({"instance", "device", "context", "buffer1", "buffer2", "view2", "inputs"},
                    {"instance", "device", "context", "buffer1", "buffer2", "view1", "view2", "inputs"}))
  BY PushLeads DEF Running
<1> QED BY <1>1, OneStep

\* Its second view moves into the list.
LEMMA VecSecondPushPath ==
  Path(<<Push("view2")>>,
       Running({"instance", "device", "context", "buffer1", "buffer2", "view2", "inputs"},
               {"instance", "device", "context", "buffer1", "buffer2", "view1", "view2", "inputs"}),
       Running({"instance", "device", "context", "buffer1", "buffer2", "inputs"},
               {"instance", "device", "context", "buffer1", "buffer2", "view1", "view2", "inputs"}))
<1>1. Leads(Push("view2"),
            Running({"instance", "device", "context", "buffer1", "buffer2", "view2", "inputs"},
                    {"instance", "device", "context", "buffer1", "buffer2", "view1", "view2", "inputs"}),
            Running({"instance", "device", "context", "buffer1", "buffer2", "inputs"},
                    {"instance", "device", "context", "buffer1", "buffer2", "view1", "view2", "inputs"}))
  BY PushLeads DEF Running
<1> QED BY <1>1, OneStep

\* The list of outputs and the invocation of a vector sample.
LEMMA VecInvokePath ==
  Path(<<Try("list", {}, {"outputs"}),
         Try("invoke", {"context", "inputs", "outputs"}, {})>>,
       Running({"instance", "device", "context", "buffer1", "buffer2", "inputs"},
               {"instance", "device", "context", "buffer1", "buffer2", "view1", "view2", "inputs"}),
       Mark({"instance", "device", "context", "buffer1", "buffer2", "inputs", "outputs"},
                 {"instance", "device", "context", "buffer1", "buffer2", "view1", "view2", "inputs", "outputs"}, "computed"))
<1>1. Leads(Try("list", {}, {"outputs"}),
            Running({"instance", "device", "context", "buffer1", "buffer2", "inputs"},
                    {"instance", "device", "context", "buffer1", "buffer2", "view1", "view2", "inputs"}),
            Running({"instance", "device", "context", "buffer1", "buffer2", "inputs", "outputs"},
                    {"instance", "device", "context", "buffer1", "buffer2", "view1", "view2", "inputs"}))
  BY TryLeads DEF Running
<1>2. Leads(Try("invoke", {"context", "inputs", "outputs"}, {}),
            Running({"instance", "device", "context", "buffer1", "buffer2", "inputs", "outputs"},
                    {"instance", "device", "context", "buffer1", "buffer2", "view1", "view2", "inputs"}),
            Mark({"instance", "device", "context", "buffer1", "buffer2", "inputs", "outputs"},
                 {"instance", "device", "context", "buffer1", "buffer2", "view1", "view2", "inputs", "outputs"}, "computed"))
  BY InvokeLeads DEF Running
<1> QED BY <1>1, <1>2, TwoSteps

\* The list of inputs of a network.
LEMMA NetListPath ==
  Path(<<Try("list", {}, {"inputs"})>>,
       Running({"instance", "device", "context", "view1"},
               {"instance", "device", "context", "view1", "view2"}),
       Running({"instance", "device", "context", "view1", "inputs"},
               {"instance", "device", "context", "view1", "view2"}))
<1>1. Leads(Try("list", {}, {"inputs"}),
            Running({"instance", "device", "context", "view1"},
                    {"instance", "device", "context", "view1", "view2"}),
            Running({"instance", "device", "context", "view1", "inputs"},
                    {"instance", "device", "context", "view1", "view2"}))
  BY TryLeads DEF Running
<1> QED BY <1>1, OneStep

\* Its view moves into the list.
LEMMA NetPushPath ==
  Path(<<Push("view1")>>,
       Running({"instance", "device", "context", "view1", "inputs"},
               {"instance", "device", "context", "view1", "view2"}),
       Running({"instance", "device", "context", "inputs"},
               {"instance", "device", "context", "view1", "view2", "inputs"}))
<1>1. Leads(Push("view1"),
            Running({"instance", "device", "context", "view1", "inputs"},
                    {"instance", "device", "context", "view1", "view2"}),
            Running({"instance", "device", "context", "inputs"},
                    {"instance", "device", "context", "view1", "view2", "inputs"}))
  BY PushLeads DEF Running
<1> QED BY <1>1, OneStep

\* The list of outputs and the invocation of a network.
LEMMA NetInvokePath ==
  Path(<<Try("list", {}, {"outputs"}),
         Try("invoke", {"context", "inputs", "outputs"}, {})>>,
       Running({"instance", "device", "context", "inputs"},
               {"instance", "device", "context", "view1", "view2", "inputs"}),
       Mark({"instance", "device", "context", "inputs", "outputs"},
                 {"instance", "device", "context", "view1", "view2", "inputs", "outputs"}, "computed"))
<1>1. Leads(Try("list", {}, {"outputs"}),
            Running({"instance", "device", "context", "inputs"},
                    {"instance", "device", "context", "view1", "view2", "inputs"}),
            Running({"instance", "device", "context", "inputs", "outputs"},
                    {"instance", "device", "context", "view1", "view2", "inputs"}))
  BY TryLeads DEF Running
<1>2. Leads(Try("invoke", {"context", "inputs", "outputs"}, {}),
            Running({"instance", "device", "context", "inputs", "outputs"},
                    {"instance", "device", "context", "view1", "view2", "inputs"}),
            Mark({"instance", "device", "context", "inputs", "outputs"},
                 {"instance", "device", "context", "view1", "view2", "inputs", "outputs"}, "computed"))
  BY InvokeLeads DEF Running
<1> QED BY <1>1, <1>2, TwoSteps

\* The marks around the invocation, for a vector sample.
LEMMA MarksOfVec ==
  ASSUME NEW build \in Builds, build.sample \in Vecs
  PROVE  /\ Prepared(build) = Running({"instance", "device", "context", "buffer1", "buffer2", "view1", "view2"},
                                      {"instance", "device", "context", "buffer1", "buffer2", "view1", "view2"})
         /\ Listed(build) = {"instance", "device", "context", "buffer1", "buffer2", "inputs", "outputs"}
         /\ Kept(build) = {"instance", "device", "context", "buffer1", "buffer2", "view1", "view2", "inputs", "outputs"}
<1>1. Created \cup Buffers(build) \cup Views = {"instance", "device", "context", "buffer1", "buffer2", "view1", "view2"}
  BY DEF Created, Buffers, Views
<1>2. Prepared(build) = Running({"instance", "device", "context", "buffer1", "buffer2", "view1", "view2"},
                                {"instance", "device", "context", "buffer1", "buffer2", "view1", "view2"})
  BY <1>1 DEF Prepared, Inputs
<1>3. Listed(build) = {"instance", "device", "context", "buffer1", "buffer2", "inputs", "outputs"}
  BY DEF Listed, Created, Buffers
<1>4. Kept(build) = {"instance", "device", "context", "buffer1", "buffer2", "view1", "view2", "inputs", "outputs"}
  BY <1>3 DEF Kept, Views
<1> QED BY <1>2, <1>3, <1>4

\* The marks around the invocation, for a network.
LEMMA MarksOfNet ==
  ASSUME NEW build \in Builds, build.sample \in Nets
  PROVE  /\ build.sample \notin Vecs
         /\ Prepared(build) = Running({"instance", "device", "context", "view1"},
                                      {"instance", "device", "context", "view1", "view2"})
         /\ Listed(build) = {"instance", "device", "context", "inputs", "outputs"}
         /\ Kept(build) = {"instance", "device", "context", "view1", "view2", "inputs", "outputs"}
<1>1. build.sample \notin Vecs
  BY DEF Vecs, Nets
<1>2. Prepared(build) = Running({"instance", "device", "context", "view1"},
                                {"instance", "device", "context", "view1", "view2"})
  <2>1. /\ Created \cup Buffers(build) \cup Inputs(build) = {"instance", "device", "context", "view1"}
        /\ Created \cup Buffers(build) \cup Views = {"instance", "device", "context", "view1", "view2"}
    BY <1>1 DEF Created, Buffers, Inputs, Views
  <2> QED BY <2>1 DEF Prepared
<1>3. Listed(build) = {"instance", "device", "context", "inputs", "outputs"}
  BY <1>1 DEF Listed, Created, Buffers
<1>4. Kept(build) = {"instance", "device", "context", "view1", "view2", "inputs", "outputs"}
  BY <1>3 DEF Kept, Views
<1> QED BY <1>1, <1>2, <1>3, <1>4

\* From the inputs prepared to the outputs computed, for every build.
LEMMA InvokePath ==
  ASSUME NEW build \in Builds
  PROVE  Path(Invoke(build), Prepared(build), Mark(Listed(build), Kept(build), "computed"))
<1> DEFINE body  == [i \in 1..2 |-> <<Push(View[i])>>]
           start == <<Try("list", {}, {"inputs"})>>
           end   == <<Try("list", {}, {"outputs"}),
                      Try("invoke", {"context", "inputs", "outputs"}, {})>>
<1>1. Invoke(build) = (start \o ForEach(NumInput(build), body)) \o end
  BY DEF Invoke
<1>2. body[1] = <<Push("view1")>> /\ body[2] = <<Push("view2")>>
  BY DEF View
<1>3. CASE build.sample \in Vecs
  <2>1. ForEach(NumInput(build), body) = <<Push("view1")>> \o <<Push("view2")>>
    <3> HIDE DEF body
    <3> QED BY <1>2, <1>3, Counts DEF ForEach
  <2>2. Path(start \o (<<Push("view1")>> \o <<Push("view2")>>),
             Running({"instance", "device", "context", "buffer1", "buffer2", "view1", "view2"},
                     {"instance", "device", "context", "buffer1", "buffer2", "view1", "view2"}),
             Running({"instance", "device", "context", "buffer1", "buffer2", "inputs"},
                     {"instance", "device", "context", "buffer1", "buffer2", "view1", "view2", "inputs"}))
    BY VecListPath, VecPushPath, VecSecondPushPath, PathConcat
  <2>3. Path((start \o (<<Push("view1")>> \o <<Push("view2")>>)) \o end,
             Running({"instance", "device", "context", "buffer1", "buffer2", "view1", "view2"},
                     {"instance", "device", "context", "buffer1", "buffer2", "view1", "view2"}),
             Mark({"instance", "device", "context", "buffer1", "buffer2", "inputs", "outputs"},
                 {"instance", "device", "context", "buffer1", "buffer2", "view1", "view2", "inputs", "outputs"}, "computed"))
    BY <2>2, VecInvokePath, PathConcat
  <2> QED BY <1>1, <1>3, <2>1, <2>3, MarksOfVec
<1>4. CASE build.sample \in Nets
  <2>1. ForEach(NumInput(build), body) = <<Push("view1")>>
    <3> HIDE DEF body
    <3> QED BY <1>2, <1>4, Counts DEF ForEach
  <2>2. Path(start \o <<Push("view1")>>,
             Running({"instance", "device", "context", "view1"},
                     {"instance", "device", "context", "view1", "view2"}),
             Running({"instance", "device", "context", "inputs"},
                     {"instance", "device", "context", "view1", "view2", "inputs"}))
    BY NetListPath, NetPushPath, PathConcat
  <2>3. Path((start \o <<Push("view1")>>) \o end,
             Running({"instance", "device", "context", "view1"},
                     {"instance", "device", "context", "view1", "view2"}),
             Mark({"instance", "device", "context", "inputs", "outputs"},
                 {"instance", "device", "context", "view1", "view2", "inputs", "outputs"}, "computed"))
    BY <2>2, NetInvokePath, PathConcat
  <2> QED BY <1>1, <1>4, <2>1, <2>3, MarksOfNet
<1> QED BY <1>3, <1>4, Counts

\* The output is looked up and mapped.
LEMMA GatherPath ==
  ASSUME NEW build \in Builds
  PROVE  Path(GatherOutputs(build),
              Mark(Listed(build), Kept(build), "computed"),
              Mark(Listed(build) \cup {"mapping1"}, Kept(build) \cup {"mapping1"}, "computed"))
<1> DEFINE body == [i \in 1..2 |-> <<Try("lookup", {"outputs"}, {}),
                                    Try("map", {"outputs"}, {Mapping[i]}),
                                    Try("length", {Mapping[i]}, {})>>]
<1>1. GatherOutputs(build) = ForEach(1, body)
  BY Counts DEF GatherOutputs
<1>2. body[1] = <<Try("lookup", {"outputs"}, {}), Try("map", {"outputs"}, {"mapping1"}),
                  Try("length", {"mapping1"}, {})>>
  BY DEF Mapping
<1>3. GatherOutputs(build) = <<Try("lookup", {"outputs"}, {}), Try("map", {"outputs"}, {"mapping1"}),
                               Try("length", {"mapping1"}, {})>>
  <2> HIDE DEF body
  <2> QED BY <1>1, <1>2 DEF ForEach
<1>4. "outputs" \in Listed(build) /\ Listed(build) \subseteq Kept(build)
  BY DEF Listed, Kept
<1>5. Leads(Try("lookup", {"outputs"}, {}),
            Mark(Listed(build), Kept(build), "computed"),
            Mark(Listed(build), Kept(build), "computed"))
  BY <1>4, TryLeads
<1>6. Leads(Try("map", {"outputs"}, {"mapping1"}),
            Mark(Listed(build), Kept(build), "computed"),
            Mark(Listed(build) \cup {"mapping1"}, Kept(build), "computed"))
  BY <1>4, TryLeads
<1>7. Leads(Try("length", {"mapping1"}, {}),
            Mark(Listed(build) \cup {"mapping1"}, Kept(build), "computed"),
            Mark(Listed(build) \cup {"mapping1"}, Kept(build) \cup {"mapping1"}, "computed"))
  BY <1>4, TryLeads
<1> QED BY <1>3, <1>5, <1>6, <1>7, ThreeSteps

\* process_output sees the mapping.
LEMMA ProcessPath ==
  ASSUME NEW build \in Builds
  PROVE  Path(<<Process({Mapping[i] : i \in 1..NumOutput(build)})>>,
              Mark(Listed(build) \cup {"mapping1"}, Kept(build) \cup {"mapping1"}, "computed"),
              Mark(Listed(build) \cup {"mapping1"}, Kept(build) \cup {"mapping1"}, "answered"))
<1>1. {Mapping[i] : i \in 1..NumOutput(build)} = {"mapping1"}
  <2>1. 1..NumOutput(build) = {1}
    BY Counts
  <2> QED BY <2>1 DEF Mapping
<1>2. Leads(Process({"mapping1"}),
            Mark(Listed(build) \cup {"mapping1"}, Kept(build) \cup {"mapping1"}, "computed"),
            Mark(Listed(build) \cup {"mapping1"}, Kept(build) \cup {"mapping1"}, "answered"))
  BY ProcessLeads DEF Listed, Kept
<1> QED BY <1>1, <1>2, OneStep

\* The clean-up leaves nothing but the instance and, after a failure, the views.
LEMMA CleanUpPath ==
  ASSUME NEW build \in Builds
  PROVE  Path(CleanUp(build),
              Mark(Listed(build) \cup {"mapping1"}, Kept(build) \cup {"mapping1"}, "answered"),
              Mark({"instance"}, {"instance"} \cup Views, "answered"))
<1> DEFINE buffers == Buffers(build)
           unmap   == [i \in 1..2 |-> <<Unmap(Mapping[i])>>]
           free    == [i \in 1..2 |-> <<Release({Buffer[i]})>>]
           lists   == <<Release({"inputs"}), Release({"outputs"})>>
           last    == <<Release({"context"}), Unguarded("statistics", {"device"}), Release({"device"})>>
<1>1. CleanUp(build) = ((ForEach(1, unmap) \o lists) \o ForEach(NumInput(build), free)) \o last
  BY Counts DEF CleanUp
<1>2. ForEach(1, unmap) = <<Unmap("mapping1")>>
  <2>1. unmap[1] = <<Unmap("mapping1")>>
    BY DEF Mapping
  <2> HIDE DEF unmap
  <2> QED BY <2>1 DEF ForEach
<1>3. buffers \subseteq {"buffer1", "buffer2"}
  BY DEF Buffers
<1>4. Path(ForEach(1, unmap),
           Mark(Listed(build) \cup {"mapping1"}, Kept(build) \cup {"mapping1"}, "answered"),
           Mark(Listed(build), Kept(build), "answered"))
  <2>1. "mapping1" \notin Kept(build) /\ "mapping1" \notin Listed(build)
    BY <1>3 DEF Kept, Listed, Created, Views
  <2>2. /\ (Listed(build) \cup {"mapping1"}) \ {"mapping1"} = Listed(build)
        /\ (Kept(build) \cup {"mapping1"}) \ {"mapping1"} = Kept(build)
    BY <2>1
  <2> QED BY <1>2, <2>2, UnmapLeads, OneStep
<1>5. Path(lists,
           Mark(Listed(build), Kept(build), "answered"),
           Mark(Created \cup buffers, Created \cup buffers \cup Views, "answered"))
  <2> DEFINE between == Mark(Created \cup buffers \cup {"outputs"},
                             Created \cup buffers \cup Views \cup {"outputs"}, "answered")
  <2>1. Leads(Release({"inputs"}), Mark(Listed(build), Kept(build), "answered"), between)
    <3>1. Created \cup buffers \cup {"outputs"} = Listed(build) \ {"inputs"}
      BY <1>3 DEF Listed, Created
    <3>2. Kept(build) \ {"inputs"} \subseteq Created \cup buffers \cup Views \cup {"outputs"}
      BY DEF Kept, Listed
    <3> QED BY <3>1, <3>2, ReleaseLeads
  <2>2. Leads(Release({"outputs"}), between,
              Mark(Created \cup buffers, Created \cup buffers \cup Views, "answered"))
    <3>1. Created \cup buffers = (Created \cup buffers \cup {"outputs"}) \ {"outputs"}
      BY <1>3 DEF Created
    <3>2. "mapping1" \notin Created \cup buffers \cup Views \cup {"outputs"}
      BY <1>3 DEF Created, Views
    <3> QED BY <3>1, <3>2, ReleaseLeads
  <2> QED BY <2>1, <2>2, TwoSteps
<1>6. Path(ForEach(NumInput(build), free),
           Mark(Created \cup buffers, Created \cup buffers \cup Views, "answered"),
           Mark(Created, Created \cup Views, "answered"))
  <2>1. free[1] = <<Release({"buffer1"})>> /\ free[2] = <<Release({"buffer2"})>>
    BY DEF Buffer
  <2> HIDE DEF free
  <2>2. CASE build.sample \in Vecs
    <3>1. ForEach(NumInput(build), free) = <<Release({"buffer1"})>> \o <<Release({"buffer2"})>>
      BY <2>1, <2>2, Counts DEF ForEach
    <3>2. buffers = {"buffer1", "buffer2"}
      BY <2>2 DEF Buffers
    <3> DEFINE between == Mark(Created \cup {"buffer2"},
                               Created \cup {"buffer2"} \cup Views, "answered")
    <3>3. Path(<<Release({"buffer1"})>>,
               Mark(Created \cup buffers, Created \cup buffers \cup Views, "answered"), between)
      <4>1. Created \cup {"buffer2"} = (Created \cup buffers) \ {"buffer1"}
        BY <3>2 DEF Created
      <4>2. (Created \cup buffers \cup Views) \ {"buffer1"} \subseteq Created \cup {"buffer2"} \cup Views
        BY <3>2
      <4> QED BY <4>1, <4>2, ReleaseLeads, OneStep
    <3>4. Path(<<Release({"buffer2"})>>, between, Mark(Created, Created \cup Views, "answered"))
      <4>1. Created = (Created \cup {"buffer2"}) \ {"buffer2"}
        BY DEF Created
      <4> QED BY <4>1, ReleaseLeads, OneStep
    <3> QED BY <3>1, <3>3, <3>4, PathConcat
  <2>3. CASE build.sample \in Nets
    <3>1. ForEach(NumInput(build), free) = <<Release({"buffer1"})>>
      BY <2>1, <2>3, Counts DEF ForEach
    <3>2. buffers = {}
      BY <2>3, MarksOfNet DEF Buffers
    <3>3. Created = (Created \cup buffers) \ {"buffer1"}
      BY <3>2 DEF Created
    <3> QED BY <3>1, <3>2, <3>3, ReleaseLeads, OneStep
  <2> QED BY <2>2, <2>3, Counts
<1>7. Path(last,
           Mark(Created, Created \cup Views, "answered"),
           Mark({"instance"}, {"instance"} \cup Views, "answered"))
  <2> DEFINE between == Mark({"instance", "device"}, {"instance", "device"} \cup Views, "answered")
  <2>1. Leads(Release({"context"}), Mark(Created, Created \cup Views, "answered"), between)
    BY ReleaseLeads DEF Created
  <2>2. Leads(Unguarded("statistics", {"device"}), between, between)
    BY UnguardedLeads
  <2>3. Leads(Release({"device"}), between, Mark({"instance"}, {"instance"} \cup Views, "answered"))
    BY ReleaseLeads
  <2> HIDE DEF between
  <2> QED BY <2>1, <2>2, <2>3, ThreeSteps
<1> HIDE DEF buffers, unmap, free, lists, last
<1>8. Path(ForEach(1, unmap) \o lists,
           Mark(Listed(build) \cup {"mapping1"}, Kept(build) \cup {"mapping1"}, "answered"),
           Mark(Created \cup buffers, Created \cup buffers \cup Views, "answered"))
  BY <1>4, <1>5, PathConcat
<1>9. Path((ForEach(1, unmap) \o lists) \o ForEach(NumInput(build), free),
           Mark(Listed(build) \cup {"mapping1"}, Kept(build) \cup {"mapping1"}, "answered"),
           Mark(Created, Created \cup Views, "answered"))
  BY <1>6, <1>8, PathConcat
<1> QED BY <1>1, <1>7, <1>9, PathConcat

-----------------------------------------------------------------------------
(* The whole of run().                                                     *)

\* What follows the call of prepare_input_hal_buffer_views, its body first.
Rest(build) ==
  PrepareInputs(build)
  \o Invoke(build)
  \o GatherOutputs(build)
  \o <<Process({Mapping[i] : i \in 1..NumOutput(build)})>>
  \o CleanUp(build)

Context == Running({"instance", "device", "context"}, {"instance", "device"})
Resolved == Running({"instance", "device", "context"}, {"instance", "device", "context"})
Done     == Mark({"instance"}, {"instance"} \cup Views, "answered")

\* The places of the call and of the instruction it leads to after an error.
Called(build)  == Len(CreateContext(build)) + 2
Invoked(build) == Called(build) + 1 + Len(PrepareInputs(build))

\* m marks the code of the build.
MarksOf(m, build) ==
  /\ IsCode(Run(build))
  /\ Called(build) \in 1..Len(Run(build))
  /\ Invoked(build) \in 1..Len(Run(build))
  /\ \A k \in 1..Len(Run(build)) :
       IF k = Called(build)
       THEN Run(build)[k] = CallIfOk("prepare_inputs") /\ m[k] = Resolved /\ m[k + 1] = Resolved
       ELSE Leads(Run(build)[k], m[k], m[k + 1])
  /\ m[1] = Running({}, {})
  /\ m[Len(CreateContext(build)) + 1] = Context
  /\ m[Invoked(build)] = Prepared(build)
  /\ m[Len(Run(build)) + 1] = Done

\* Code in a row can be grouped either way.
LEMMA Regroup ==
  ASSUME NEW s, NEW t, NEW u, IsCode(s), IsCode(t), IsCode(u)
  PROVE  (s \o t) \o u = s \o (t \o u)
<1>1. PICK S, T, U : s \in Seq(S) /\ t \in Seq(T) /\ u \in Seq(U)
  BY DEF IsCode
<1> DEFINE V == S \cup T \cup U
<1>2. s \in Seq(V) /\ t \in Seq(V) /\ u \in Seq(V)
  BY <1>1
<1> HIDE DEF V
<1> QED BY <1>2, ConcatAssociative

\* The same for four pieces behind a first one.
LEMMA RegroupFour ==
  ASSUME NEW s, NEW t1, NEW t2, NEW t3, NEW t4,
         IsCode(s), IsCode(t1), IsCode(t2), IsCode(t3), IsCode(t4)
  PROVE  /\ IsCode(((t1 \o t2) \o t3) \o t4)
         /\ (((s \o t1) \o t2) \o t3) \o t4 = s \o (((t1 \o t2) \o t3) \o t4)
<1> DEFINE u2 == t1 \o t2
           u3 == u2 \o t3
           u4 == u3 \o t4
<1>1. IsCode(u2) /\ (s \o t1) \o t2 = s \o u2
  BY ConcatOfCode, Regroup
<1> HIDE DEF u2
<1>2. IsCode(u3) /\ (s \o u2) \o t3 = s \o u3
  BY <1>1, ConcatOfCode, Regroup
<1> HIDE DEF u3
<1>3. IsCode(u4) /\ (s \o u3) \o t4 = s \o u4
  BY <1>2, ConcatOfCode, Regroup
<1>4. (((s \o t1) \o t2) \o t3) \o t4 = s \o u4
  BY <1>1, <1>2, <1>3
<1> QED BY <1>3, <1>4 DEF u2, u3

\* What has a path is code.
LEMMA PathIsCode ==
  ASSUME NEW s, NEW p, NEW q, Path(s, p, q)
  PROVE  IsCode(s)
BY DEF Path, Marked

\* The lookup of the entry function.
LEMMA ResolvePath == Path(<<Try("resolve", {"context"}, {})>>, Context, Resolved)
<1>1. Leads(Try("resolve", {"context"}, {}), Context, Resolved)
  BY TryLeads DEF Context, Resolved, Running
<1> QED BY <1>1, OneStep

\* All that follows the call of prepare_inputs has marks, also at the place an
\* earlier failure skips to.
LEMMA RestIsMarked ==
  ASSUME NEW build \in Builds
  PROVE  \E m : /\ Marked(m, Rest(build))
                /\ m[1] = Resolved
                /\ m[Len(PrepareInputs(build)) + 1] = Prepared(build)
                /\ m[Len(Rest(build)) + 1] = Done
                /\ Len(PrepareInputs(build)) < Len(Rest(build))
<1> DEFINE prepare == PrepareInputs(build)
           invoke  == Invoke(build)
           gather  == GatherOutputs(build)
           process == <<Process({Mapping[i] : i \in 1..NumOutput(build)})>>
           clean   == CleanUp(build)
           after   == ((invoke \o gather) \o process) \o clean
           computed == Mark(Listed(build), Kept(build), "computed")
           mapped  == Mark(Listed(build) \cup {"mapping1"},
                           Kept(build) \cup {"mapping1"}, "computed")
           answered == Mark(Listed(build) \cup {"mapping1"},
                            Kept(build) \cup {"mapping1"}, "answered")
<1>1. /\ Path(prepare, Resolved, Prepared(build))
      /\ Path(invoke, Prepared(build), computed)
      /\ Path(gather, computed, mapped)
      /\ Path(process, mapped, answered)
      /\ Path(clean, answered, Done)
  BY PreparePath, InvokePath, GatherPath, ProcessPath, CleanUpPath DEF Resolved, Done
<1>2. Rest(build) = (((prepare \o invoke) \o gather) \o process) \o clean
  BY DEF Rest
<1>3. Len(process) = 1
  OBVIOUS
<1> HIDE DEF prepare, invoke, gather, process, clean, computed, mapped, answered
<1>4. IsCode(prepare) /\ IsCode(invoke) /\ IsCode(gather) /\ IsCode(process) /\ IsCode(clean)
  BY <1>1, PathIsCode
<1>5. Rest(build) = prepare \o after
  BY <1>2, <1>4, RegroupFour
<1>6. Path(after, Prepared(build), Done)
  BY <1>1, PathConcat
<1>7. Len(after) > 0
  <2>1. IsCode(invoke \o gather)
    BY <1>4, ConcatOfCode
  <2>2. /\ IsCode((invoke \o gather) \o process)
        /\ Len((invoke \o gather) \o process) = Len(invoke \o gather) + 1
    BY <1>3, <1>4, <2>1, ConcatOfCode
  <2>3. Len(after) = Len((invoke \o gather) \o process) + Len(clean)
    BY <1>4, <2>2, ConcatOfCode
  <2>4. Len(invoke \o gather) \in Nat /\ Len(clean) \in Nat
    BY <1>4, <2>1, LenOfCode
  <2> QED BY <2>2, <2>3, <2>4
<1> HIDE DEF after
<1>8. PICK n1 : Marked(n1, prepare) /\ n1[1] = Resolved /\ n1[Len(prepare) + 1] = Prepared(build)
  BY <1>1 DEF Path
<1>9. PICK n2 : Marked(n2, after) /\ n2[1] = Prepared(build) /\ n2[Len(after) + 1] = Done
  BY <1>6 DEF Path
<1> DEFINE m == Joined(n1, prepare, n2, after)
<1>10. /\ Marked(m, Rest(build))
       /\ m[1] = Resolved
       /\ m[Len(prepare) + 1] = Prepared(build)
       /\ m[Len(Rest(build)) + 1] = Done
  BY <1>5, <1>8, <1>9, JoinedIsMarked
<1>11. Len(prepare) < Len(Rest(build))
  <2>1. /\ Len(Rest(build)) = Len(prepare) + Len(after)
        /\ Len(prepare) \in Nat /\ Len(after) \in Nat
    BY <1>4, <1>5, <1>9, ConcatOfCode, LenOfCode DEF Marked
  <2> QED BY <1>7, <2>1
<1> QED BY <1>10, <1>11 DEF prepare

\* run() has marks in every build: those of its parts, with the two places that
\* CallIfOk leads to.
LEMMA RunIsMarked ==
  ASSUME NEW build \in Builds
  PROVE  \E m : MarksOf(m, build)
<1> DEFINE create  == CreateContext(build)
           resolve == <<Try("resolve", {"context"}, {})>>
           call    == <<CallIfOk("prepare_inputs")>>
           before  == create \o resolve
           called  == Called(build)
           code    == Run(build)
<1>1. PICK n1 : Marked(n1, create) /\ n1[1] = Running({}, {}) /\ n1[Len(create) + 1] = Context
  BY CreateContextPath DEF Path, Context
<1>2. PICK n2 : Marked(n2, resolve) /\ n2[1] = Context /\ n2[Len(resolve) + 1] = Resolved
  BY ResolvePath DEF Path
<1>3. PICK n3 : /\ Marked(n3, Rest(build))
                /\ n3[1] = Resolved
                /\ n3[Len(PrepareInputs(build)) + 1] = Prepared(build)
                /\ n3[Len(Rest(build)) + 1] = Done
                /\ Len(PrepareInputs(build)) < Len(Rest(build))
  BY RestIsMarked
<1>4. Len(resolve) = 1 /\ IsCode(call) /\ Len(call) = 1 /\ call[1] = CallIfOk("prepare_inputs")
  <2>1. call \in Seq({CallIfOk("prepare_inputs")})
    OBVIOUS
  <2> QED BY <2>1 DEF IsCode
<1>5. code = (before \o call) \o Rest(build)
  <2>1. code = ((((((before \o call) \o PrepareInputs(build)) \o Invoke(build)) \o GatherOutputs(build))
                 \o <<Process({Mapping[i] : i \in 1..NumOutput(build)})>>) \o CleanUp(build))
    BY DEF Run
  <2> DEFINE x  == before \o call
             p1 == PrepareInputs(build)
             p2 == Invoke(build)
             p3 == GatherOutputs(build)
             p4 == <<Process({Mapping[i] : i \in 1..NumOutput(build)})>>
             p5 == CleanUp(build)
  <2>2. IsCode(p1) /\ IsCode(p2) /\ IsCode(p3) /\ IsCode(p4) /\ IsCode(p5)
    <3>1. IsCode(p1)
      BY PreparePath, PathIsCode
    <3>2. IsCode(p2)
      BY InvokePath, PathIsCode
    <3>3. IsCode(p3)
      BY GatherPath, PathIsCode
    <3>4. IsCode(p4)
      BY ProcessPath, PathIsCode
    <3>5. IsCode(p5)
      BY CleanUpPath, PathIsCode
    <3> QED BY <3>1, <3>2, <3>3, <3>4, <3>5
  <2>3. IsCode(x)
    <3>1. IsCode(create) /\ IsCode(resolve)
      BY <1>1, <1>2 DEF Marked
    <3> HIDE DEF create, resolve, call
    <3>2. IsCode(before)
      BY <3>1, ConcatOfCode
    <3> QED BY <3>2, <1>4, ConcatOfCode
  <2>4. Rest(build) = (((p1 \o p2) \o p3) \o p4) \o p5
    BY DEF Rest
  <2>5. code = ((((x \o p1) \o p2) \o p3) \o p4) \o p5
    BY <2>1
  <2> HIDE DEF x, p1, p2, p3, p4, p5, code
  <2>6. ((((x \o p1) \o p2) \o p3) \o p4) \o p5 = x \o ((((p1 \o p2) \o p3) \o p4) \o p5)
    <3> DEFINE u == ((p1 \o p2) \o p3) \o p4
    <3>1. IsCode(u) /\ (((x \o p1) \o p2) \o p3) \o p4 = x \o u
      BY <2>2, <2>3, RegroupFour
    <3> HIDE DEF u
    <3>2. IsCode(x) /\ IsCode(u) /\ IsCode(p5)
      BY <2>2, <2>3, <3>1
    <3>3. (x \o u) \o p5 = x \o (u \o p5)
      BY <3>2, Regroup
    <3>4. ((((x \o p1) \o p2) \o p3) \o p4) \o p5 = x \o (u \o p5)
      BY <3>1, <3>3
    <3> QED BY <3>4 DEF u
  <2>7. code = x \o Rest(build)
    BY <2>4, <2>5, <2>6
  <2> QED BY <2>7 DEF x
<1> HIDE DEF create, resolve, call, code
<1>6. /\ IsCode(before) /\ Len(before) = Len(create) + 1 /\ Len(create) \in Nat
      /\ Marked(Joined(n1, create, n2, resolve), before)
      /\ Joined(n1, create, n2, resolve)[1] = Running({}, {})
      /\ Joined(n1, create, n2, resolve)[Len(create) + 1] = Context
      /\ Joined(n1, create, n2, resolve)[Len(before) + 1] = Resolved
  <2>1. IsCode(create) /\ IsCode(resolve)
    BY <1>1, <1>2 DEF Marked
  <2>2. IsCode(before) /\ Len(before) = Len(create) + Len(resolve) /\ Len(create) \in Nat
    BY <2>1, ConcatOfCode, LenOfCode
  <2>3. /\ Marked(Joined(n1, create, n2, resolve), before)
        /\ Joined(n1, create, n2, resolve)[1] = n1[1]
        /\ Joined(n1, create, n2, resolve)[Len(create) + 1] = n2[1]
        /\ Joined(n1, create, n2, resolve)[Len(create \o resolve) + 1] = n2[Len(resolve) + 1]
    BY <1>1, <1>2, JoinedIsMarked
  <2> QED BY <1>1, <1>2, <1>4, <2>2, <2>3
<1> DEFINE n12 == Joined(n1, create, n2, resolve)
           m   == [k \in 1..Len(code) + 1 |-> IF k <= called THEN n12[k] ELSE n3[k - called]]
<1> HIDE DEF before, n12
<1>7. /\ IsCode(code)
      /\ called = Len(create) + 2 /\ called = Len(before) + 1 /\ called \in Nat
      /\ Len(code) = called + Len(Rest(build))
      /\ Len(Rest(build)) \in Nat /\ Len(PrepareInputs(build)) \in Nat
      /\ \A k \in 1..called + Len(Rest(build)) :
           /\ k < called => code[k] = before[k]
           /\ k = called => code[k] = call[1]
           /\ k > called => code[k] = Rest(build)[k - called]
  <2>1. IsCode(Rest(build)) /\ IsCode(PrepareInputs(build))
    BY <1>3, PreparePath, PathIsCode DEF Marked
  <2>2. called = Len(create) + 2
    BY DEF Called, create
  <2>3. /\ IsCode(before \o call)
        /\ Len(before \o call) = Len(before) + 1
        /\ \A k \in 1..Len(before) + 1 :
             (before \o call)[k] = IF k <= Len(before) THEN before[k] ELSE call[k - Len(before)]
    <3>1. IsCode(before) /\ IsCode(call) /\ Len(call) = 1
      BY <1>4, <1>6
    <3>2. /\ IsCode(before \o call)
          /\ Len(before \o call) = Len(before) + Len(call)
          /\ \A k \in 1..Len(before) + Len(call) :
               (before \o call)[k] = IF k <= Len(before) THEN before[k] ELSE call[k - Len(before)]
      BY <3>1, ConcatOfCode
    <3> QED BY <3>1, <3>2
  <2>4. /\ IsCode(code)
        /\ Len(code) = Len(before \o call) + Len(Rest(build))
        /\ \A k \in 1..Len(before \o call) + Len(Rest(build)) :
             code[k] = IF k <= Len(before \o call) THEN (before \o call)[k]
                       ELSE Rest(build)[k - Len(before \o call)]
    BY <1>5, <2>1, <2>3, ConcatOfCode
  <2>5. /\ called = Len(before) + 1 /\ called \in Nat /\ Len(before \o call) = called
        /\ Len(Rest(build)) \in Nat /\ Len(PrepareInputs(build)) \in Nat
    BY <1>6, <2>1, <2>2, <2>3, LenOfCode
  <2> HIDE DEF called
  <2>6. ASSUME NEW k \in 1..called + Len(Rest(build))
        PROVE  /\ k < called => code[k] = before[k]
               /\ k = called => code[k] = call[1]
               /\ k > called => code[k] = Rest(build)[k - called]
    <3>1. code[k] = IF k <= called THEN (before \o call)[k] ELSE Rest(build)[k - called]
      BY <2>4, <2>5
    <3>2. ASSUME k <= called
          PROVE  (before \o call)[k] = IF k <= Len(before) THEN before[k] ELSE call[k - Len(before)]
      <4>1. k \in 1..Len(before) + 1
        BY <2>5, <3>2
      <4> QED BY <4>1, <2>3
    <3>3. CASE k < called
      <4>1. k <= called /\ k <= Len(before) /\ k # called /\ ~(k > called)
        BY <2>5, <3>3, <1>6
      <4>2. code[k] = before[k]
        BY <3>1, <3>2, <4>1
      <4> QED BY <4>1, <4>2
    <3>4. CASE k = called
      <4>1. k <= called /\ ~(k <= Len(before)) /\ k - Len(before) = 1 /\ ~(k < called) /\ ~(k > called)
        BY <2>5, <3>4, <1>6
      <4> QED BY <3>1, <3>2, <3>4, <4>1
    <3>5. CASE k > called
      <4>1. ~(k <= called) /\ ~(k < called) /\ k # called
        BY <2>5, <3>5
      <4> QED BY <3>1, <4>1
    <3> QED BY <2>5, <3>3, <3>4, <3>5
  <2> QED BY <2>2, <2>4, <2>5, <2>6
<1> HIDE DEF called
<1>8. /\ \A k \in 1..called : m[k] = n12[k]
      /\ \A k \in 1..Len(Rest(build)) + 1 : m[called + k] = n3[k]
  <2>1. ASSUME NEW k \in 1..called PROVE m[k] = n12[k]
    <3>1. k \in 1..Len(code) + 1 /\ k <= called
      BY <1>7, <2>1
    <3> QED BY <3>1
  <2>2. ASSUME NEW k \in 1..Len(Rest(build)) + 1 PROVE m[called + k] = n3[k]
    <3> DEFINE l == called + k
    <3>1. l \in 1..Len(code) + 1 /\ ~(l <= called) /\ l - called = k
      BY <1>7, <2>2
    <3> HIDE DEF l
    <3>2. m[l] = n3[l - called]
      BY <3>1
    <3> QED BY <3>1, <3>2 DEF l
  <2> QED BY <2>1, <2>2
<1> HIDE DEF m
<1>9. n12[called] = Resolved /\ n12[1] = Running({}, {}) /\ n12[Len(create) + 1] = Context
  BY <1>6, <1>7 DEF n12
<1>10. ASSUME NEW k \in 1..Len(code)
       PROVE  IF k = called
              THEN code[k] = CallIfOk("prepare_inputs") /\ m[k] = Resolved /\ m[k + 1] = Resolved
              ELSE Leads(code[k], m[k], m[k + 1])
  <2>1. CASE k < called
    <3>1. k \in 1..Len(before) /\ k \in 1..called /\ k + 1 \in 1..called /\ k # called
      BY <1>6, <1>7, <2>1
    <3>2. code[k] = before[k]
      BY <1>7, <2>1
    <3>3. Leads(before[k], n12[k], n12[k + 1])
      BY <1>6, <3>1 DEF Marked, n12
    <3> QED BY <1>8, <3>1, <3>2, <3>3
  <2>2. CASE k = called
    <3>1. called \in 1..called /\ 1 \in 1..Len(Rest(build)) + 1
      BY <1>6, <1>7
    <3>2. m[k] = Resolved
      BY <1>8, <1>9, <2>2, <3>1
    <3>3. m[k + 1] = Resolved
      BY <1>3, <1>8, <2>2, <3>1
    <3>4. code[k] = CallIfOk("prepare_inputs")
      BY <1>4, <1>7, <2>2
    <3> QED BY <2>2, <3>2, <3>3, <3>4
  <2>3. CASE k > called
    <3> DEFINE l == k - called
    <3>1. /\ l \in 1..Len(Rest(build)) /\ l \in 1..Len(Rest(build)) + 1
          /\ l + 1 \in 1..Len(Rest(build)) + 1
          /\ k = called + l /\ k + 1 = called + (l + 1) /\ k # called
      BY <1>7, <2>3
    <3>2. code[k] = Rest(build)[l]
      BY <1>7, <2>3
    <3> HIDE DEF l
    <3>3. Leads(Rest(build)[l], n3[l], n3[l + 1])
      BY <1>3, <3>1 DEF Marked
    <3>4. m[k] = n3[l] /\ m[k + 1] = n3[l + 1]
      BY <1>8, <3>1
    <3> QED BY <3>1, <3>2, <3>3, <3>4
  <2> QED BY <1>7, <2>1, <2>2, <2>3
<1>11. m[1] = Running({}, {}) /\ m[Len(create) + 1] = Context
  <2>1. 1 \in 1..called /\ Len(create) + 1 \in 1..called
    BY <1>6, <1>7
  <2> QED BY <1>8, <1>9, <2>1
<1>12. m[Len(code) + 1] = Done
  <2>1. Len(Rest(build)) + 1 \in 1..Len(Rest(build)) + 1 /\ Len(code) + 1 = called + (Len(Rest(build)) + 1)
    BY <1>7
  <2> QED BY <1>3, <1>8, <2>1
<1>13. Invoked(build) \in 1..Len(code) /\ m[Invoked(build)] = Prepared(build)
  <2>1. Invoked(build) = called + (Len(PrepareInputs(build)) + 1)
    BY <1>7 DEF Invoked, called
  <2>2. Len(PrepareInputs(build)) + 1 \in 1..Len(Rest(build)) + 1
    BY <1>3, <1>7
  <2>3. called + (Len(PrepareInputs(build)) + 1) \in 1..Len(code)
    BY <1>3, <1>7
  <2> QED BY <1>3, <1>8, <2>1, <2>2, <2>3
<1>14. called \in 1..Len(code)
  BY <1>6, <1>7
<1>15. MarksOf(m, build)
  BY <1>7, <1>10, <1>11, <1>12, <1>13, <1>14 DEF MarksOf, called, code, create
<1> QED BY <1>15

-----------------------------------------------------------------------------
(* The machine keeps to the marks of its build.                            *)

\* The code of the build that is linked.
LEMMA CodeIsRun ==
  ASSUME linked \in Builds
  PROVE  /\ Code = Run(linked)
         /\ [build |-> linked, code |-> Code] \in Programs
<1>1. [build |-> linked, code |-> Run(linked)] \in Programs
  BY DEF Programs
<1>2. \E p \in Programs : p.build = linked
  BY <1>1
<1> DEFINE chosen == CHOOSE p \in Programs : p.build = linked
<1>3. chosen \in Programs /\ chosen.build = linked
  BY <1>2
<1> HIDE DEF chosen
<1>4. chosen = [build |-> linked, code |-> Run(linked)]
  BY <1>3 DEF Programs
<1>5. Code = chosen.code
  BY DEF Code, chosen
<1> QED BY <1>1, <1>4, <1>5

Marking(build) == CHOOSE m : MarksOf(m, build)

\* The mark of the place reached.
Place == Marking(linked)[at]

\* The marks chosen for a build are marks of it.
LEMMA MarkingMarks ==
  ASSUME NEW build \in Builds
  PROVE  MarksOf(Marking(build), build)
BY RunIsMarked DEF Marking

InCode == linked \in Builds /\ at \in 0..Len(Run(linked)) + 1

\* The places that the marks speak of are in the code.
LEMMA LengthOfRun ==
  ASSUME NEW build \in Builds
  PROVE  /\ IsCode(Run(build))
         /\ Len(Run(build)) \in Nat
         /\ Len(CreateContext(build)) + 1 \in 1..Len(Run(build))
         /\ Called(build) \in 1..Len(Run(build))
         /\ Invoked(build) \in 1..Len(Run(build))
<1>1. IsCode(Run(build)) /\ Called(build) \in 1..Len(Run(build)) /\ Invoked(build) \in 1..Len(Run(build))
  BY MarkingMarks DEF MarksOf
<1>2. Len(Run(build)) \in Nat
  BY <1>1, LenOfCode
<1>3. Len(CreateContext(build)) \in Nat
  BY CreateContextPath, PathIsCode, LenOfCode
<1> QED BY <1>1, <1>2, <1>3 DEF Called

\* Every instruction but the call leads from its mark to the next.
LEMMA Instructed ==
  ASSUME InCode, ~Finished, Here.op # "call"
  PROVE  /\ at \in 1..Len(Run(linked))
         /\ Leads(Here, Marking(linked)[at], Marking(linked)[at + 1])
<1>1. Here = Run(linked)[at] /\ Len(Code) = Len(Run(linked))
  BY CodeIsRun DEF InCode, Here
<1>2. Len(Run(linked)) \in Nat
  BY LengthOfRun DEF InCode
<1>3. at \in 1..Len(Run(linked))
  BY <1>1, <1>2 DEF InCode, Finished, Returned
<1>4. MarksOf(Marking(linked), linked)
  BY MarkingMarks DEF InCode
<1>5. at # Called(linked)
  <2> SUFFICES ASSUME at = Called(linked) PROVE FALSE
    OBVIOUS
  <2>1. Here = CallIfOk("prepare_inputs")
    BY <1>1, <1>3, <1>4 DEF MarksOf
  <2> QED BY <2>1 DEF CallIfOk, Instruction
<1> QED BY <1>1, <1>3, <1>4, <1>5 DEF MarksOf

\* Every instruction of the code is of one of the known kinds.
LEMMA OpsOfCode ==
  ASSUME InCode, ~Finished
  PROVE  Here.op \in Ops \cup {"call"}
BY Instructed DEF Leads

\* The call is where it is expected, and both places it leads to are marked.
LEMMA CallPlace ==
  ASSUME InCode, ~Finished, Here.op = "call"
  PROVE  /\ at = Called(linked)
         /\ Marking(linked)[at] = Resolved
         /\ Marking(linked)[at + 1] = Resolved
         /\ Marking(linked)[Invoked(linked)] = Prepared(linked)
<1>1. Here = Run(linked)[at] /\ Len(Code) = Len(Run(linked))
  BY CodeIsRun DEF InCode, Here
<1>2. Len(Run(linked)) \in Nat
  BY LengthOfRun DEF InCode
<1>3. at \in 1..Len(Run(linked))
  BY <1>1, <1>2 DEF InCode, Finished, Returned
<1>4. MarksOf(Marking(linked), linked)
  BY MarkingMarks DEF InCode
<1>5. at = Called(linked)
  <2> SUFFICES ASSUME at # Called(linked) PROVE FALSE
    OBVIOUS
  <2>1. Leads(Here, Marking(linked)[at], Marking(linked)[at + 1])
    BY <1>1, <1>3, <1>4 DEF MarksOf
  <2> QED BY <2>1 DEF Leads, Ops
<1> QED BY <1>3, <1>4, <1>5 DEF MarksOf

\* While nothing has failed exactly what the mark says is held, afterwards
\* nothing that the mark does not foresee.
KeepsToMarks ==
  at # 0 =>
    /\ status = "ok" => held = Place.ok
    /\ status # "ok" => held \subseteq Place.failed

\* The list of outputs outlives the mapping.
MappedInList == "mapping1" \in held => "outputs" \in held

HeldInv == InCode /\ KeepsToMarks /\ MappedInList

\* A start holds nothing.
LEMMA HeldInit ==
  ASSUME Init
  PROVE  HeldInv
<1>1. linked \in Builds /\ at = 1 /\ held = {} /\ status = "ok"
  BY DEF Init
<1>2. Marking(linked)[1] = Running({}, {})
  BY <1>1, MarkingMarks DEF MarksOf
<1>3. Len(Run(linked)) \in Nat
  BY <1>1, LengthOfRun
<1> QED BY <1>1, <1>2, <1>3 DEF HeldInv, InCode, KeepsToMarks, MappedInList, Place, Running, Mark

\* What an instruction other than the call does to what is held.
LEMMA HeldMoves ==
  ASSUME HeldInv, ~Finished, Here.op # "call", linked' = linked, at' = at + 1,
         \/ /\ status = "ok" /\ status' = "ok"
            /\ held' = After(Here, held)
            /\ Here.op \in {"try", "process"} => Here.uses \subseteq held
         \/ /\ status = "ok" /\ status' # "ok"
            /\ held' = held
            /\ Here.op \in {"try", "process"}
         \/ /\ status # "ok" /\ status' = status
            /\ held' = held
            /\ Here.op \notin {"malloc", "release"}
         \/ /\ status # "ok" /\ status' = status
            /\ held' = After(Here, held)
            /\ Here.op \in {"malloc", "release"}
  PROVE  HeldInv'
<1> DEFINE p == Marking(linked)[at]
           q == Marking(linked)[at + 1]
<1>1. at \in 1..Len(Run(linked)) /\ Leads(Here, p, q) /\ Len(Run(linked)) \in Nat
  BY Instructed, LengthOfRun DEF HeldInv, InCode
<1>2. InCode'
  BY <1>1 DEF HeldInv, InCode
<1>3. at # 0 /\ at' # 0 /\ Place = p /\ Place' = q
  BY <1>1 DEF Place
<1>4. IF status = "ok" THEN held = p.ok ELSE held \subseteq p.failed
  BY <1>3 DEF HeldInv, KeepsToMarks
<1> HIDE DEF p, q
<1>5. /\ LeadsOk(Here, p, q) /\ LeadsFailed(Here, p, q) /\ LeadsMapped(Here, p)
  BY <1>1 DEF Leads
<1>6. IF status' = "ok" THEN held' = q.ok ELSE held' \subseteq q.failed
  BY <1>4, <1>5 DEF LeadsOk, LeadsFailed, After
<1>7. KeepsToMarks'
  BY <1>3, <1>6 DEF KeepsToMarks
<1>8. MappedInList'
  BY <1>4, <1>5 DEF HeldInv, MappedInList, LeadsMapped, After
<1> QED BY <1>2, <1>7, <1>8 DEF HeldInv

\* An early return of create_context finds the instance, and nothing else.
LEMMA AtRequire ==
  ASSUME HeldInv, AtOp("require"), Here.uses \subseteq held
  PROVE  status = "ok" /\ held = {"instance"} /\ Here.gets = {} /\ Here.frees = {}
<1>1. Here.op = "require" /\ ~Finished
  BY DEF AtOp
<1>2. at \in 1..Len(Run(linked)) /\ Leads(Here, Place, Marking(linked)[at + 1])
  BY <1>1, Instructed DEF HeldInv, Place
<1>3. at # 0
  BY <1>2
<1> QED BY <1>1, <1>2, <1>3 DEF HeldInv, KeepsToMarks, Leads, LeadsRequired, WellFormed

\* Every step keeps to the marks.
LEMMA HeldStep ==
  ASSUME HeldInv, [Next]_vars
  PROVE  HeldInv'
<1>1. CASE Succeed
  <2>1. Here.op = "try" /\ ~Finished /\ Here.op # "call" /\ linked' = linked /\ at' = at + 1
        /\ status = "ok" /\ status' = status /\ held' = After(Here, held)
    BY <1>1 DEF Succeed, AtOp, After
  <2>2. Here.uses \subseteq held
    <3>1. Leads(Here, Place, Marking(linked)[at + 1]) /\ at # 0
      BY <2>1, Instructed DEF HeldInv, Place
    <3> QED BY <2>1, <3>1 DEF HeldInv, KeepsToMarks, Leads, LeadsOk
  <2> QED BY <2>1, <2>2, HeldMoves
<1>2. CASE Fail
  <2>1. Here.op = "try" /\ ~Finished /\ Here.op # "call" /\ linked' = linked /\ at' = at + 1
        /\ status = "ok" /\ status' = Here.call /\ held' = held
    BY <1>2 DEF Fail, AtOp
  <2>2. Here.call # "ok"
    BY <2>1, Instructed DEF HeldInv, Leads, WellFormed
  <2> QED BY <2>1, <2>2, HeldMoves
<1>3. CASE Skip
  <2>1. Here.op \in {"try", "process"} /\ ~Finished /\ Here.op # "call" /\ linked' = linked /\ at' = at + 1
        /\ status # "ok" /\ status' = status /\ held' = held /\ Here.op \notin {"malloc", "release"}
    BY <1>3 DEF Skip, AtOp
  <2> QED BY <2>1, HeldMoves
<1>4. CASE CompareProduct \/ CompareLabel
  BY <1>4 DEF CompareProduct, CompareLabel, HeldInv, InCode, KeepsToMarks, MappedInList, Place
<1>5. CASE EndProducts \/ EndLabels
  <2>1. Here.op = "process" /\ ~Finished /\ Here.op # "call" /\ linked' = linked /\ at' = at + 1
        /\ status = "ok" /\ status' \in {status, "process_output"} /\ held' = held
    BY <1>5 DEF EndProducts, EndLabels, InLoop, AtOp
  <2>2. /\ Here.uses \subseteq held
        /\ After(Here, held) = held
    <3>1. Leads(Here, Place, Marking(linked)[at + 1]) /\ at # 0
      BY <2>1, Instructed DEF HeldInv, Place
    <3> QED BY <2>1, <3>1 DEF HeldInv, KeepsToMarks, Leads, LeadsOk, WellFormed, After
  <2> QED BY <2>1, <2>2, HeldMoves
<1>6. CASE RequireOrReturn
  <2>1. Here.op = "require" /\ ~Finished /\ Here.op # "call" /\ linked' = linked /\ held' = held
        /\ Here.op \notin {"try", "process"}
    BY <1>6 DEF RequireOrReturn, AtOp
  <2>2. status = "ok" /\ held = {"instance"} /\ After(Here, held) = held
    BY <1>6, AtRequire DEF RequireOrReturn, After
  <2>3. CASE at' = at + 1 /\ UNCHANGED status
    BY <2>1, <2>2, <2>3, HeldMoves
  <2>4. CASE at' = Len(CreateContext(linked)) + 1 /\ status' = Here.call
    <3>1. linked \in Builds /\ at' \in 1..Len(Run(linked)) /\ Len(Run(linked)) \in Nat
      BY <2>4, LengthOfRun DEF HeldInv, InCode
    <3>2. status' # "ok"
      BY <2>1, <2>4, Instructed DEF HeldInv, Leads, WellFormed
    <3>3. Place' = Context
      BY <2>1, <2>4, <3>1, MarkingMarks DEF MarksOf, Place
    <3>4. InCode'
      BY <2>1, <3>1 DEF InCode
    <3> QED
      BY <2>1, <2>2, <3>2, <3>3, <3>4
      DEF HeldInv, KeepsToMarks, MappedInList, Context, Running, Mark
  <2> QED BY <1>6, <2>3, <2>4 DEF RequireOrReturn
<1>7. CASE CallPrepareInputs
  <2>1. Here.op = "call" /\ ~Finished /\ linked' = linked /\ held' = held /\ status' = status
        /\ at' = at + 1 + (IF status = "ok" THEN 0 ELSE Len(PrepareInputs(linked)))
    BY <1>7 DEF CallPrepareInputs, AtOp
  <2>2. /\ at = Called(linked)
        /\ Marking(linked)[at] = Resolved
        /\ Marking(linked)[at + 1] = Resolved
        /\ Marking(linked)[Invoked(linked)] = Prepared(linked)
    BY <2>1, CallPlace DEF HeldInv
  <2>3. /\ linked \in Builds
        /\ Len(Run(linked)) \in Nat
        /\ Called(linked) \in 1..Len(Run(linked))
        /\ Invoked(linked) \in 1..Len(Run(linked))
    BY LengthOfRun DEF HeldInv, InCode
  <2>4. Resolved.failed \subseteq Prepared(linked).failed
    BY DEF Resolved, Prepared, Running, Mark, Created
  <2>5. at # 0 /\ Place = Resolved
    BY <2>2, <2>3 DEF Place
  <2>6. CASE status = "ok"
    <3>1. at' = at + 1
      BY <2>1, <2>2, <2>3, <2>6
    <3>2. Place' = Resolved
      BY <2>1, <2>2, <3>1 DEF Place
    <3>3. InCode'
      BY <2>1, <2>2, <2>3, <3>1 DEF InCode
    <3> QED BY <2>1, <2>5, <2>6, <3>2, <3>3 DEF HeldInv, KeepsToMarks, MappedInList
  <2>7. CASE status # "ok"
    <3>1. at' = Invoked(linked)
      BY <2>1, <2>2, <2>7 DEF Invoked
    <3>2. Place' = Prepared(linked)
      BY <2>1, <2>2, <3>1 DEF Place
    <3>3. InCode'
      BY <2>1, <2>3, <3>1 DEF InCode
    <3> QED BY <2>1, <2>4, <2>5, <2>7, <3>2, <3>3 DEF HeldInv, KeepsToMarks, MappedInList
  <2> QED BY <2>6, <2>7
<1>8. CASE MallocSpan
  <2>1. Here.op = "malloc" /\ ~Finished /\ Here.op # "call" /\ linked' = linked /\ at' = at + 1
        /\ status' = status /\ held' = held \cup Here.gets /\ Here.op \notin {"try", "process"}
    BY <1>8 DEF MallocSpan, AtOp
  <2>2. Here.frees = {}
    BY <2>1, Instructed DEF HeldInv, Leads, WellFormed
  <2>3. held' = After(Here, held)
    BY <2>1, <2>2 DEF After
  <2> QED BY <2>1, <2>3, HeldMoves
<1>9. CASE GiveBack
  <2>1. Here.op = "release" /\ ~Finished /\ Here.op # "call" /\ linked' = linked /\ at' = at + 1
        /\ status' = status /\ held' = held \ Here.frees /\ Here.op \notin {"try", "process"}
    BY <1>9 DEF GiveBack, AtOp
  <2>2. Here.gets = {}
    BY <2>1, Instructed DEF HeldInv, Leads, WellFormed
  <2>3. held' = After(Here, held)
    BY <2>1, <2>2 DEF After
  <2> QED BY <2>1, <2>3, HeldMoves
<1>10. CASE UseUnguarded
  <2>1. Here.op = "unguarded" /\ ~Finished /\ Here.op # "call" /\ linked' = linked /\ at' = at + 1
        /\ status' = status /\ held' = held /\ Here.op \notin {"try", "process", "malloc", "release"}
    BY <1>10 DEF UseUnguarded, AtOp
  <2>2. Here.gets = {} /\ Here.frees = {}
    BY <2>1, Instructed DEF HeldInv, Leads, WellFormed
  <2>3. After(Here, held) = held
    BY <2>2 DEF After
  <2> QED BY <2>1, <2>3, HeldMoves
<1>11. CASE Undefined
  <2>1. linked' = linked /\ at' = 0 /\ held' = held
    BY <1>11 DEF Undefined
  <2>2. Len(Run(linked)) \in Nat
    BY LengthOfRun DEF HeldInv, InCode
  <2> QED BY <2>1, <2>2 DEF HeldInv, InCode, KeepsToMarks, MappedInList
<1>12. CASE Rerelease
  <2>1. linked' = linked /\ at' = 1 /\ held' = {} /\ status' = "ok" /\ linked \in Builds
    BY <1>12 DEF Rerelease, HeldInv, InCode
  <2>2. Place' = Running({}, {})
    BY <2>1, MarkingMarks DEF MarksOf, Place
  <2>3. Len(Run(linked)) \in Nat
    BY <2>1, LengthOfRun
  <2> QED BY <2>1, <2>2, <2>3 DEF HeldInv, InCode, KeepsToMarks, MappedInList, Running, Mark
<1>13. CASE UNCHANGED vars
  BY <1>13 DEF vars, HeldInv, InCode, KeepsToMarks, MappedInList, Place
<1> QED
  BY <1>1, <1>2, <1>3, <1>4, <1>5, <1>6, <1>7, <1>8, <1>9, <1>10, <1>11, <1>12, <1>13 DEF Next

\* The machine keeps to the marks of its build.
LEMMA HeldAlways == Spec => []HeldInv
<1>1. Init => HeldInv
  BY HeldInit
<1>2. HeldInv /\ [Next]_vars => HeldInv'
  BY HeldStep
<1> QED BY <1>1, <1>2, PTL DEF Spec

\* run() of util.c, on every build and error path: a call that is made finds
\* every reference it uses still held, and the outputs are unmapped while the
\* list that owns their buffers exists.
THEOREM CallsFindWhatTheyUse == Spec => []UsesOnlyHeld
<1>1. HeldInv => UsesOnlyHeld
  <2> SUFFICES ASSUME HeldInv,
                      \/ (AtOp("try") \/ AtOp("process")) /\ status = "ok"
                      \/ AtOp("release") /\ Here.frees \cap held # {}
               PROVE  Here.uses \subseteq held
    BY DEF UsesOnlyHeld
  <2>1. ~Finished /\ Here.op \in {"try", "process", "release"}
    BY DEF AtOp
  <2>2. at # 0 /\ Leads(Here, Place, Marking(linked)[at + 1])
    BY <2>1, Instructed DEF HeldInv, Place
  <2>3. CASE (AtOp("try") \/ AtOp("process")) /\ status = "ok"
    BY <2>2, <2>3 DEF AtOp, HeldInv, KeepsToMarks, Leads, LeadsOk
  <2>4. CASE AtOp("release") /\ Here.frees \cap held # {}
    BY <2>2, <2>4 DEF AtOp, HeldInv, MappedInList, Leads, LeadsMapped
  <2> QED BY <2>3, <2>4
<1> QED BY <1>1, HeldAlways, PTL

\* When run() returns nothing but the instance is left, or, after an error,
\* input views besides it: every other reference was given back, whichever
\* call failed.
THEOREM AllIsGivenBack == Spec => []OnlyViewsLeak
<1>1. HeldInv => OnlyViewsLeak
  <2> SUFFICES ASSUME HeldInv, Returned
               PROVE  held \subseteq {"instance"} \cup (IF status = "ok" THEN {} ELSE {View[1], View[2]})
    BY DEF OnlyViewsLeak
  <2>1. Len(Code) = Len(Run(linked)) /\ Len(Run(linked)) \in Nat /\ linked \in Builds
    BY CodeIsRun, LengthOfRun DEF HeldInv, InCode
  <2>2. at = Len(Run(linked)) + 1 /\ at # 0
    BY <2>1 DEF HeldInv, InCode, Returned
  <2>3. Place = Done
    BY <2>1, <2>2, MarkingMarks DEF MarksOf, Place
  <2> QED BY <2>2, <2>3 DEF HeldInv, KeepsToMarks, Done, Mark, Views, View
<1> QED BY <1>1, HeldAlways, PTL

\* IREE_RETURN_IF_ERROR and the tests of the status keep the first error until
\* run() returns it.  The early return of create_context is the one statement
\* that sets a status without looking at it; it is never reached after an
\* error, because the instance it uses is then missing.
THEOREM TheFirstErrorIsReported == Spec => FirstErrorReported
<1>1. HeldInv /\ [Next]_vars => [status # "ok" => status' = status \/ Rerelease]_vars
  <2> SUFFICES ASSUME HeldInv, Next, status # "ok", ~Rerelease
               PROVE  status' = status
    BY DEF vars
  <2>1. CASE Succeed \/ Fail
    BY <2>1 DEF Succeed, Fail
  <2>2. CASE Skip \/ CallPrepareInputs \/ MallocSpan \/ GiveBack \/ UseUnguarded \/ Undefined
    BY <2>2 DEF Skip, CallPrepareInputs, MallocSpan, GiveBack, UseUnguarded, Undefined
  <2>3. CASE CompareProduct \/ EndProducts \/ CompareLabel \/ EndLabels
    BY <2>3 DEF CompareProduct, EndProducts, CompareLabel, EndLabels, InLoop
  <2>4. CASE RequireOrReturn
    BY <2>4, AtRequire DEF RequireOrReturn
  <2> QED BY <2>1, <2>2, <2>3, <2>4 DEF Next
<1> QED BY <1>1, HeldAlways, PTL DEF Spec, FirstErrorReported

-----------------------------------------------------------------------------
(* process_output.                                                         *)

\* What the comparison has found, or the search for the best label, before the
\* element to look at next.
Compared ==
  \A i \in Index : i < loop.next => Matches(linked.sample, i, outputs[i])

Searched ==
  \/ /\ loop.best_idx = -1 /\ loop.best_out = 0
     /\ \A i \in Numbers : i < loop.next => outputs[i] <= 0
  \/ /\ loop.best_idx \in Numbers /\ loop.best_idx < loop.next
     /\ loop.best_out = outputs[loop.best_idx] /\ loop.best_out > 0
     /\ \A i \in Numbers : i < loop.next =>
          /\ outputs[i] <= loop.best_out
          /\ i < loop.best_idx => outputs[i] < loop.best_out

Locals == [next : 0..Elements, best_idx : -1..(Elements - 1), best_out : {0} \cup FloatOutputs]

LoopInv ==
  /\ loop \in Locals
  /\ loop # LoopStart => AtOp("process") /\ status = "ok"
  /\ linked.sample \in Vecs => Compared
  /\ linked.sample \in Nets => Searched

\* The device has computed the outputs that a successful run looks at.
OutputsInv ==
  at # 0 /\ status = "ok" /\ Place.stage \in {"computed", "answered"} =>
    outputs \in Computed(linked.sample)

\* The answer is that of the outputs once process_output has returned.
AnswerInv ==
  /\ at # 0 /\ status = "ok" /\ Place.stage = "answered" =>
       /\ linked.sample \in Nets => score = ReferenceScore /\ length = ScoreSize
       /\ linked.sample \in Vecs => outputs = Products(linked.sample)
  /\ linked.sample \in Vecs /\ status = "process_output" => outputs # Products(linked.sample)

RunInv == HeldInv /\ LoopInv /\ OutputsInv /\ AnswerInv

\* The locals start within their types.
LEMMA LoopStartFits ==
  LoopStart \in Locals
BY ElementsAssumption DEF LoopStart, Locals

\* At its start the loop has looked at nothing, whatever the outputs are.
LoopIsNew == loop = LoopStart

\* A loop that has not begun has nothing to answer for.
LEMMA NothingSearched == LoopIsNew => Compared /\ Searched
BY ElementsAssumption DEF LoopIsNew, LoopStart, Compared, Searched, Numbers, Index

\* The same after a step.
LEMMA NothingSearchedNext == LoopIsNew' => Compared' /\ Searched'
BY NothingSearched, PTL

\* Outputs of a network that are numbers are numbers that can be compared.
LEMMA NetOutputs ==
  ASSUME linked.sample \in Nets, outputs \in Computed(linked.sample)
  PROVE  /\ \A i \in Index : outputs[i] \in FloatOutputs \cup {NaN}
         /\ \A i \in Numbers : outputs[i] \in Int /\ outputs[i] \in FloatOutputs
<1>1. linked.sample \notin Vecs
  BY DEF Nets, Vecs
<1>2. CASE linked.sample \in {"mnist", "mobilenet_float"}
  BY <1>1, <1>2, FloatAssumption DEF Computed, Numbers
<1>3. CASE linked.sample = "mobilenet_quant"
  BY <1>1, <1>3, FloatAssumption DEF Computed, Numbers
<1> QED BY <1>2, <1>3 DEF Nets

\* So are the locals.
LEMMA LocalsAreNumbers ==
  ASSUME loop \in Locals
  PROVE  loop.next \in Int /\ loop.best_idx \in Int /\ loop.best_out \in Int
<1>1. /\ loop.next \in 0..Elements
      /\ loop.best_idx \in -1..(Elements - 1)
      /\ loop.best_out \in {0} \cup FloatOutputs
  BY DEF Locals
<1>2. loop.best_out = 0 \/ loop.best_out \in FloatOutputs
  BY <1>1
<1>3. ASSUME NEW out \in FloatOutputs PROVE out \in Int
  BY FloatAssumption
<1>4. loop.best_out \in Int
  <2>1. CASE loop.best_out = 0
    BY <2>1
  <2>2. CASE loop.best_out \in FloatOutputs
    BY <1>3, <2>2
  <2> QED BY <1>2, <2>1, <2>2
<1> QED BY <1>1, <1>4, ElementsAssumption

\* One more output is looked at.
LEMMA LabelCompared ==
  ASSUME loop \in Locals, Searched, CompareLabel, outputs \in Computed(linked.sample)
  PROVE  loop' \in Locals /\ Searched'
<1> DEFINE n == loop.next
           out == outputs[n]
<1>1. linked.sample \in Nets /\ n \in Index /\ linked' = linked /\ outputs' = outputs /\ Numbers' = Numbers
  BY DEF CompareLabel, InLoop, Numbers
<1>2. n \in Int /\ 0 <= n /\ n < Elements /\ Elements \in Int
  BY <1>1, ElementsAssumption DEF Index
<1>3. loop.best_out \in Int /\ loop.best_idx \in Int
  BY LocalsAreNumbers
<1>4. \A i \in Numbers : i \in Index /\ outputs[i] \in Int /\ outputs[i] \in FloatOutputs
  BY <1>1, NetOutputs DEF Numbers
<1>5. Better(linked.sample, out, loop.best_out) <=> n \in Numbers /\ out > loop.best_out
  <2>1. out \in FloatOutputs \cup {NaN}
    BY <1>1, NetOutputs
  <2>2. linked.sample = "mobilenet_quant" => out # NaN
    <3>1. ASSUME linked.sample = "mobilenet_quant" PROVE out # NaN
      BY <1>1, <3>1, FloatAssumption DEF Computed, Vecs
    <3> QED BY <3>1
  <2>3. n \in Numbers <=> out # NaN
    BY <1>1 DEF Numbers
  <2>4. CASE linked.sample = "mnist"
    BY <2>3, <2>4 DEF Better, MnistBetter
  <2>5. CASE linked.sample = "mobilenet_float"
    BY <2>3, <2>5 DEF Better, MobilenetFloatBetter
  <2>6. CASE linked.sample = "mobilenet_quant"
    BY <2>2, <2>3, <2>6 DEF Better, MobilenetQuantBetter
  <2> QED BY <1>1, <2>4, <2>5, <2>6 DEF Nets
<1>6. loop' = IF Better(linked.sample, out, loop.best_out)
              THEN [next |-> n + 1, best_idx |-> n, best_out |-> out]
              ELSE [loop EXCEPT !.next = @ + 1]
  BY DEF CompareLabel
<1>7. loop.next \in 0..Elements /\ loop.best_idx \in -1..(Elements - 1) /\ loop.best_out \in {0} \cup FloatOutputs
  BY DEF Locals
<1>8. CASE Better(linked.sample, out, loop.best_out)
  <2>1. loop' = [next |-> n + 1, best_idx |-> n, best_out |-> out]
    BY <1>6, <1>8
  <2>2. n \in Numbers /\ out \in Int /\ out \in FloatOutputs /\ out > loop.best_out
    BY <1>4, <1>5, <1>8
  <2> HIDE DEF out
  <2>3. loop' \in Locals
    BY <1>2, <2>1, <2>2 DEF Locals
  <2>4. out > 0
    BY <1>3, <2>2 DEF Searched
  <2>5. ASSUME NEW i \in Numbers, i < n + 1
        PROVE  outputs[i] <= out /\ (i < n => outputs[i] < out)
    <3>1. CASE i = n
      BY <1>2, <2>2, <3>1 DEF out
    <3>2. CASE i < n
      <4>1. outputs[i] <= loop.best_out
        BY <3>2 DEF Searched
      <4> QED BY <1>3, <1>4, <2>2, <4>1
    <3> QED BY <1>2, <1>4, <2>5, <3>1, <3>2 DEF Index
  <2>6. loop'.best_idx \in Numbers /\ loop'.best_idx < loop'.next /\ loop'.best_out = outputs[loop'.best_idx]
    BY <1>2, <2>1, <2>2 DEF out
  <2> QED BY <1>1, <2>1, <2>3, <2>4, <2>5, <2>6 DEF Searched
<1>9. CASE ~Better(linked.sample, out, loop.best_out)
  <2>1. loop' = [loop EXCEPT !.next = n + 1]
    BY <1>6, <1>9
  <2>2. loop'.next = n + 1 /\ loop'.best_idx = loop.best_idx /\ loop'.best_out = loop.best_out
    BY <2>1 DEF Locals
  <2>3. loop' \in Locals
    BY <1>2, <1>7, <2>1 DEF Locals
  <2>4. n \in Numbers => out <= loop.best_out
    BY <1>3, <1>4, <1>5, <1>9
  <2>5. ASSUME NEW i \in Numbers, i < n + 1
        PROVE  i < n \/ (i = n /\ outputs[i] <= loop.best_out)
    BY <1>2, <1>4, <2>4, <2>5 DEF Index
  <2>6. CASE loop.best_idx = -1 /\ loop.best_out = 0
               /\ \A i \in Numbers : i < loop.next => outputs[i] <= 0
    BY <1>1, <2>2, <2>3, <2>5, <2>6 DEF Searched
  <2>7. CASE /\ loop.best_idx \in Numbers /\ loop.best_idx < loop.next
             /\ loop.best_out = outputs[loop.best_idx] /\ loop.best_out > 0
             /\ \A i \in Numbers : i < loop.next =>
                  /\ outputs[i] <= loop.best_out
                  /\ i < loop.best_idx => outputs[i] < loop.best_out
    <3>1. loop.best_idx < n + 1 /\ ~(n < loop.best_idx)
      BY <1>2, <1>3, <2>7
    <3> QED BY <1>1, <2>2, <2>3, <2>5, <2>7, <3>1 DEF Searched
  <2> QED BY <2>3, <2>6, <2>7 DEF Searched
<1> QED BY <1>8, <1>9

\* The search has looked at all outputs: it found the first of the largest.
LEMMA SearchIsReference ==
  ASSUME loop \in Locals, Searched, loop.next = Elements,
         linked.sample \in Nets, outputs \in Computed(linked.sample)
  PROVE  ReferenceScore = [best_idx |-> loop.best_idx, best_out |-> loop.best_out]
<1>1. \A i \in Numbers : /\ i \in Int /\ i < Elements /\ i \in Index
                         /\ outputs[i] \in Int
  BY NetOutputs, ElementsAssumption DEF Numbers, Index
<1>2. Elements \in Int /\ loop.best_out \in Int
  BY ElementsAssumption, LocalsAreNumbers
<1>3. CASE /\ loop.best_idx = -1 /\ loop.best_out = 0
           /\ \A i \in Numbers : i < loop.next => outputs[i] <= 0
  <2>1. ~(\E i \in Numbers : outputs[i] > 0)
    BY <1>1, <1>3
  <2> QED BY <1>3, <2>1 DEF ReferenceScore
<1>4. CASE /\ loop.best_idx \in Numbers /\ loop.best_idx < loop.next
           /\ loop.best_out = outputs[loop.best_idx] /\ loop.best_out > 0
           /\ \A i \in Numbers : i < loop.next =>
                /\ outputs[i] <= loop.best_out
                /\ i < loop.best_idx => outputs[i] < loop.best_out
  <2> DEFINE best == loop.best_idx
  <2>1. \E i \in Numbers : outputs[i] > 0
    BY <1>4
  <2>2. best \in Maxima
    BY <1>1, <1>4 DEF Maxima
  <2>3. \A j \in Maxima : best <= j
    <3> SUFFICES ASSUME NEW j \in Maxima, ~(best <= j) PROVE FALSE
      OBVIOUS
    <3>1. j \in Numbers /\ outputs[best] <= outputs[j]
      BY <1>4 DEF Maxima
    <3>2. j < best
      BY <1>1, <1>4, <3>1
    <3>3. outputs[j] < outputs[best]
      BY <1>1, <1>4, <3>1, <3>2
    <3> QED BY <1>1, <1>4, <3>1, <3>3
  <2>4. FirstMaximum \in Maxima /\ \A j \in Maxima : FirstMaximum <= j
    BY <2>2, <2>3 DEF FirstMaximum
  <2>5. FirstMaximum = best
    <3>1. FirstMaximum \in Int /\ best \in Int
      BY <1>1, <1>4, <2>4 DEF Maxima
    <3>2. FirstMaximum <= best /\ best <= FirstMaximum
      BY <2>2, <2>3, <2>4
    <3> QED BY <3>1, <3>2
  <2> QED BY <1>4, <2>1, <2>5 DEF ReferenceScore
<1> QED BY <1>3, <1>4 DEF Searched

\* The products of the inputs are what process_output expects.
LEMMA ExpectedProducts ==
  ASSUME linked.sample \in Vecs, outputs \in Computed(linked.sample)
  PROVE  /\ outputs = [i \in Index |-> outputs[i]]
         /\ \A i \in Index : Matches(linked.sample, i, outputs[i])
                               <=> outputs[i] = Products(linked.sample)[i]
<1>1. outputs = [i \in Index |-> outputs[i]]
  <2>1. outputs \in {Products(linked.sample)} \cup
                      {[Products(linked.sample) EXCEPT ![i] = @ + 1] : i \in Index}
    BY DEF Computed, Vecs
  <2> QED BY <2>1 DEF Products
<1>2. ASSUME NEW i \in Index
      PROVE  Matches(linked.sample, i, outputs[i]) <=> outputs[i] = Products(linked.sample)[i]
  <2>1. CASE linked.sample = "int_vec"
    BY <2>1 DEF Matches, IntExpected, Products, Product, IntInputs
  <2>2. CASE linked.sample = "float_vec"
    BY <2>2 DEF Matches, FloatExpected, Products, Product, FloatInputs
  <2> QED BY <2>1, <2>2 DEF Vecs
<1> QED BY <1>1, <1>2

-----------------------------------------------------------------------------
(* The answer.                                                             *)

\* The right label depends on nothing but the outputs.
LEMMA SameReference ==
  ASSUME outputs' = outputs
  PROVE  ReferenceScore' = ReferenceScore
BY DEF ReferenceScore, FirstMaximum, Maxima, Numbers

\* A start has answered nothing, and the marks do not ask it to.
LEMMA RunInit ==
  ASSUME Init
  PROVE  RunInv
<1>1. HeldInv
  BY HeldInit
<1>2. loop = LoopStart /\ linked \in Builds /\ at = 1 /\ status = "ok"
  BY DEF Init
<1>3. LoopInv
  BY <1>2, LoopStartFits, NothingSearched DEF LoopInv, LoopIsNew
<1>4. Place.stage = "running"
  BY <1>2, MarkingMarks DEF MarksOf, Place, Running, Mark
<1> QED BY <1>1, <1>2, <1>3, <1>4 DEF RunInv, OutputsInv, AnswerInv

\* process_output is not running.
LEMMA LoopRests ==
  ASSUME LoopInv, ~(AtOp("process") /\ status = "ok"), loop' = loop
  PROVE  LoopInv'
<1>1. loop' = LoopStart /\ LoopStart' = LoopStart
  BY DEF LoopInv, LoopStart
<1>2. Compared' /\ Searched'
  BY <1>1, NothingSearchedNext DEF LoopIsNew
<1>3. loop' \in Locals'
  BY <1>1, LoopStartFits DEF Locals
<1> QED BY <1>1, <1>2, <1>3 DEF LoopInv

\* A step that leaves the loop at its start keeps the loop's invariant.
LEMMA LoopRestarts ==
  ASSUME loop' = LoopStart
  PROVE  LoopInv'
<1>1. Compared' /\ Searched'
  BY NothingSearchedNext DEF LoopIsNew, LoopStart
<1>2. loop' \in Locals' /\ loop' = LoopStart'
  BY LoopStartFits DEF Locals, LoopStart
<1> QED BY <1>1, <1>2 DEF LoopInv

\* An instruction that neither computes nor answers.
LEMMA AnswerRests ==
  ASSUME HeldInv, OutputsInv, AnswerInv, ~Finished, Here.op \notin {"call", "process"},
         Here.op = "try" => Here.call # "invoke",
         linked' = linked, at' = at + 1,
         status' = status \/ status' \notin {"ok", "process_output"},
         outputs' = outputs, score' = score, length' = length
  PROVE  OutputsInv' /\ AnswerInv'
<1>1. at \in 1..Len(Run(linked)) /\ Leads(Here, Place, Marking(linked)[at + 1]) /\ Len(Run(linked)) \in Nat
  BY Instructed, LengthOfRun DEF HeldInv, InCode, Place
<1>2. at # 0 /\ Place' = Marking(linked)[at + 1]
  BY <1>1 DEF Place
<1>3. Place'.stage = Place.stage
  BY <1>1, <1>2 DEF Leads, LeadsStage
<1>4. ReferenceScore' = ReferenceScore
  BY SameReference
<1>5. OutputsInv'
  BY <1>2, <1>3 DEF OutputsInv
<1>6. AnswerInv'
  BY <1>2, <1>3, <1>4 DEF AnswerInv
<1> QED BY <1>5, <1>6

\* After an error there is no answer to speak of.
LEMMA NoAnswer ==
  ASSUME AnswerInv, linked' = linked, outputs' = outputs,
         \/ status' = status /\ (status # "ok" \/ at' = 0)
         \/ status' \notin {"ok", "process_output"}
  PROVE  OutputsInv' /\ AnswerInv'
BY DEF OutputsInv, AnswerInv

\* process_output runs: the outputs are there, and the answer comes next.
LEMMA AtProcess ==
  ASSUME HeldInv, OutputsInv, AtOp("process"), status = "ok"
  PROVE  /\ at # 0 /\ Place.stage = "computed"
         /\ outputs \in Computed(linked.sample)
         /\ Here.op # "call"
<1>1. at \in 1..Len(Run(linked)) /\ Leads(Here, Place, Marking(linked)[at + 1]) /\ Here.op = "process"
  BY Instructed DEF HeldInv, AtOp, Place
<1>2. at # 0 /\ Place.stage = "computed"
  BY <1>1 DEF Leads, LeadsStage
<1> QED BY <1>1, <1>2 DEF OutputsInv

\* Every step keeps the loop's invariant and the answer.
LEMMA RunStep ==
  ASSUME RunInv, [Next]_vars
  PROVE  RunInv'
<1>1. HeldInv /\ LoopInv /\ OutputsInv /\ AnswerInv /\ HeldInv'
  BY HeldStep DEF RunInv
<1>2. CASE Succeed
  <2>1. Here.op = "try" /\ ~Finished /\ linked' = linked /\ at' = at + 1
        /\ status = "ok" /\ status' = status /\ loop' = loop /\ score' = score /\ length' = length
    BY <1>2 DEF Succeed, AtOp
  <2>2. LoopInv'
    BY <1>1, <2>1, LoopRests DEF AtOp
  <2>3. CASE Here.call = "invoke"
    <3>1. outputs' \in Computed(linked.sample)
      BY <1>2, <2>3 DEF Succeed
    <3>2. /\ at \in 1..Len(Run(linked))
          /\ Leads(Here, Place, Marking(linked)[at + 1])
          /\ Place' = Marking(linked)[at + 1]
      BY <1>1, <2>1, Instructed DEF HeldInv, Place
    <3>3. Place'.stage = "computed"
      BY <2>1, <2>3, <3>2 DEF Leads, LeadsStage
    <3>4. OutputsInv'
      BY <2>1, <3>1 DEF OutputsInv
    <3>5. AnswerInv'
      BY <2>1, <3>3 DEF AnswerInv
    <3> QED BY <1>1, <2>2, <3>4, <3>5 DEF RunInv
  <2>4. CASE Here.call # "invoke"
    <3>1. outputs' = outputs
      BY <1>2, <2>4 DEF Succeed
    <3>2. OutputsInv' /\ AnswerInv'
      BY <1>1, <2>1, <2>4, <3>1, AnswerRests
    <3> QED BY <1>1, <2>2, <3>2 DEF RunInv
  <2> QED BY <2>3, <2>4
<1>3. CASE Fail
  <2>1. Here.op = "try" /\ ~Finished /\ linked' = linked /\ status' = Here.call
        /\ loop' = loop /\ outputs' = outputs
    BY <1>3 DEF Fail, AtOp
  <2>2. Here.call \notin {"ok", "process_output"}
    BY <1>1, <2>1, Instructed DEF HeldInv, Leads, WellFormed
  <2>3. LoopInv'
    BY <1>1, <2>1, LoopRests DEF AtOp
  <2>4. OutputsInv' /\ AnswerInv'
    BY <1>1, <2>1, <2>2, NoAnswer
  <2> QED BY <1>1, <2>3, <2>4 DEF RunInv
<1>4. CASE Skip
  <2>1. linked' = linked /\ status # "ok" /\ status' = status /\ loop' = loop /\ outputs' = outputs
    BY <1>4 DEF Skip
  <2>2. LoopInv'
    BY <1>1, <2>1, LoopRests
  <2>3. OutputsInv' /\ AnswerInv'
    BY <1>1, <2>1, NoAnswer
  <2> QED BY <1>1, <2>2, <2>3 DEF RunInv
<1>5. CASE CompareProduct
  <2>1. AtOp("process") /\ status = "ok" /\ linked.sample \in Vecs /\ loop.next \in Index
        /\ Matches(linked.sample, loop.next, outputs[loop.next])
        /\ loop' = [loop EXCEPT !.next = @ + 1]
        /\ UNCHANGED <<linked, at, status, held, outputs, score, length>>
    BY <1>5 DEF CompareProduct, InLoop
  <2>2. loop' \in Locals
    BY <1>1, <2>1, ElementsAssumption DEF LoopInv, Locals, Index
  <2>3. Compared'
    <3>1. \A i \in Index : i < loop.next + 1 => i < loop.next \/ i = loop.next
      BY <2>1 DEF Index
    <3>2. loop'.next = loop.next + 1
      BY <1>1, <2>1 DEF LoopInv, Locals
    <3>3. Compared
      BY <1>1, <2>1 DEF LoopInv
    <3> QED BY <2>1, <3>1, <3>2, <3>3 DEF Compared
  <2>4. linked.sample \notin Nets
    BY <2>1 DEF Vecs, Nets
  <2>5. AtOp("process")'
    BY <2>1 DEF AtOp, Here, Code, Finished, Returned
  <2>6. LoopInv'
    BY <2>1, <2>2, <2>3, <2>4, <2>5 DEF LoopInv, Locals
  <2>7. OutputsInv' /\ AnswerInv'
    BY <1>1, <2>1, SameReference DEF OutputsInv, AnswerInv, Place
  <2> QED BY <1>1, <2>6, <2>7 DEF RunInv
<1>6. CASE CompareLabel
  <2>1. AtOp("process") /\ status = "ok" /\ linked.sample \in Nets
        /\ UNCHANGED <<linked, at, status, held, outputs, score, length>>
    BY <1>6 DEF CompareLabel, InLoop
  <2>2. outputs \in Computed(linked.sample)
    BY <1>1, <2>1, AtProcess
  <2>3. loop' \in Locals /\ Searched'
    BY <1>1, <1>6, <2>1, <2>2, LabelCompared DEF LoopInv
  <2>4. linked.sample \notin Vecs
    BY <2>1 DEF Vecs, Nets
  <2>5. AtOp("process")'
    BY <2>1 DEF AtOp, Here, Code, Finished, Returned
  <2>6. LoopInv'
    BY <2>1, <2>3, <2>4, <2>5 DEF LoopInv, Locals
  <2>7. OutputsInv' /\ AnswerInv'
    BY <1>1, <2>1, SameReference DEF OutputsInv, AnswerInv, Place
  <2> QED BY <1>1, <2>6, <2>7 DEF RunInv
<1>7. CASE EndProducts
  <2>1. AtOp("process") /\ status = "ok" /\ linked.sample \in Vecs /\ loop' = LoopStart
        /\ linked' = linked /\ outputs' = outputs
        /\ \/ loop.next = Elements /\ status' = status
           \/ /\ loop.next \in Index
              /\ ~Matches(linked.sample, loop.next, outputs[loop.next])
              /\ status' = "process_output"
    BY <1>7 DEF EndProducts, InLoop
  <2>2. outputs \in Computed(linked.sample)
    BY <1>1, <2>1, AtProcess
  <2>3. linked.sample \notin Nets
    BY <2>1 DEF Vecs, Nets
  <2>4. status' = "ok" => outputs = Products(linked.sample)
    <3> SUFFICES ASSUME status' = "ok" PROVE outputs = Products(linked.sample)
      OBVIOUS
    <3>1. loop.next = Elements
      BY <2>1
    <3>2. \A i \in Index : outputs[i] = Products(linked.sample)[i]
      <4>1. \A i \in Index : i < loop.next
        BY <3>1, ElementsAssumption DEF Index
      <4>2. Compared
        BY <1>1, <2>1 DEF LoopInv
      <4> QED BY <2>1, <2>2, <4>1, <4>2, ExpectedProducts DEF Compared
    <3>3. outputs = [i \in Index |-> outputs[i]]
      BY <2>1, <2>2, ExpectedProducts
    <3> QED BY <3>2, <3>3 DEF Products
  <2>5. status' # "ok" => outputs # Products(linked.sample)
    BY <2>1, <2>2, ExpectedProducts
  <2>6. LoopInv'
    BY <2>1, LoopRestarts
  <2>7. OutputsInv' /\ AnswerInv'
    BY <2>1, <2>2, <2>3, <2>4, <2>5 DEF OutputsInv, AnswerInv
  <2> QED BY <1>1, <2>6, <2>7 DEF RunInv
<1>8. CASE EndLabels
  <2>1. AtOp("process") /\ status = "ok" /\ linked.sample \in Nets /\ loop' = LoopStart
        /\ linked' = linked /\ outputs' = outputs /\ status' = status
        /\ loop.next = Elements /\ length' = ScoreSize
        /\ score' = [best_idx |-> loop.best_idx, best_out |-> loop.best_out]
    BY <1>8 DEF EndLabels, InLoop
  <2>2. outputs \in Computed(linked.sample)
    BY <1>1, <2>1, AtProcess
  <2>3. linked.sample \notin Vecs
    BY <2>1 DEF Vecs, Nets
  <2>4. ReferenceScore = score'
    BY <1>1, <2>1, <2>2, SearchIsReference DEF LoopInv
  <2>5. LoopInv'
    BY <2>1, LoopRestarts
  <2>6. OutputsInv' /\ AnswerInv'
    BY <2>1, <2>2, <2>3, <2>4, SameReference DEF OutputsInv, AnswerInv, ScoreSize
  <2> QED BY <1>1, <2>5, <2>6 DEF RunInv
<1>9. CASE RequireOrReturn
  <2>1. Here.op = "require" /\ ~Finished /\ linked' = linked /\ loop' = loop
        /\ outputs' = outputs /\ score' = score /\ length' = length
    BY <1>9 DEF RequireOrReturn, AtOp
  <2>2. LoopInv'
    BY <1>1, <2>1, LoopRests DEF AtOp
  <2>3. CASE at' = at + 1 /\ status' = status
    <3>1. OutputsInv' /\ AnswerInv'
      BY <1>1, <2>1, <2>3, AnswerRests
    <3> QED BY <1>1, <2>2, <3>1 DEF RunInv
  <2>4. CASE status' = Here.call
    <3>1. Here.call \notin {"ok", "process_output"}
      BY <1>1, <2>1, Instructed DEF HeldInv, Leads, WellFormed
    <3>2. OutputsInv' /\ AnswerInv'
      BY <1>1, <2>1, <2>4, <3>1, NoAnswer
    <3> QED BY <1>1, <2>2, <3>2 DEF RunInv
  <2> QED BY <1>9, <2>3, <2>4 DEF RequireOrReturn
<1>10. CASE CallPrepareInputs
  <2>1. Here.op = "call" /\ ~Finished /\ linked' = linked /\ status' = status /\ loop' = loop
        /\ outputs' = outputs /\ score' = score /\ length' = length
        /\ at' = at + 1 + (IF status = "ok" THEN 0 ELSE Len(PrepareInputs(linked)))
    BY <1>10 DEF CallPrepareInputs, AtOp
  <2>2. LoopInv'
    BY <1>1, <2>1, LoopRests DEF AtOp
  <2>3. CASE status # "ok"
    <3>1. OutputsInv' /\ AnswerInv'
      BY <1>1, <2>1, <2>3, NoAnswer
    <3> QED BY <1>1, <2>2, <3>1 DEF RunInv
  <2>4. CASE status = "ok"
    <3>1. at' = at + 1
      BY <1>1, <2>1, <2>4, CallPlace, LengthOfRun DEF HeldInv, InCode
    <3>2. Place' = Resolved
      BY <1>1, <2>1, <3>1, CallPlace DEF HeldInv, Place
    <3>3. Place'.stage = "running"
      BY <3>2 DEF Resolved, Running, Mark
    <3>4. OutputsInv' /\ AnswerInv'
      BY <2>1, <2>4, <3>3 DEF OutputsInv, AnswerInv
    <3> QED BY <1>1, <2>2, <3>4 DEF RunInv
  <2> QED BY <2>3, <2>4
<1>11. CASE MallocSpan \/ GiveBack \/ UseUnguarded
  <2>1. Here.op \in {"malloc", "release", "unguarded"} /\ ~Finished /\ linked' = linked
        /\ at' = at + 1 /\ status' = status /\ loop' = loop
        /\ outputs' = outputs /\ score' = score /\ length' = length
    BY <1>11 DEF MallocSpan, GiveBack, UseUnguarded, AtOp
  <2>2. LoopInv'
    BY <1>1, <2>1, LoopRests DEF AtOp
  <2>3. OutputsInv' /\ AnswerInv'
    BY <1>1, <2>1, AnswerRests
  <2> QED BY <1>1, <2>2, <2>3 DEF RunInv
<1>12. CASE Undefined
  <2>1. linked' = linked /\ at' = 0 /\ status' = status /\ loop' = loop /\ outputs' = outputs
        /\ ~AtOp("process")
    BY <1>12 DEF Undefined, AtOp
  <2>2. LoopInv'
    BY <1>1, <2>1, LoopRests
  <2>3. OutputsInv' /\ AnswerInv'
    BY <1>1, <2>1, NoAnswer
  <2> QED BY <1>1, <2>2, <2>3 DEF RunInv
<1>13. CASE Rerelease
  <2>1. linked' = linked /\ at' = 1 /\ status' = "ok" /\ loop' = LoopStart /\ linked \in Builds
    BY <1>1, <1>13 DEF Rerelease, HeldInv, InCode
  <2>2. LoopInv'
    BY <2>1, LoopRestarts
  <2>3. Place'.stage = "running"
    BY <2>1, MarkingMarks DEF MarksOf, Place, Running, Mark
  <2>4. OutputsInv' /\ AnswerInv'
    BY <2>1, <2>3 DEF OutputsInv, AnswerInv
  <2> QED BY <1>1, <2>2, <2>4 DEF RunInv
<1>14. CASE UNCHANGED vars
  <2>1. UNCHANGED <<linked, at, status, held, outputs, loop, score, length>>
    BY <1>14 DEF vars
  <2>2. LoopInv'
    BY <1>1, <2>1
    DEF LoopInv, Locals, LoopStart, Compared, Searched, Numbers, AtOp, Here, Code, Finished, Returned
  <2>3. OutputsInv' /\ AnswerInv'
    BY <1>1, <2>1, SameReference DEF OutputsInv, AnswerInv, Place
  <2> QED BY <1>1, <2>2, <2>3 DEF RunInv
<1> QED
  BY <1>2, <1>3, <1>4, <1>5, <1>6, <1>7, <1>8, <1>9, <1>10, <1>11, <1>12, <1>13, <1>14 DEF Next

\* The invariant of a run.
LEMMA RunAlways == Spec => []RunInv
<1>1. Init => RunInv
  BY RunInit
<1>2. RunInv /\ [Next]_vars => RunInv'
  BY RunStep
<1> QED BY <1>1, <1>2, PTL DEF Spec

\* A run that reports success answers for its own outputs, for every number of
\* elements and whatever the globals held: the score is the first of the
\* largest outputs, or the products are right, and process_output reports a
\* mismatch only when there is one.
THEOREM SuccessIsThisRuns == Spec => []AnswerIsOfThisRun
<1>1. RunInv => AnswerIsOfThisRun
  <2> SUFFICES ASSUME RunInv, Returned
               PROVE  /\ status = "ok" /\ linked.sample \in Nets => score = ReferenceScore /\ length = ScoreSize
                      /\ linked.sample \in Vecs =>
                           /\ status = "ok" => outputs = Products(linked.sample)
                           /\ status = "process_output" => outputs # Products(linked.sample)
    BY DEF AnswerIsOfThisRun
  <2>1. Len(Code) = Len(Run(linked)) /\ Len(Run(linked)) \in Nat /\ linked \in Builds
    BY CodeIsRun, LengthOfRun DEF RunInv, HeldInv, InCode
  <2>2. at = Len(Run(linked)) + 1 /\ at # 0
    BY <2>1 DEF RunInv, HeldInv, InCode, Returned
  <2>3. Place.stage = "answered"
    BY <2>1, <2>2, MarkingMarks DEF MarksOf, Place, Done, Mark
  <2> QED BY <2>2, <2>3 DEF RunInv, AnswerInv
<1> QED BY <1>1, RunAlways, PTL

-----------------------------------------------------------------------------
(* Types.                                                                  *)

\* The instruction at hand is one of those of the builds.
LEMMA HereIsInstruction ==
  ASSUME InCode, ~Finished
  PROVE  Here \in Instructions
<1>1. Len(Code) = Len(Run(linked)) /\ Len(Run(linked)) \in Nat /\ IsCode(Code)
      /\ [build |-> linked, code |-> Code] \in Programs
  BY CodeIsRun, LengthOfRun DEF InCode
<1>2. at \in 1..Len(Code)
  BY <1>1 DEF InCode, Finished, Returned
<1>3. DOMAIN Code = 1..Len(Code)
  BY <1>1 DEF IsCode
<1>4. Here \in Range(Code)
  BY <1>2, <1>3 DEF Range, Here
<1>5. Range(Code) \in {Range(p.code) : p \in Programs}
  BY <1>1
<1> QED BY <1>4, <1>5 DEF Instructions

TypeInv ==
  /\ status \in {"ok"} \cup Calls
  /\ held \subseteq References
  /\ outputs \in {<<>>} \cup Computed(linked.sample)
  /\ score \in [best_idx : -1..(Elements - 1), best_out : {0} \cup FloatOutputs]
  /\ length \in {0, ScoreSize}

\* So are its call and what it acquires.
LEMMA CallsOfCode ==
  ASSUME InCode, ~Finished
  PROVE  Here.call \in Calls /\ Here.gets \subseteq References
BY HereIsInstruction DEF Calls, References

\* Every step keeps the types.
LEMMA TypeStep ==
  ASSUME RunInv, TypeInv, [Next]_vars
  PROVE  TypeInv'
<1>1. HeldInv /\ LoopInv /\ OutputsInv /\ InCode
  BY DEF RunInv, HeldInv
<1>2. CASE Succeed
  <2>1. ~Finished /\ held' = (held \cup Here.gets) \ Here.frees
        /\ linked' = linked /\ status' = status /\ score' = score /\ length' = length
        /\ (outputs' = outputs \/ outputs' \in Computed(linked.sample))
    BY <1>2 DEF Succeed, AtOp
  <2> QED BY <1>1, <2>1, CallsOfCode DEF TypeInv
<1>3. CASE Fail \/ RequireOrReturn
  <2>1. ~Finished /\ status' \in {status, Here.call}
        /\ UNCHANGED <<linked, held, outputs, score, length>>
    BY <1>3 DEF Fail, RequireOrReturn, AtOp
  <2> QED BY <1>1, <2>1, CallsOfCode DEF TypeInv
<1>4. CASE Skip \/ CompareProduct \/ CompareLabel \/ CallPrepareInputs \/ UseUnguarded \/ Undefined
  BY <1>4 DEF Skip, CompareProduct, CompareLabel, CallPrepareInputs, UseUnguarded, Undefined, TypeInv
<1>5. CASE EndProducts
  <2>1. ~Finished /\ status = "ok" /\ Here.op = "process" /\ status' \in {status, "process_output"}
        /\ length' = 0 /\ UNCHANGED <<linked, held, outputs, score>>
    BY <1>5 DEF EndProducts, InLoop, AtOp
  <2>2. "process_output" \in Calls
    <3>1. Here.call = "process_output"
      BY <1>1, <2>1, Instructed DEF Leads, WellFormed
    <3> QED BY <1>1, <2>1, <3>1, CallsOfCode
  <2> QED BY <2>1, <2>2 DEF TypeInv
<1>6. CASE EndLabels
  <2>1. score' = [best_idx |-> loop.best_idx, best_out |-> loop.best_out] /\ length' = ScoreSize
        /\ UNCHANGED <<linked, status, held, outputs>> /\ loop \in Locals
    BY <1>1, <1>6 DEF EndLabels, LoopInv
  <2>2. loop.best_idx \in -1..(Elements - 1) /\ loop.best_out \in {0} \cup FloatOutputs
    BY <2>1 DEF Locals
  <2> QED BY <2>1, <2>2 DEF TypeInv, ScoreSize
<1>7. CASE MallocSpan \/ GiveBack
  <2>1. ~Finished /\ held' \subseteq held \cup Here.gets
        /\ UNCHANGED <<linked, status, outputs, score, length>>
    BY <1>7 DEF MallocSpan, GiveBack, AtOp
  <2> QED BY <1>1, <2>1, CallsOfCode DEF TypeInv
<1>8. CASE Rerelease
  BY <1>8 DEF Rerelease, TypeInv
<1>9. CASE UNCHANGED vars
  BY <1>9 DEF vars, TypeInv
<1> QED BY <1>2, <1>3, <1>4, <1>5, <1>6, <1>7, <1>8, <1>9 DEF Next

\* The state keeps its types, for every number of elements: what is held is
\* something the code acquires, the status is the name of a call, and the index
\* of the best label is that of an output or -1.
THEOREM TypesAreKept == Spec => []TypeOK
<1>1. Init => RunInv /\ TypeInv
  <2> SUFFICES ASSUME Init PROVE TypeInv
    BY RunInit
  <2> QED BY ElementsAssumption DEF Init, TypeInv
<1>2. RunInv /\ TypeInv /\ [Next]_vars => RunInv' /\ TypeInv'
  BY RunStep, TypeStep
<1>3. RunInv /\ TypeInv => TypeOK
  <2> SUFFICES ASSUME RunInv, TypeInv PROVE TypeOK
    OBVIOUS
  <2>1. linked \in Builds /\ at \in 0..Len(Code) + 1
    BY CodeIsRun DEF RunInv, HeldInv, InCode
  <2> QED BY <2>1 DEF RunInv, LoopInv, Locals, TypeInv, TypeOK
<1> QED BY <1>1, <1>2, <1>3, PTL DEF Spec
=============================================================================
