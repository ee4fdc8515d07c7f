----------------------------- MODULE RunModel -----------------------------
(***************************************************************************)
(* run() of samples/util/util.c with everything it calls: the context and  *)
(* device creation of each build, the inputs of each kind of sample, the   *)
(* invocation, the outputs and the clean-up.  Any call can fail; from then *)
(* on the program carries the first error to the end and must give back    *)
(* what it acquired.                                                       *)
(*                                                                         *)
(* run() itself has no loop whose length depends on data, so it is a       *)
(* straight line of instructions for each build, process_output being one  *)
(* of them, with a loop of its own; the state is the place reached, the    *)
(* status, the references this code holds, what the device computed, the   *)
(* locals of that loop, and the globals that hold the answer for the host. *)
(* IREE itself is external: a call succeeds and hands out a reference, or  *)
(* fails.                                                                  *)
(*                                                                         *)
(* The host can release the core again at any time.  The heap, the globals *)
(* and .bss stay: what an unfinished run held is lost, and what a finished *)
(* one answered is still there.                                            *)
(***************************************************************************)
EXTENDS Integers, Sequences, Functions

CONSTANTS Elements,      \* length of the inputs and of the output
          FloatOutputs,  \* outputs of a network in binary32, NaN apart
          NaN            \* the output that compares false with every number

ASSUME ElementsAssumption == Elements \in Nat \ {0}
ASSUME FloatAssumption == FloatOutputs \subseteq Int /\ NaN \notin Int

-----------------------------------------------------------------------------
(* The samples: kModel of each.                                            *)

Model(num_input, num_output, element) ==
  [num_input |-> num_input, num_output |-> num_output, element |-> element]

IntVec         == Model(2, 1, "sint32")
FloatVec       == Model(2, 1, "float32")
Mnist          == Model(1, 1, "float32")
MobilenetFloat == Model(1, 1, "float32")
MobilenetQuant == Model(1, 1, "uint8")

KModel == [int_vec |-> IntVec, float_vec |-> FloatVec, mnist |-> Mnist,
           mobilenet_float |-> MobilenetFloat, mobilenet_quant |-> MobilenetQuant]

\* simple_vec_mul multiplies two vectors it fills; a network classifies one
\* input embedded in the image.
Vecs == {"int_vec", "float_vec"}
Nets == {"mnist", "mobilenet_float", "mobilenet_quant"}

\* hal: the HAL modules linked in; loader: the executable loader of the device.
VecBuilds == {[hal |-> h[1], loader |-> h[2], sample |-> v] :
                h \in {<<"inline", "vmvx">>, <<"loader", "static">>}, v \in Vecs}
NetBuilds == [hal : {"full"}, loader : {"static"}, sample : Nets]
Builds    == VecBuilds \cup NetBuilds

NumInput(build)  == KModel[build.sample].num_input
NumOutput(build) == KModel[build.sample].num_output

Index == 0..(Elements - 1)

\* What load_input_data fills the vectors with, and what process_output expects
\* of their product.  The floats are exact: the inputs are counted in quarters
\* and halves, the products in eighths.
IntInputs(i)     == <<i \div 2, i>>
IntExpected(i)   == (i \div 2) * i
FloatInputs(i)   == <<i, i>>
FloatExpected(i) == i * i

Buffer  == <<"buffer1", "buffer2">>
Span    == <<"span1", "span2">>
View    == <<"view1", "view2">>
Mapping == <<"mapping1", "mapping2">>

-----------------------------------------------------------------------------
(* Instructions.  `uses' are references the call dereferences, `gets' the   *)
(* one it acquires, `frees' those given back.                               *)

Instruction(op, call, uses, gets, frees) ==
  [op |-> op, call |-> call, uses |-> uses, gets |-> gets, frees |-> frees]

\* if (iree_status_is_ok(result)) result = call(uses, &gets);
Try(call, uses, gets)   == Instruction("try", call, uses, gets, {})
\* if (iree_status_is_ok(result)) result = call(...); the callee has steps to skip
CallIfOk(call)          == Instruction("call", call, {}, {}, {})
\* IREE_RETURN_IF_ERROR(call(uses)), the previous result notwithstanding
Require(call, uses)     == Instruction("require", call, uses, {}, {})
\* *(gets = malloc()) = ..., the pointer not checked
Malloc(gets)            == Instruction("malloc", "malloc", {}, gets, {})
\* ref = move(view); if (ok) result = push(list, &ref);
Push(view)              == Instruction("try", "push", {"inputs"}, {}, {view})
\* if (iree_status_is_ok(result)) { result = process_output(uses, &length); ... }
Process(uses)           == Instruction("process", "process_output", uses, {}, {})
\* releases of references that may be NULL
Release(frees)          == Instruction("release", "release", {}, {}, frees)
Unmap(mapping)          == Instruction("release", "unmap", {"outputs"}, {}, {mapping})
\* a use of a pointer that is not guarded by the status
Unguarded(call, uses)   == Instruction("unguarded", call, uses, {}, {})

\* Every sample has one output and one or two inputs.
ForEach(n, body) == IF n = 1 THEN body[1] ELSE body[1] \o body[2]

StaticDevice ==
  <<Try("loader", {}, {"loader"}),
    Try("allocator", {}, {"allocator"}),
    Try("device", {"loader", "allocator"}, {"device"}),
    Release({"allocator"})>>

VmvxDevice ==
  <<Try("vmvx_instance", {}, {"vmvx_instance"}),
    Try("loader", {"vmvx_instance"}, {"loader"}),
    Release({"vmvx_instance"}),
    Try("allocator", {}, {"allocator"}),
    Try("device", {"loader", "allocator"}, {"device"}),
    Release({"allocator"})>>

CreateSampleDevice(build) ==
  IF build.loader = "static" THEN StaticDevice ELSE VmvxDevice

CreateModule == <<Try("module", {"instance"}, {"module"})>>

HalModules(build) ==
  CASE build.hal = "full"   -> {"hal_module"}
    [] build.hal = "inline" -> {"hal_inline_module"}
    [] build.hal = "loader" -> {"hal_inline_module", "hal_loader_module"}

CreateHalModules(build) ==
  IF build.hal = "full"
  THEN <<Try("hal_module", {"instance", "device"}, {"hal_module"})>>
  ELSE <<Try("hal_inline_module", {"instance", "device"}, {"hal_inline_module"})>>
       \o (IF build.hal = "loader"
           THEN <<Try("hal_loader_module", {"instance", "loader"}, {"hal_loader_module"})>>
           ELSE <<>>)

\* Faulty variant: the loader is not released.
CreateContextKeepingLoader(build) ==
  <<Try("instance", {}, {"instance"}),
    Require("register_types", {"instance"})>>
  \o CreateSampleDevice(build)
  \o CreateModule
  \o CreateHalModules(build)
  \o <<Try("context", {"instance", "module"} \cup HalModules(build), {"context"}),
       Release(HalModules(build)),
       Release({"module"})>>

\* The instance is created into a parameter passed by value: run's own
\* variable stays NULL, and its release at the end gives nothing back.
CreateContext(build) ==
  <<Try("instance", {}, {"instance"}),
    Require("register_types", {"instance"})>>
  \o CreateSampleDevice(build)
  \o CreateModule
  \o CreateHalModules(build)
  \o <<Release({"loader"}),
       Try("context", {"instance", "module"} \cup HalModules(build), {"context"}),
       Release(HalModules(build)),
       Release({"module"})>>

AllocInputBuffer(build) ==
  ForEach(NumInput(build), [i \in 1..2 |-> <<Try("alloc", {}, {Buffer[i]})>>])

VecLoadInputData(build) ==
  AllocInputBuffer(build)
  \o ForEach(NumInput(build), [i \in 1..2 |-> <<Malloc({Span[i]})>>])

NetLoadInputData == <<Malloc({Span[1]})>>

LoadInputData(build) ==
  IF build.sample \in Vecs THEN VecLoadInputData(build) ELSE NetLoadInputData

PrepareInputs(build) ==
  LoadInputData(build)
  \o ForEach(NumInput(build), [i \in 1..2 |->
       <<Try("view", {"device", Span[i]} \cup (IF build.sample \in Vecs THEN {Buffer[i]} ELSE {}),
             {View[i]}),
         Release({Span[i]})>>])

Invoke(build) ==
  <<Try("list", {}, {"inputs"})>>
  \o ForEach(NumInput(build), [i \in 1..2 |-> <<Push(View[i])>>])
  \o <<Try("list", {}, {"outputs"}),
       Try("invoke", {"context", "inputs", "outputs"}, {})>>

GatherOutputs(build) ==
  ForEach(NumOutput(build), [i \in 1..2 |->
    <<Try("lookup", {"outputs"}, {}),
      Try("map", {"outputs"}, {Mapping[i]}),
      Try("length", {Mapping[i]}, {})>>])

\* Faulty variant: the lists are released before the outputs are unmapped.
CleanUpListsFirst(build) ==
  <<Release({"inputs"}), Release({"outputs"})>>
  \o ForEach(NumOutput(build), [i \in 1..2 |-> <<Unmap(Mapping[i])>>])
  \o ForEach(NumInput(build), [i \in 1..2 |-> <<Release({Buffer[i]})>>])
  \o <<Release({"context"}),
       Unguarded("statistics", {"device"}),
       Release({"device"})>>

CleanUp(build) ==
  ForEach(NumOutput(build), [i \in 1..2 |-> <<Unmap(Mapping[i])>>])
  \o <<Release({"inputs"}), Release({"outputs"})>>
  \o ForEach(NumInput(build), [i \in 1..2 |-> <<Release({Buffer[i]})>>])
  \o <<Release({"context"}),
       Unguarded("statistics", {"device"}),
       Release({"device"})>>

Run(build) ==
  CreateContext(build)
  \o <<Try("resolve", {"context"}, {})>>
  \o <<CallIfOk("prepare_inputs")>> \o PrepareInputs(build)
  \o Invoke(build)
  \o GatherOutputs(build)
  \o <<Process({Mapping[i] : i \in 1..NumOutput(build)})>>
  \o CleanUp(build)

-----------------------------------------------------------------------------
(* process_output of each sample.                                          *)

Matches(sample, i, out) ==
  CASE sample = "int_vec"   -> out = IntExpected(i)
    [] sample = "float_vec" -> out = FloatExpected(i)

\* Faulty variant: an output as good as the best one replaces it.
MnistBetterOrEqual(out, best) == out # NaN /\ out >= best

MnistBetter(out, best)          == out # NaN /\ out > best
MobilenetFloatBetter(out, best) == out # NaN /\ out > best
MobilenetQuantBetter(out, best) == out > best

Better(sample, out, best) ==
  CASE sample = "mnist"           -> MnistBetter(out, best)
    [] sample = "mobilenet_float" -> MobilenetFloatBetter(out, best)
    [] sample = "mobilenet_quant" -> MobilenetQuantBetter(out, best)

\* The search starts below every index, with an output of 0.
LoopStart == [next |-> 0, best_idx |-> -1, best_out |-> 0]

ScoreSize == 8           \* sizeof(score)

-----------------------------------------------------------------------------
(* What the device may compute: a product that is right or wrong in one    *)
(* element, any outputs of a network.                                      *)

Product(sample, i) ==
  IF sample = "int_vec" THEN IntInputs(i)[1] * IntInputs(i)[2]
                        ELSE FloatInputs(i)[1] * FloatInputs(i)[2]
Products(sample) == [i \in Index |-> Product(sample, i)]

Computed(sample) ==
  CASE sample \in Vecs -> {Products(sample)} \cup
                            {[Products(sample) EXCEPT ![i] = @ + 1] : i \in Index}
    [] sample \in {"mnist", "mobilenet_float"} -> [Index -> FloatOutputs \cup {NaN}]
    [] sample = "mobilenet_quant" -> [Index -> {n \in FloatOutputs : n >= 0}]

-----------------------------------------------------------------------------
VARIABLES linked,   \* the build that runs
          at,       \* the next instruction; 0 once the behaviour is undefined
          status,   \* "ok", or the call that failed first
          held,     \* references this code has to give back
          outputs,  \* what the device computed; <<>> before it did
          loop,     \* the locals of process_output
          score,    \* the global of the networks
          length    \* output_header.length

vars == <<linked, at, status, held, outputs, loop, score, length>>

Programs == {[build |-> b, code |-> Run(b)] : b \in Builds}
Code     == (CHOOSE p \in Programs : p.build = linked).code
Here     == Code[at]
Returned == at > Len(Code)
Finished == at = 0 \/ Returned

Instructions == UNION {Range(p.code) : p \in Programs}
Calls        == {i.call : i \in Instructions}
References   == UNION {i.gets : i \in Instructions}

TypeOK ==
  /\ linked \in Builds
  /\ at \in 0..Len(Code) + 1
  /\ status \in {"ok"} \cup Calls
  /\ held \subseteq References
  /\ outputs \in {<<>>} \cup Computed(linked.sample)
  /\ loop \in [next : 0..Elements, best_idx : -1..(Elements - 1), best_out : {0} \cup FloatOutputs]
  /\ score \in [best_idx : -1..(Elements - 1), best_out : {0} \cup FloatOutputs]
  /\ length \in {0, ScoreSize}

Init ==
  /\ linked \in Builds
  /\ at = 1
  /\ status = "ok"
  /\ held = {}
  /\ outputs = <<>>
  /\ loop = LoopStart
  /\ score = [best_idx |-> 0, best_out |-> 0]
  /\ length = 0

AtOp(op) == ~Finished /\ Here.op = op

Succeed ==
  /\ AtOp("try") /\ status = "ok"
  /\ held' = (held \cup Here.gets) \ Here.frees
  /\ at' = at + 1
  /\ IF Here.call = "invoke" THEN outputs' \in Computed(linked.sample) ELSE UNCHANGED outputs
  /\ UNCHANGED <<linked, status, loop, score, length>>

\* Faulty variant: the call is made, and its error kept, whatever failed before.
FailUnguarded ==
  /\ AtOp("try")
  /\ status' = Here.call
  /\ at' = at + 1
  /\ UNCHANGED <<linked, held, outputs, loop, score, length>>

Fail ==
  /\ AtOp("try") /\ status = "ok"
  /\ status' = Here.call
  /\ at' = at + 1
  /\ UNCHANGED <<linked, held, outputs, loop, score, length>>

Skip ==
  /\ AtOp("try") \/ AtOp("process")
  /\ status # "ok"
  /\ at' = at + 1
  /\ UNCHANGED <<linked, status, held, outputs, loop, score, length>>

InLoop(samples) == AtOp("process") /\ status = "ok" /\ linked.sample \in samples

\* The products are compared up to the first that is wrong, and no length is set.
CompareProduct ==
  /\ InLoop(Vecs)
  /\ loop.next \in Index
  /\ Matches(linked.sample, loop.next, outputs[loop.next])
  /\ loop' = [loop EXCEPT !.next = @ + 1]
  /\ UNCHANGED <<linked, at, status, held, outputs, score, length>>

EndProducts ==
  /\ InLoop(Vecs)
  /\ \/ loop.next = Elements /\ UNCHANGED status
     \/ /\ loop.next \in Index
        /\ ~Matches(linked.sample, loop.next, outputs[loop.next])
        /\ status' = "process_output"
  /\ length' = 0
  /\ loop' = LoopStart
  /\ at' = at + 1
  /\ UNCHANGED <<linked, held, outputs, score>>

CompareLabel ==
  /\ InLoop(Nets)
  /\ loop.next \in Index
  /\ LET out == outputs[loop.next]
     IN  loop' = IF Better(linked.sample, out, loop.best_out)
                 THEN [next |-> loop.next + 1, best_idx |-> loop.next, best_out |-> out]
                 ELSE [loop EXCEPT !.next = @ + 1]
  /\ UNCHANGED <<linked, at, status, held, outputs, score, length>>

EndLabels ==
  /\ InLoop(Nets)
  /\ loop.next = Elements
  /\ score' = [best_idx |-> loop.best_idx, best_out |-> loop.best_out]
  /\ length' = ScoreSize
  /\ loop' = LoopStart
  /\ at' = at + 1
  /\ UNCHANGED <<linked, status, held, outputs>>

\* The early return of create_context; what follows has acquired nothing.
RequireOrReturn ==
  /\ AtOp("require")
  /\ Here.uses \subseteq held
  /\ \/ at' = at + 1 /\ UNCHANGED status
     \/ at' = Len(CreateContext(linked)) + 1 /\ status' = Here.call
  /\ UNCHANGED <<linked, held, outputs, loop, score, length>>

\* After an error no input is prepared, not even a span allocated.
CallPrepareInputs ==
  /\ AtOp("call")
  /\ at' = at + 1 + (IF status = "ok" THEN 0 ELSE Len(PrepareInputs(linked)))
  /\ UNCHANGED <<linked, status, held, outputs, loop, score, length>>

MallocSpan ==
  /\ AtOp("malloc")
  /\ held' = held \cup Here.gets
  /\ at' = at + 1
  /\ UNCHANGED <<linked, status, outputs, loop, score, length>>

\* Faulty variant: the step after a release is lost.
GiveBackSkipping ==
  /\ AtOp("release")
  /\ held' = held \ Here.frees
  /\ at' = at + 2
  /\ UNCHANGED <<linked, status, outputs, loop, score, length>>

GiveBack ==
  /\ AtOp("release")
  /\ held' = held \ Here.frees
  /\ at' = at + 1
  /\ UNCHANGED <<linked, status, outputs, loop, score, length>>

UseUnguarded ==
  /\ AtOp("unguarded")
  /\ Here.uses \subseteq held
  /\ at' = at + 1
  /\ UNCHANGED <<linked, status, held, outputs, loop, score, length>>

\* A NULL pointer is dereferenced: the instance that could not be created, a
\* span malloc did not return, the device that does not exist.
Undefined ==
  /\ \/ (AtOp("require") \/ AtOp("unguarded")) /\ ~(Here.uses \subseteq held)
     \/ AtOp("malloc")
  /\ at' = 0
  /\ UNCHANGED <<linked, status, held, outputs, loop, score, length>>

\* The host releases the core again, without loading the program.
Rerelease ==
  /\ at' = 1
  /\ status' = "ok"
  /\ held' = {}
  /\ outputs' = <<>>
  /\ loop' = LoopStart
  /\ UNCHANGED <<linked, score, length>>

Next ==
  \/ Succeed \/ Fail \/ Skip
  \/ CompareProduct \/ EndProducts \/ CompareLabel \/ EndLabels
  \/ RequireOrReturn \/ CallPrepareInputs \/ MallocSpan \/ GiveBack \/ UseUnguarded
  \/ Undefined
  \/ Rerelease

Spec == Init /\ [][Next]_vars

-----------------------------------------------------------------------------
(* Properties.                                                             *)

\* Whatever failed before, a call that is made finds every reference it uses
\* still held, and a mapping is undone while the list that owns its buffer
\* exists.
UsesOnlyHeld ==
  \/ (AtOp("try") \/ AtOp("process")) /\ status = "ok"
  \/ AtOp("release") /\ Here.frees \cap held # {}
  => Here.uses \subseteq held

\* run() returns with nothing but the instance when it succeeds, and with at
\* most the instance and input views when it fails.
OnlyViewsLeak ==
  Returned =>
    held \subseteq {"instance"} \cup (IF status = "ok" THEN {} ELSE {View[1], View[2]})

\* The first error is the one run() reports: no later call of the same run
\* replaces it.
FirstErrorReported == [][status # "ok" => status' = status \/ Rerelease]_vars

\* What a label has to be: the first of the outputs that no other exceeds, if
\* it is positive; an output that is not a number is never taken.
Numbers == {i \in Index : outputs[i] # NaN}
Maxima  == {i \in Numbers : \A j \in Numbers : outputs[j] <= outputs[i]}
FirstMaximum == CHOOSE i \in Maxima : \A j \in Maxima : i <= j
ReferenceScore ==
  IF \E i \in Numbers : outputs[i] > 0
  THEN [best_idx |-> FirstMaximum, best_out |-> outputs[FirstMaximum]]
  ELSE [best_idx |-> -1, best_out |-> 0]

\* A run that reports success answers for its own outputs, whatever an earlier
\* run or an unfinished one has left in the globals: the score is that of these
\* outputs and the length says that there is one, or the products are those of
\* the inputs that were filled in.  A mismatch is reported only when there is
\* one.
AnswerIsOfThisRun ==
  Returned =>
    /\ status = "ok" /\ linked.sample \in Nets => score = ReferenceScore /\ length = ScoreSize
    /\ linked.sample \in Vecs =>
         /\ status = "ok" => outputs = Products(linked.sample)
         /\ status = "process_output" => outputs # Products(linked.sample)

\* The input views are released by the caller of
\* prepare_input_hal_buffer_views, as its comment demands.
ViewsReleased == Returned => held \cap {View[1], View[2]} = {}
=============================================================================
