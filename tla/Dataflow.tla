------------------------------- MODULE Dataflow -------------------------------
(***************************************************************************)
(* The Oz dialect of src/experiments/dataflow/dataflow.coil: logic         *)
(* variables that are bound once, equations ("threads") that park on their *)
(* unbound inputs, and the program that oz generates around them.  The     *)
(* program configures its rules, gives each one turn, runs its body, which *)
(* binds and reads variables, and finishes when every rule has.            *)
(*                                                                         *)
(* Rules are the Tasks and variables the WaitQueues of CoopTasks.  A turn  *)
(* of scheduler-run! is one action.  Integers wrap at Half, and division   *)
(* truncates toward zero, as i64 does in the code.                         *)
(***************************************************************************)
EXTENDS CoopTasks

CONSTANTS
    NoVar,      \* no variable is being waited for
    N,          \* the number of equations
    Operations, \* the operations they use
    Inputs,     \* the values a body binds
    Half,       \* integers are -Half .. Half - 1 (2^63 in the code)
    MaxForms    \* bound: forms of a body

\* Every rule embeds the Task that runs it, every variable the WaitQueue of its
\* readers: they have the same names.
Rule == Task
Var == WaitQueue

ASSUME DataflowConstants ==
    /\ Task = 1 .. N
    /\ NoVar \notin Var
    /\ N \in Nat \ {0} /\ MaxForms \in Nat /\ Half \in Nat \ {0}
    /\ Operations \subseteq {"sum", "product", "percent"}
    /\ Inputs \subseteq -Half .. Half - 1

VARIABLES
    rules,      \* what dataflow-rule-configure! stored: operation and variables
    sched,      \* the scheduler
    steps,      \* Scheduler.steps, until the first run was judged
    var,        \* the variables: bound, value
    machine,    \* each rule's program counter and captured inputs
    phase,      \* where the program is; "done" and "aborted" are its ends
    wanted,     \* the variable a dataflow-resolve! waits for
    forms,      \* forms the body may still have
    given,      \* history: the values the body bound, by variable
    dropped     \* history: rules whose binding was a Conflict

vars == <<rules, sched, steps, var, machine, phase, wanted, forms, given, dropped>>

Values == -Half .. Half - 1

Equation == [operation : Operations, left : Var, right : Var, output : Var]

Phases == {"first", "body", "resolving", "finishing", "done", "aborted"}

TypeOK ==
    /\ rules \in [Rule -> Equation]
    /\ sched \in SchedulerRecord
    /\ steps \in 0 .. N
    /\ var \in [Var -> [bound : BOOLEAN, value : Values]]
    /\ machine \in [Rule -> [state : 0 .. 2, left : Values, right : Values]]
    /\ phase \in Phases
    /\ wanted \in Var \cup {NoVar}
    /\ forms \in 0 .. MaxForms
    /\ DOMAIN given \subseteq Var
    /\ dropped \subseteq Rule
    /\ sched.live = Cardinality({r \in Rule : machine[r].state # 2})

\* dataflow-var-new, and a block malloc hands out with what it held before.
NewVarUnset == [bound |-> TRUE, value |-> 0]

NewVar == [bound |-> FALSE, value |-> 0]

Init ==
    /\ rules \in [Rule -> Equation]
    /\ sched = Started([i \in Rule |-> i])
    /\ steps = 0
    /\ var = [v \in Var |-> NewVar]
    /\ machine = [r \in Rule |-> [state |-> 0, left |-> 0, right |-> 0]]
    /\ phase = "first"
    /\ wanted = NoVar
    /\ forms = MaxForms
    /\ given = <<>>
    /\ dropped = {}

-----------------------------------------------------------------------------
(* Integers of the code. *)

Wrapped(x) == ((x + Half) % (2 * Half)) - Half

Truncated(x, d) == IF x < 0 THEN -((-x) \div d) ELSE x \div d

Apply(operation, l, r) ==
    CASE operation = "sum"     -> Wrapped(l + r)
      [] operation = "product" -> Wrapped(l * r)
      [] operation = "percent" -> Truncated(Wrapped(l * r), 100)

-----------------------------------------------------------------------------
(* dataflow-bind!: the variable and the scheduler after v is unified with x. *)

Conflicts(v, x) == var[v].bound /\ var[v].value # x

Unified(v, x) ==
    IF var[v].bound THEN var ELSE [var EXCEPT ![v] = [bound |-> TRUE, value |-> x]]

ReadersWokenOne(s, v) == IF var[v].bound THEN s ELSE WakeOne(s, v)

ReadersWoken(s, v) == IF var[v].bound THEN s ELSE WakeAll(s, v)

-----------------------------------------------------------------------------
(* dataflow-rule-step, as a turn of scheduler-run!. *)

Runs == phase \in {"first", "resolving", "finishing"}

Turn(r) ==
    /\ Runs
    /\ sched.ready # <<>> /\ r = Head(sched.ready)
    /\ steps' = IF phase = "first" THEN steps + 1 ELSE steps

\* An input that was read before the rule parked keeps the value it had then.
LeftValue(r) == IF machine[r].state = 0 THEN var[rules[r].left].value ELSE machine[r].left

LeftKnown(r) == machine[r].state > 0 \/ var[rules[r].left].bound

ParkOn(r, v) ==
    sched' = AfterStep(Park(Take(sched), v, r), r)

ParksLeft(r) ==
    /\ Turn(r)
    /\ ~LeftKnown(r)
    /\ ParkOn(r, rules[r].left)
    /\ UNCHANGED <<rules, var, machine, phase, wanted, forms, given, dropped>>

ParksRight(r) ==
    /\ Turn(r)
    /\ LeftKnown(r) /\ ~var[rules[r].right].bound
    /\ machine' = [machine EXCEPT ![r].state = 1, ![r].left = LeftValue(r)]
    /\ ParkOn(r, rules[r].right)
    /\ UNCHANGED <<rules, var, phase, wanted, forms, given, dropped>>

Fires(r) ==
    LET right == var[rules[r].right].value
        x     == Apply(rules[r].operation, LeftValue(r), right)
        out   == rules[r].output
    IN  /\ Turn(r)
        /\ LeftKnown(r) /\ var[rules[r].right].bound
        /\ machine' = [machine EXCEPT ![r] = [state |-> 2, left |-> LeftValue(r),
                                              right |-> right]]
        /\ var' = Unified(out, x)
        /\ sched' = AfterStep(Complete(ReadersWoken(Take(sched), out), r), r)
        /\ dropped' = IF Conflicts(out, x) THEN dropped \cup {r} ELSE dropped
        /\ UNCHANGED <<rules, phase, wanted, forms, given>>

RuleStep == \E r \in Rule : ParksLeft(r) \/ ParksRight(r) \/ Fires(r)

-----------------------------------------------------------------------------
(* The program oz generates. *)

Quiet == sched.ready = <<>>

\* Every equation had one turn, and none could go on.
Gate ==
    /\ phase = "first" /\ Quiet
    /\ phase' = IF sched.live # 0 /\ steps = N /\ sched.live = N
                THEN "body" ELSE "aborted"
    /\ UNCHANGED <<rules, sched, steps, var, machine, wanted, forms, given, dropped>>

\* (= v x) in the body; the program sees the answer.
Bind(v, x) ==
    /\ phase = "body" /\ forms > 0
    /\ forms' = forms - 1
    /\ var' = Unified(v, x)
    /\ sched' = ReadersWoken(sched, v)
    /\ given' = IF var[v].bound THEN given
                ELSE [w \in DOMAIN given \cup {v} |-> IF w = v THEN x ELSE given[w]]
    /\ UNCHANGED <<rules, steps, machine, phase, wanted, dropped>>

\* dataflow-resolve! of a variable the body names.
ResolveUnrun(v) ==
    /\ phase = "body" /\ forms > 0
    /\ forms' = forms - 1
    /\ phase' = IF var[v].bound THEN "body" ELSE "aborted"
    /\ wanted' = IF var[v].bound THEN NoVar ELSE v
    /\ UNCHANGED <<rules, sched, steps, var, machine, given, dropped>>

Resolve(v) ==
    /\ phase = "body" /\ forms > 0
    /\ forms' = forms - 1
    /\ phase' = IF var[v].bound THEN "body" ELSE "resolving"
    /\ wanted' = IF var[v].bound THEN NoVar ELSE v
    /\ UNCHANGED <<rules, sched, steps, var, machine, given, dropped>>

Resolved ==
    /\ phase = "resolving" /\ Quiet
    /\ phase' = IF var[wanted].bound THEN "body" ELSE "aborted"
    /\ wanted' = IF var[wanted].bound THEN NoVar ELSE wanted
    /\ UNCHANGED <<rules, sched, steps, var, machine, forms, given, dropped>>

BodyEnds ==
    /\ phase = "body"
    /\ phase' = "finishing"
    /\ UNCHANGED <<rules, sched, steps, var, machine, wanted, forms, given, dropped>>

\* dataflow-finish!: scheduler-run! answers by its live counter.
Finish ==
    /\ phase = "finishing" /\ Quiet
    /\ phase' = IF sched.live = 0 THEN "done" ELSE "aborted"
    /\ UNCHANGED <<rules, sched, steps, var, machine, wanted, forms, given, dropped>>

Next ==
    \/ RuleStep
    \/ Gate \/ Resolved \/ BodyEnds \/ Finish
    \/ \E v \in Var : Resolve(v) \/ \E x \in Inputs : Bind(v, x)

Spec == Init /\ [][Next]_vars

-----------------------------------------------------------------------------
(* The reference: the least solution of the equations over what the body     *)
(* bound, computed without a scheduler.                                       *)

Known == {v \in Var : var[v].bound}

\* One round: every equation with known inputs gives its output a value, unless
\* it has one.
Enabled(env, v) ==
    {r \in Rule : /\ rules[r].output = v
                  /\ {rules[r].left, rules[r].right} \subseteq DOMAIN env}

Round(env) ==
    LET new == {v \in Var \ DOMAIN env : Enabled(env, v) # {}}
    IN  [v \in DOMAIN env \cup new |->
            IF v \in DOMAIN env THEN env[v]
            ELSE LET r == CHOOSE r \in Enabled(env, v) : TRUE
                 IN  Apply(rules[r].operation, env[rules[r].left], env[rules[r].right])]

\* Each equation adds at most one variable, so N rounds reach the fixed point.
Solution ==
    LET after[n \in 0 .. N] == IF n = 0 THEN given ELSE Round(after[n - 1])
    IN  after[N]

-----------------------------------------------------------------------------
(* Properties. *)

\* "Bind order can vary without changing a deterministic graph's result": when
\* the scheduler is quiet and no equation conflicted, the variables hold the
\* least solution, whatever the order of bindings, reads and turns was.
LeastSolution ==
    Runs /\ Quiet /\ dropped = {} =>
        /\ Known = DOMAIN Solution
        /\ \A v \in Known : var[v].value = Solution[v]

\* The check after the first run never fires: no rule can have an input then.
GatePasses == phase = "first" /\ Quiet => sched.live = N /\ steps = N

\* An abort is a dependency that the bindings made so far cannot resolve, and
\* a program that ends normally left none.
AbortsExactly ==
    /\ phase = "aborted" =>
          \/ wanted # NoVar /\ wanted \notin DOMAIN Solution
          \/ wanted = NoVar /\ \E r \in Rule :
                ~({rules[r].left, rules[r].right} \subseteq DOMAIN Solution)
    /\ phase = "done" => \A r \in Rule :
          {rules[r].left, rules[r].right} \subseteq DOMAIN Solution

=============================================================================
