---------------------------- MODULE Expressions ----------------------------
(***************************************************************************)
(* The expressions of rules, compiled when first needed                    *)
(* (sift-filter/src/rule.rs: LazyRegex).                                   *)
(*                                                                         *)
(* Every expression has a slot behind a lock of its own, and those that    *)
(* hold a compiled one are queued, oldest first, behind one lock of the    *)
(* process.  Queries match on many threads; the one that compiles an       *)
(* expression trims the queue, and gives what was used since it was last   *)
(* looked at a second chance.  The queue's references are weak: those of   *)
(* an engine that was replaced lead nowhere once no query holds it.        *)
(***************************************************************************)
EXTENDS Naturals, SequencesExt, FiniteSets

CONSTANTS
    Matchers,     \* threads that match
    Exprs,
    Generation,   \* Generation[e]: the engine, 1 or 2, whose rule e is of
    Broken,       \* expressions that do not compile
    Handwritten,  \* /regex/ rules, compiled when the list is read
    MaxCompiled,  \* MAX_COMPILED
    HardCeiling   \* HARD_CEILING

ASSUME ExpressionsAssumption ==
    /\ Broken \subseteq Exprs /\ Handwritten \subseteq Exprs \ Broken
    /\ Generation \in [Exprs -> {1, 2}]
    /\ MaxCompiled \in Nat /\ HardCeiling \in Nat /\ HardCeiling >= MaxCompiled

VARIABLES
    held,      \* LazyRegex::re: "empty", "failed" or "built"
    used,      \* LazyRegex::used
    compiled,  \* COMPILED
    current,   \* the engine in use
    task       \* where each thread is, with its expression

exprVars == <<held, used, compiled, current, task>>

NoMatcher == [at |-> "idle"]
Working(m) == task[m].at # "idle"
At(m, p) == task[m].at = p

ExprInit ==
    /\ held = [e \in Exprs |-> IF e \in Handwritten THEN "built" ELSE "empty"]
    /\ used = [e \in Exprs |-> FALSE]
    /\ compiled = <<>>
    /\ current = 1
    /\ task = [m \in Matchers |-> NoMatcher]

\* Weak::upgrade: the engine of the rule is in use, or a query holds it.
Upgrades(e) ==
    Generation[e] = current \/ \E m \in Matchers : Working(m) /\ Generation[task[m].expr] = Generation[e]

\* is_match: the slot is looked at, and its lock let go.
Consult(m, e) ==
    /\ ~Working(m)
    /\ Generation[e] = current
    /\ held[e] # "failed"
    /\ task' = [task EXCEPT ![m] = [at   |-> IF held[e] = "built" THEN "use" ELSE "build",
                                    expr |-> e]]
    /\ UNCHANGED <<held, used, compiled, current>>

\* is_match, with a reference to what was built.
Use(m) ==
    /\ At(m, "use")
    /\ used' = [used EXCEPT ![task[m].expr] = TRUE]
    /\ task' = [task EXCEPT ![m] = NoMatcher]
    /\ UNCHANGED <<held, compiled, current>>

\* build: the expression is compiled, maybe by several threads, and kept.
Build(m) ==
    LET e == task[m].expr
    IN  /\ At(m, "build")
        /\ held' = [held EXCEPT ![e] = IF e \in Broken THEN "failed" ELSE "built"]
        /\ task' = [task EXCEPT ![m] = IF e \in Broken THEN NoMatcher ELSE [@ EXCEPT !.at = "queue"]]
        /\ UNCHANGED <<used, compiled, current>>

Trimming(m) == task[m].at \in {"trim", "drop"}

\* The queue is locked, and stays so until it is trimmed.
Enqueue(m) ==
    /\ At(m, "queue")
    /\ \A n \in Matchers : ~Trimming(n)
    /\ compiled' = Append(compiled, task[m].expr)
    /\ task' = [task EXCEPT ![m] = [at |-> "trim", expr |-> @.expr, passes |-> Len(compiled')]]
    /\ UNCHANGED <<held, used, current>>

\* Mutant of SecondChance: whatever was used stays, however many there are.
SecondChanceAlways(e, left) == used[e]

\* Past the hard ceiling none is offered.
SecondChance(e, left) == left <= HardCeiling /\ used[e]

\* One turn of the loop: the oldest leaves the queue, goes back to its end, or
\* is to be dropped.
Trim(m) ==
    LET e    == Head(compiled)
        rest == Tail(compiled)
    IN  /\ At(m, "trim")
        /\ Len(compiled) > MaxCompiled /\ task[m].passes > 0
        /\ \/ /\ ~Upgrades(e)
              /\ compiled' = rest
              /\ task' = [task EXCEPT ![m].passes = @ - 1]
              /\ UNCHANGED used
           \/ /\ Upgrades(e) /\ SecondChance(e, Len(rest))
              /\ compiled' = Append(rest, e)
              /\ used' = [used EXCEPT ![e] = FALSE]
              /\ task' = [task EXCEPT ![m].passes = @ - 1]
           \/ /\ Upgrades(e) /\ ~SecondChance(e, Len(rest))
              /\ compiled' = rest
              /\ task' = [task EXCEPT ![m] = [at |-> "drop", expr |-> @.expr, passes |-> @.passes - 1,
                                              victim |-> e]]
              /\ UNCHANGED used
        /\ UNCHANGED <<held, current>>

\* The slot's lock is taken after the queue's entry is gone.
Drop(m) ==
    LET e == task[m].victim
    IN  /\ At(m, "drop")
        /\ held' = [held EXCEPT ![e] = IF @ = "built" THEN "empty" ELSE @]
        /\ task' = [task EXCEPT ![m] = [at |-> "trim", expr |-> @.expr, passes |-> @.passes]]
        /\ UNCHANGED <<used, compiled, current>>

TrimEnd(m) ==
    /\ At(m, "trim")
    /\ Len(compiled) <= MaxCompiled \/ task[m].passes = 0
    /\ task' = [task EXCEPT ![m] = NoMatcher]
    /\ UNCHANGED <<held, used, compiled, current>>

\* The lists changed, and the engine is replaced.
ReplaceEngine ==
    /\ current = 1
    /\ current' = 2
    /\ UNCHANGED <<held, used, compiled, task>>

ExprNext ==
    \/ ReplaceEngine
    \/ \E m \in Matchers :
          \/ \E e \in Exprs : Consult(m, e)
          \/ Use(m) \/ Build(m) \/ Enqueue(m) \/ Trim(m) \/ Drop(m) \/ TrimEnd(m)

ExprSpec == ExprInit /\ [][ExprNext]_exprVars

-----------------------------------------------------------------------------
\* Threads that carry e themselves: about to queue it, or about to drop it.
Carried(e) ==
    \E m \in Matchers : \/ At(m, "queue") /\ task[m].expr = e
                        \/ At(m, "drop") /\ task[m].victim = e

\* What is compiled is bounded ("There has to be a ceiling", rule.rs:174):
\* nothing is kept that the queue cannot reach, although several threads
\* compile one expression and a drop meets a build of the same one; the queue
\* is never more than one past the hard ceiling, however much of it is in use;
\* and an expression a user wrote is not dropped.
CompiledIsBounded ==
    /\ \A e \in Exprs \ Handwritten :
          held[e] = "built" /\ Upgrades(e) => e \in ToSet(compiled) \/ Carried(e)
    /\ Len(compiled) <= HardCeiling + 1 + Cardinality({m \in Matchers : Trimming(m)})
    /\ \A e \in Handwritten : held[e] = "built"
=============================================================================
