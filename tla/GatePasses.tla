----------------------------- MODULE GatePasses -----------------------------
(***************************************************************************)
(* Gate passes for tools that leave the department                         *)
(* (src/app/routers/tools_workspace.py).  A pass is written in parts: the  *)
(* pass, its tools, its approval steps; it is in the list from the first.  *)
(* A decision reads the pass and its steps, signs the first step that is   *)
(* pending, and then the pass.  One pass.                                  *)
(***************************************************************************)
EXTENDS Naturals, Sequences, FiniteSets, SequencesExt

CONSTANTS
    Movable,            \* tools of the department that may be asked for
    Officers,           \* accounts
    ApprovalRoles(_),   \* the approval roles of an account
    Kinds,              \* the passes that may be asked for: [scope, finance]
    Gates,              \* requests
    MaxPassCalls, MaxPassFaults   \* bounds: decisions; calls that fail

VARIABLES
    unfit,       \* tools held for attention, archived or in a set
    gate_pass,   \* its status, "none" before it is made
    kind,        \* what was asked for
    pass_items,  \* gate_pass_items
    steps,       \* gate_pass_approvals, in step_order: [role, status, by]
    maker,       \* the request that makes the pass: what it has still to insert
    gate,        \* per request: a decision
    printed,     \* the signed document was given out
    uneven,      \* history: made in part, or one step decided by two requests
    pass_calls, pass_faults

pass_vars == <<unfit, gate_pass, kind, pass_items, steps, maker, gate, printed, uneven, pass_calls, pass_faults>>
Gone == [pc |-> "gone"]

roles == IF kind.scope = "internal" THEN <<"hos">>
         ELSE <<"hos", "hod", "security">> \o (IF kind.finance THEN <<"finance">> ELSE <<>>) \o <<"general_manager">>

PassTypeOK ==
    /\ gate_pass \in {"none", "pending", "approved", "rejected"} /\ kind \in Kinds
    /\ pass_items \subseteq Movable /\ unfit \subseteq Movable /\ printed \in BOOLEAN /\ uneven \in BOOLEAN
    /\ \A k \in DOMAIN steps : steps[k].role = roles[k] /\ steps[k].status \in {"pending", "approved", "rejected"}
    /\ maker.pc \in {"before", "items", "steps", "gone"}
    /\ \A g \in Gates : gate[g].pc \in {"gone", "steps", "sign", "close"}

PassInit ==
    /\ unfit = {} /\ gate_pass = "none" /\ kind \in Kinds /\ pass_items = {} /\ steps = <<>>
    /\ maker = [pc |-> "before", left |-> {}] /\ gate = [g \in Gates |-> Gone]
    /\ printed = FALSE /\ uneven = FALSE /\ pass_calls = 0 /\ pass_faults = 0

-----------------------------------------------------------------------------
(* Making a pass. *)
ToolChanges(t) ==
    /\ maker.pc = "before" /\ unfit' = IF t \in unfit THEN unfit \ {t} ELSE unfit \cup {t}
    /\ UNCHANGED <<gate_pass, kind, pass_items, steps, maker, gate, printed, uneven, pass_calls, pass_faults>>

\* Every tool is fit for movement; the pass goes in first.
create_gate_pass(selected) ==
    /\ maker.pc = "before" /\ selected # {} /\ selected \cap unfit = {}
    /\ gate_pass' = "pending" /\ maker' = [pc |-> "items", left |-> selected]
    /\ UNCHANGED <<unfit, kind, pass_items, steps, gate, printed, uneven, pass_calls, pass_faults>>
InsertPassItem(t) ==
    /\ maker.pc = "items" /\ t \in maker.left /\ pass_items' = pass_items \cup {t}
    /\ maker' = [pc |-> IF maker.left = {t} THEN "steps" ELSE "items", left |-> maker.left \ {t}]
    /\ UNCHANGED <<unfit, gate_pass, kind, steps, gate, printed, uneven, pass_calls, pass_faults>>
InsertStep ==
    /\ maker.pc = "steps"
    /\ LET role == roles[Len(steps) + 1]
       IN  steps' = Append(steps, [role |-> role, status |-> "pending", by |-> {}])
    /\ maker' = [maker EXCEPT !.pc = IF Len(steps') = Len(roles) THEN "gone" ELSE "steps"]
    /\ UNCHANGED <<unfit, gate_pass, kind, pass_items, gate, printed, uneven, pass_calls, pass_faults>>
MakingFails ==
    /\ maker.pc \in {"items", "steps"} /\ pass_faults < MaxPassFaults
    /\ pass_faults' = pass_faults + 1 /\ maker' = [maker EXCEPT !.pc = "gone"] /\ uneven' = TRUE
    /\ UNCHANGED <<unfit, gate_pass, kind, pass_items, steps, gate, printed, pass_calls>>

-----------------------------------------------------------------------------
(* Deciding. *)
decide_gate_pass(g, a, decision) ==
    /\ gate[g] = Gone /\ pass_calls < MaxPassCalls /\ gate_pass = "pending"
    /\ gate' = [gate EXCEPT ![g] = [pc |-> "steps", by |-> a, status |-> decision, current |-> 0, all |-> FALSE]]
    /\ pass_calls' = pass_calls + 1
    /\ UNCHANGED <<unfit, gate_pass, kind, pass_items, steps, maker, printed, uneven, pass_faults>>

\* The first pending step; none, or a role the account does not hold, is refused.
Pending(list) == {k \in DOMAIN list : list[k].status = "pending"}
CurrentStep == CHOOSE k \in Pending(steps) : \A o \in Pending(steps) : k <= o

\* A mutant: the last step decides.
LastSigned(list, current) == current = Len(list)

\* Every other step was approved when the steps were read.
AllSigned(list, current) == \A k \in DOMAIN list : k = current \/ list[k].status = "approved"

ReadSteps(g) ==
    /\ gate[g].pc = "steps"
    /\ IF Pending(steps) = {} \/ steps[CurrentStep].role \notin ApprovalRoles(gate[g].by)
       THEN gate' = [gate EXCEPT ![g] = Gone] /\ UNCHANGED uneven
       ELSE /\ gate' = [gate EXCEPT ![g].pc = "sign", ![g].current = CurrentStep, ![g].all = AllSigned(steps, CurrentStep)]
            /\ uneven' = (uneven \/ maker.pc # "gone"
                          \/ \E o \in Gates \ {g} : gate[o].pc \in {"sign", "close"} /\ gate[o].current = CurrentStep)
    /\ UNCHANGED <<unfit, gate_pass, kind, pass_items, steps, maker, printed, pass_calls, pass_faults>>

SignStep(g) ==
    /\ gate[g].pc = "sign"
    /\ steps' = [steps EXCEPT ![gate[g].current] = [@ EXCEPT !.status = gate[g].status, !.by = {gate[g].by}]]
    /\ gate' = [gate EXCEPT ![g] = IF gate[g].status = "rejected" \/ gate[g].all THEN [@ EXCEPT !.pc = "close"] ELSE Gone]
    /\ UNCHANGED <<unfit, gate_pass, kind, pass_items, maker, printed, uneven, pass_calls, pass_faults>>
ClosePass(g) ==
    /\ gate[g].pc = "close" /\ gate_pass' = gate[g].status /\ gate' = [gate EXCEPT ![g] = Gone]
    /\ UNCHANGED <<unfit, kind, pass_items, steps, maker, printed, uneven, pass_calls, pass_faults>>
DecisionFails(g) ==
    /\ gate[g] # Gone /\ pass_faults < MaxPassFaults
    /\ pass_faults' = pass_faults + 1 /\ gate' = [gate EXCEPT ![g] = Gone]
    /\ UNCHANGED <<unfit, gate_pass, kind, pass_items, steps, maker, printed, uneven, pass_calls>>

gate_pass_pdf ==
    /\ gate_pass = "approved" /\ ~printed /\ printed' = TRUE
    /\ UNCHANGED <<unfit, gate_pass, kind, pass_items, steps, maker, gate, uneven, pass_calls, pass_faults>>

PassNext ==
    \/ \E t \in Movable : ToolChanges(t) \/ InsertPassItem(t)
    \/ \E selected \in SUBSET Movable : create_gate_pass(selected)
    \/ InsertStep \/ MakingFails \/ gate_pass_pdf
    \/ \E g \in Gates :
          \/ ReadSteps(g) \/ SignStep(g) \/ ClosePass(g) \/ DecisionFails(g)
          \/ \E a \in Officers, d \in {"approved", "rejected"} : decide_gate_pass(g, a, d)

-----------------------------------------------------------------------------
\* "The signed PDF is available only after every required approval": a pass that was made
\* whole before its first signature and had no step decided by two requests at once is
\* approved, or printed, only with the signature of each role its movement asks for, given
\* by somebody who holds it, and none of them a refusal; a step is never refused and the
\* pass approved, however many decisions failed half way.
PassesAreSigned ==
    (~uneven /\ (printed \/ gate_pass = "approved")) =>
        /\ Len(steps) = Len(roles) /\ pass_items # {}
        /\ \A k \in DOMAIN steps :
              /\ steps[k].status = "approved"
              /\ \E a \in steps[k].by : roles[k] \in ApprovalRoles(a)
=============================================================================
