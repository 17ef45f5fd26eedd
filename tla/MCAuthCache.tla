---------------------------- MODULE MCAuthCache ----------------------------
(* Who may do what, and what the Tools workspace has them do: a behaviour is the     *)
(* sign-in of the main application, the accounts of the Tools workspace, the          *)
(* signatures of a gate pass, or the monthly check of a tool set.                      *)
EXTENDS AuthCache, ToolAccounts, GatePasses, ToolboxChecks, TLC

CONSTANTS t1, t2, u1, p1
VARIABLE focus

MCOwner == [t \in Tokens |-> u1]

\* Nobody yet, or two administrators who are signed in.
MCAccounts == [u \in Usernames |-> [role |-> "admin", password |-> p1]]
MCSessions == {[of |-> u, password |-> p1, crossed |-> FALSE] : u \in Usernames}

\* One officer who holds the first role and the last, another one those between.
MCRoles(a) == IF a = "boss" THEN {"hos", "security", "general_manager"} ELSE {"hod", "security", "finance"}
MCKinds == {[scope |-> "internal", finance |-> FALSE], [scope |-> "external", finance |-> TRUE]}

\* A piece whose number is the beginning of another one's.
MCMentions == {<<p, p>> : p \in Contents} \cup {<<"bit", "bit holder">>}

MCInit ==
    /\ focus \in {"tokens", "accounts", "gate", "checks"}
    /\ Init /\ (focus # "tokens" => listed)
    /\ \/ AccountsInit([u \in Usernames |-> NoAccount], {})
       \/ focus = "accounts" /\ AccountsInit(MCAccounts, MCSessions)
    /\ PassInit /\ (focus # "gate" => kind.scope = "internal")
    /\ ChecksInit

MCNext ==
    /\ UNCHANGED focus
    /\ \/ focus = "tokens" /\ Next /\ UNCHANGED <<account_vars, pass_vars, check_vars>>
       \/ focus = "accounts" /\ AccountsNext /\ UNCHANGED <<vars, pass_vars, check_vars>>
       \/ focus = "gate" /\ PassNext /\ UNCHANGED <<vars, account_vars, check_vars>>
       \/ focus = "checks" /\ ChecksNext /\ UNCHANGED <<vars, account_vars, pass_vars>>
MCVars == <<focus, vars, account_vars, pass_vars, check_vars>>
MCSpec == MCInit /\ [][MCNext]_MCVars

\* The tables and the caches have their shape.
MCTypeOK == TypeOK /\ AccountsTypeOK /\ PassTypeOK /\ ChecksTypeOK

ServerSymmetry ==
    Permutations(Servers) \cup Permutations(Requests) \cup Permutations(Tokens) \cup Permutations(Usernames)
=============================================================================
