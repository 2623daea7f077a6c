-------------------------- MODULE TransportAccounts --------------------------
(***************************************************************************)
(* The accounts of one channel and their numbers: the routes of            *)
(* TransportAccountsService, the Channels page, and the seed that the API  *)
(* runs beside its handlers each time it starts.                           *)
(*                                                                         *)
(* Ids are given in the order of creation, by which send and the pages     *)
(* sort.                                                                   *)
(***************************************************************************)
EXTENDS Integers, FiniteSets

CONSTANTS
  Configured,   \* adapters of the channel with a URL in the environment
  MaxAccounts,  \* bound: accounts ever made
  MaxLines,     \* bound: endpoints ever made
  MaxAdmin,     \* bound: changes by operators
  MaxStarts     \* bound: starts of the API

ASSUME AccountsAssumption ==
  /\ {MaxAccounts, MaxLines, MaxAdmin, MaxStarts} \subseteq Nat
  /\ MaxAccounts > 0

VARIABLES
  account,  \* transport_accounts
  number,   \* endpoints
  seed,     \* the seed
  budget    \* what is used up of each bound

adminVars == <<account, number, seed, budget>>

AccountIds == 1..MaxAccounts
LineIds == 1..MaxLines

NoAccount == [state |-> "none", adapter |-> "none", seeded |-> FALSE]
NoLine == [state |-> "none", acc |-> 0]
IdleSeed == [pc |-> "idle", todo |-> {}, adapter |-> "none", found |-> 0]

Alive(a) == account[a].state \in {"active", "inactive"}
Present(l) == number[l].state \in {"on", "off"}

\* The type invariant.
AccountsTypeOK ==
  /\ account \in [AccountIds -> [state : {"none", "active", "inactive", "gone"},
                                 adapter : Configured \cup {"none"}, seeded : BOOLEAN]]
  /\ number \in [LineIds -> [state : {"none", "on", "off", "gone"}, acc : AccountIds \cup {0}]]
  /\ seed \in [pc : {"idle", "next", "write"}, todo : SUBSET Configured,
               adapter : Configured \cup {"none"}, found : AccountIds \cup {0}]
  /\ \A l \in LineIds : Present(l) => Alive(number[l].acc)

\* The first seed has made an account, and an operator has added two numbers.
AccountsInit ==
  /\ \E s \in Configured :
       account = [a \in AccountIds |-> IF a = 1 THEN [state |-> "active", adapter |-> s, seeded |-> TRUE]
                                       ELSE NoAccount]
  /\ number = [l \in LineIds |-> IF l \in {1, 2} THEN [state |-> "on", acc |-> 1] ELSE NoLine]
  /\ seed = IdleSeed
  /\ budget = [admin |-> 0, starts |-> 1]

Spend(what, bound) == budget[what] < bound /\ budget' = [budget EXCEPT ![what] = @ + 1]

\* A new row gets the next id.
NewAccount(a, s, seeded) ==
  /\ a \in AccountIds /\ account[a] = NoAccount
  /\ \A b \in AccountIds : b < a => account[b] # NoAccount
  /\ account' = [account EXCEPT ![a] = [state |-> "active", adapter |-> s, seeded |-> seeded]]

-----------------------------------------------------------------------------
(* seed.                                                                     *)

\* The constructor starts it; nobody waits for it.
ApiStart ==
  /\ Spend("starts", MaxStarts)
  /\ seed' = [IdleSeed EXCEPT !.pc = "next", !.todo = Configured]
  /\ UNCHANGED <<account, number>>

\* Mutant: accounts that are switched off are not found.
FoundActive(s) == {a \in AccountIds : account[a].state = "active" /\ account[a].adapter = s}

\* findFirst of an adapter; without an order it may be any of them.
Found(s) == {a \in AccountIds : Alive(a) /\ account[a].adapter = s}

SeedRead ==
  /\ seed.pc = "next"
  /\ IF seed.todo = {} THEN seed' = IdleSeed
     ELSE \E s \in seed.todo :
            \E a \in IF Found(s) = {} THEN {0} ELSE Found(s) :
              seed' = [pc |-> "write", todo |-> seed.todo \ {s}, adapter |-> s, found |-> a]
  /\ UNCHANGED <<account, number, budget>>

\* Updates what it found, which switches it on again, or creates; an update of an
\* account deleted meanwhile throws and is logged.
SeedWrite ==
  /\ seed.pc = "write"
  /\ \/ /\ seed.found # 0 /\ Alive(seed.found)
        /\ account' = [account EXCEPT ![seed.found].state = "active"]
     \/ seed.found # 0 /\ ~Alive(seed.found) /\ UNCHANGED account
     \/ seed.found = 0 /\ \E a \in AccountIds : NewAccount(a, seed.adapter, TRUE)
  /\ seed' = [seed EXCEPT !.pc = "next", !.adapter = "none", !.found = 0]
  /\ UNCHANGED <<number, budget>>

-----------------------------------------------------------------------------
(* Operators.                                                                *)

CreateAccount ==
  /\ Spend("admin", MaxAdmin)
  /\ \E a \in AccountIds, s \in Configured : NewAccount(a, s, FALSE)
  /\ UNCHANGED <<number, seed>>

\* toggleAccount of the Channels page.
ToggleAccount(a) ==
  /\ Spend("admin", MaxAdmin)
  /\ Alive(a)
  /\ account' = [account EXCEPT ![a].state = IF @ = "active" THEN "inactive" ELSE "active"]
  /\ UNCHANGED <<number, seed>>

\* The foreign key of endpoints refuses an account that has some.
MayGo(a) == \A l \in LineIds : Present(l) => number[l].acc # a

DeleteAccount(a) ==
  /\ Spend("admin", MaxAdmin)
  /\ Alive(a) /\ MayGo(a)
  /\ account' = [account EXCEPT ![a].state = "gone"]
  /\ UNCHANGED <<number, seed>>

CreateEndpoint(a) ==
  /\ Spend("admin", MaxAdmin)
  /\ Alive(a)
  /\ \E l \in LineIds :
       /\ number[l] = NoLine
       /\ \A k \in LineIds : k < l => number[k] # NoLine
       /\ number' = [number EXCEPT ![l] = [state |-> "on", acc |-> a]]
  /\ UNCHANGED <<account, seed>>

\* toggleEndpoint, unlink and reattach set enabled.
SwitchEndpoint(l) ==
  /\ Spend("admin", MaxAdmin)
  /\ Present(l)
  /\ number' = [number EXCEPT ![l].state = IF @ = "on" THEN "off" ELSE "on"]
  /\ UNCHANGED <<account, seed>>

AccountsNext ==
  \/ ApiStart \/ SeedRead \/ SeedWrite
  \/ CreateAccount
  \/ \E a \in AccountIds : ToggleAccount(a) \/ DeleteAccount(a) \/ CreateEndpoint(a)
  \/ \E l \in LineIds : SwitchEndpoint(l)

AccountsSpec == AccountsInit /\ [][AccountsNext]_adminVars

-----------------------------------------------------------------------------
\* However often the API starts, and whatever operators switch off, add and delete
\* while its seed runs, it never makes a second account for a sidecar (seed).
SeededOnce ==
  \A a, b \in AccountIds :
    Alive(a) /\ Alive(b) /\ account[a].seeded /\ account[b].seeded
      /\ account[a].adapter = account[b].adapter => a = b
=============================================================================
