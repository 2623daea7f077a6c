--------------------------- MODULE ChannelProofs ---------------------------
(***************************************************************************)
(* Proofs about the channels: the accounts and their seed                  *)
(* (TransportAccounts), the balance of a SIM (SimBalance), the test chat   *)
(* (TestChat) and the traffic between an endpoint and its vendor           *)
(* (ChannelTraffic).                                                       *)
(***************************************************************************)
EXTENDS ChannelTraffic, SimBalance, TestChat, SequenceTheorems, TLAPS

-----------------------------------------------------------------------------
(* The accounts.                                                             *)

AccountRecords == [state : {"none", "active", "inactive", "gone"},
                   adapter : Configured \cup {"none"}, seeded : BOOLEAN]
LineRecords == [state : {"none", "on", "off", "gone"}, acc : AccountIds \cup {0}]
SeedRecords == [pc : {"idle", "next", "write"}, todo : SUBSET Configured,
                adapter : Configured \cup {"none"}, found : AccountIds \cup {0}]

\* A number belongs to a row.
LinesHaveAccounts == \A l \in LineIds : Present(l) => number[l].acc \in AccountIds

\* While the seed is about to create, nobody has made the account it did not find:
\* only a seed makes seeded ones, and there is one seed.
SeedKnows ==
  seed.pc = "write" /\ seed.found = 0 =>
    \A a \in AccountIds : ~(Alive(a) /\ account[a].seeded /\ account[a].adapter = seed.adapter)

AccountsInv == AccountsTypeOK /\ LinesHaveAccounts /\ SeedKnows /\ SeededOnce

\* The accounts are counted from one.
LEMMA AccountNumbers ==
  /\ MaxAccounts \in Nat /\ MaxLines \in Nat /\ 1 \in AccountIds /\ 0 \notin AccountIds
  /\ AccountIds \subseteq Nat
BY AccountsAssumption DEF AccountIds

\* A step that makes accounts no more alive, and none of them seeded, keeps the seed right.
LEMMA NoneSeeded ==
  ASSUME AccountsInv,
         \A a \in AccountIds : (Alive(a) /\ account[a].seeded)' =>
            Alive(a) /\ account[a].seeded /\ account'[a].adapter = account[a].adapter,
         (seed'.pc = "write" /\ seed'.found = 0) => seed' = seed
  PROVE  SeedKnows' /\ SeededOnce'
<1>1. SeededOnce'
  BY DEF AccountsInv, SeededOnce
<1>2. SeedKnows'
  BY DEF AccountsInv, SeedKnows
<1>3. QED
  BY <1>1, <1>2

\* A step of the seed, of an operator, or the deletion of a number.
LEMMA AccountsStep ==
  ASSUME AccountsInv, AccountsNext \/ UNCHANGED adminVars
                      \/ \E l \in LineIds : RemoveEndpoint(l)
  PROVE  AccountsInv'
<1> USE AccountNumbers
<1>T. /\ account \in [AccountIds -> AccountRecords] /\ number \in [LineIds -> LineRecords]
      /\ seed \in SeedRecords
      /\ \A l \in LineIds : Present(l) => number[l].acc \in AccountIds /\ Alive(number[l].acc)
  BY DEF AccountsInv, AccountsTypeOK, AccountRecords, LineRecords, SeedRecords, LinesHaveAccounts
<1>S. SeedKnows /\ SeededOnce
  BY DEF AccountsInv
<1> DEFINE Types == /\ account' \in [AccountIds -> AccountRecords] /\ number' \in [LineIds -> LineRecords]
                    /\ seed' \in SeedRecords
           Lines == \A l \in LineIds : Present(l)' => number'[l].acc \in AccountIds /\ account'[number'[l].acc].state \in {"active", "inactive"}
           Unseeded == \A a \in AccountIds : (Alive(a) /\ account[a].seeded)' =>
                         Alive(a) /\ account[a].seeded /\ account'[a].adapter = account[a].adapter
<1>0. ASSUME Types, Lines, SeedKnows', SeededOnce' PROVE AccountsInv'
  BY <1>0 DEF AccountsInv, AccountsTypeOK, AccountRecords, LineRecords, SeedRecords,
     LinesHaveAccounts, Alive
<1>1. CASE UNCHANGED adminVars
  BY <1>1 DEF AccountsInv, AccountsTypeOK, LinesHaveAccounts, SeedKnows, SeededOnce, Present,
     Alive, adminVars
<1>2. CASE ApiStart
  <2>1. account' = account /\ number' = number /\ seed' = [IdleSeed EXCEPT !.pc = "next", !.todo = Configured]
    BY <1>2 DEF ApiStart
  <2>2. seed' \in SeedRecords /\ seed'.pc = "next"
    BY <2>1 DEF IdleSeed, SeedRecords
  <2>3. SeedKnows' /\ SeededOnce'
    BY <2>1, <2>2, <1>S DEF SeedKnows, SeededOnce, Alive
  <2>4. QED
    BY <1>0, <1>T, <2>1, <2>2, <2>3 DEF Present, Alive
<1>3. CASE SeedRead
  <2>1. account' = account /\ number' = number
    BY <1>3 DEF SeedRead
  <2>2. CASE seed.todo = {} /\ seed' = IdleSeed
    <3>1. seed' \in SeedRecords /\ seed'.pc = "idle"
      BY <2>2 DEF IdleSeed, SeedRecords
    <3>2. SeedKnows' /\ SeededOnce'
      BY <2>1, <3>1, <1>S DEF SeedKnows, SeededOnce, Alive
    <3>3. QED
      BY <1>0, <1>T, <2>1, <3>1, <3>2 DEF Present, Alive
  <2>3. ASSUME NEW s \in seed.todo, NEW a \in IF Found(s) = {} THEN {0} ELSE Found(s),
               seed' = [pc |-> "write", todo |-> seed.todo \ {s}, adapter |-> s, found |-> a]
        PROVE  AccountsInv'
    <3>1. seed.todo \subseteq Configured /\ a \in AccountIds \cup {0}
      BY <1>T DEF SeedRecords, Found
    <3>2. seed' \in SeedRecords /\ seed'.adapter = s /\ seed'.found = a
      BY <2>3, <3>1 DEF SeedRecords
    <3>3. a = 0 => Found(s) = {}
      BY DEF Found
    <3>4. SeedKnows'
      BY <2>1, <3>2, <3>3 DEF SeedKnows, Found, Alive
    <3>5. SeededOnce'
      BY <2>1, <1>S DEF SeededOnce, Alive
    <3>6. QED
      BY <1>0, <1>T, <2>1, <3>2, <3>4, <3>5 DEF Present, Alive
  <2>4. QED
    BY <1>3, <2>2, <2>3 DEF SeedRead
<1>4. CASE SeedWrite
  <2>1. number' = number /\ seed.pc = "write" /\ seed' = [seed EXCEPT !.pc = "next", !.adapter = "none", !.found = 0]
    BY <1>4 DEF SeedWrite
  <2>2. seed' \in SeedRecords /\ seed'.pc = "next"
    BY <2>1, <1>T DEF SeedRecords
  <2>3. CASE seed.found # 0 /\ Alive(seed.found) /\ account' = [account EXCEPT ![seed.found].state = "active"]
    <3>1. seed.found \in AccountIds
      BY <2>3, <1>T DEF SeedRecords
    <3>2. account' \in [AccountIds -> AccountRecords] /\ Lines
      BY <1>T, <2>1, <2>3, <3>1 DEF AccountRecords, Present, Alive
    <3>3. Unseeded
      BY <1>T, <2>3, <3>1 DEF AccountRecords, Alive
    <3>4. SeedKnows' /\ SeededOnce'
      BY <2>2, <3>3, NoneSeeded
    <3>5. QED
      BY <1>0, <1>T, <2>1, <2>2, <3>2, <3>4
  <2>4. CASE UNCHANGED account
    <3>1. SeedKnows' /\ SeededOnce'
      BY <2>2, <2>4, <1>S DEF SeedKnows, SeededOnce, Alive
    <3>2. QED
      BY <1>0, <1>T, <2>1, <2>2, <2>4, <3>1 DEF Present, Alive
  <2>5. ASSUME seed.found = 0, NEW a \in AccountIds, NewAccount(a, seed.adapter, TRUE)
        PROVE  AccountsInv'
    <3>1. account[a].state = "none" /\ account' = [account EXCEPT ![a] = [state |-> "active", adapter |-> seed.adapter, seeded |-> TRUE]]
      BY <2>5 DEF NewAccount, NoAccount
    <3>2. account' \in [AccountIds -> AccountRecords] /\ Lines
      BY <1>T, <2>1, <3>1 DEF AccountRecords, SeedRecords, Present, Alive
    <3>3. \A b \in AccountIds : ~(Alive(b) /\ account[b].seeded /\ account[b].adapter = seed.adapter)
      BY <1>S, <2>1, <2>5 DEF SeedKnows
    <3>4. SeededOnce'
      BY <1>S, <1>T, <3>1, <3>3 DEF SeededOnce, Alive
    <3>5. SeedKnows'
      BY <2>2 DEF SeedKnows
    <3>6. QED
      BY <1>0, <1>T, <2>1, <2>2, <3>2, <3>4, <3>5
  <2>6. QED
    BY <1>4, <2>3, <2>4, <2>5 DEF SeedWrite
<1>5. CASE CreateAccount
  <2>1. number' = number /\ seed' = seed
    BY <1>5 DEF CreateAccount
  <2>2. PICK a \in AccountIds, s \in Configured : NewAccount(a, s, FALSE)
    BY <1>5 DEF CreateAccount
  <2>3. account[a].state = "none" /\ account' = [account EXCEPT ![a] = [state |-> "active", adapter |-> s, seeded |-> FALSE]]
    BY <2>2 DEF NewAccount, NoAccount
  <2>4. account' \in [AccountIds -> AccountRecords] /\ Lines
    BY <1>T, <2>1, <2>3 DEF AccountRecords, Present, Alive
  <2>5. Unseeded
    BY <1>T, <2>3 DEF AccountRecords, Alive
  <2>6. QED
    BY <1>0, <1>T, <2>1, <2>4, <2>5, NoneSeeded
<1>6. ASSUME NEW a \in AccountIds, NEW st \in {"active", "inactive", "gone"}, Alive(a), UNCHANGED <<number, seed>>,
             account' = [account EXCEPT ![a].state = st],
             st = "gone" => MayGo(a)
      PROVE  AccountsInv'
  <2>1. account' \in [AccountIds -> AccountRecords]
    BY <1>6, <1>T DEF AccountRecords
  <2>2. Lines
    BY <1>6, <1>T DEF AccountRecords, Present, Alive, MayGo
  <2>3. Unseeded
    BY <1>6, <1>T DEF AccountRecords, Alive
  <2>4. QED
    BY <1>0, <1>6, <1>T, <2>1, <2>2, <2>3, NoneSeeded
<1>7. ASSUME NEW a \in AccountIds, ToggleAccount(a) PROVE AccountsInv'
  <2> DEFINE st == IF account[a].state = "active" THEN "inactive" ELSE "active"
  <2>1. Alive(a) /\ UNCHANGED <<number, seed>> /\ account' = [account EXCEPT ![a].state = st]
    BY <1>7 DEF ToggleAccount
  <2>2. st \in {"active", "inactive", "gone"} /\ st # "gone"
    OBVIOUS
  <2> HIDE DEF st
  <2>3. QED
    BY <1>6, <2>1, <2>2
<1>8. ASSUME NEW a \in AccountIds, DeleteAccount(a) PROVE AccountsInv'
  BY <1>6, <1>8 DEF DeleteAccount
<1>9. ASSUME UNCHANGED <<account, seed>>, number' \in [LineIds -> LineRecords], Lines
      PROVE  AccountsInv'
  <2>1. SeedKnows' /\ SeededOnce'
    BY <1>9, <1>S DEF SeedKnows, SeededOnce, Alive
  <2>2. QED
    BY <1>0, <1>9, <1>T, <2>1
<1>10. ASSUME NEW a \in AccountIds, CreateEndpoint(a) PROVE AccountsInv'
  <2>1. PICK l \in LineIds : number' = [number EXCEPT ![l] = [state |-> "on", acc |-> a]]
    BY <1>10 DEF CreateEndpoint
  <2>2. UNCHANGED <<account, seed>> /\ Alive(a)
    BY <1>10 DEF CreateEndpoint
  <2>3. number' \in [LineIds -> LineRecords]
    BY <1>T, <2>1 DEF LineRecords
  <2>4. Lines
    BY <1>T, <2>1, <2>2 DEF LineRecords, Present, Alive
  <2>5. QED
    BY <1>9, <2>2, <2>3, <2>4
<1>11. ASSUME NEW l \in LineIds, NEW st \in {"on", "off", "gone"}, Present(l), UNCHANGED <<account, seed>>,
              number' = [number EXCEPT ![l].state = st]
       PROVE  AccountsInv'
  <2>1. number' \in [LineIds -> LineRecords]
    BY <1>11, <1>T DEF LineRecords
  <2>2. Lines
    BY <1>11, <1>T DEF LineRecords, Present, Alive
  <2>3. QED
    BY <1>9, <1>11, <2>1, <2>2
<1>12. ASSUME NEW l \in LineIds, SwitchEndpoint(l) PROVE AccountsInv'
  <2> DEFINE st == IF number[l].state = "on" THEN "off" ELSE "on"
  <2>1. Present(l) /\ UNCHANGED <<account, seed>> /\ number' = [number EXCEPT ![l].state = st]
    BY <1>12 DEF SwitchEndpoint
  <2>2. st \in {"on", "off", "gone"}
    OBVIOUS
  <2> HIDE DEF st
  <2>3. QED
    BY <1>11, <2>1, <2>2
<1>13. ASSUME NEW l \in LineIds, RemoveEndpoint(l) PROVE AccountsInv'
  BY <1>11, <1>13 DEF RemoveEndpoint
<1>14. QED
  BY <1>1, <1>2, <1>3, <1>4, <1>5, <1>7, <1>8, <1>10, <1>12, <1>13 DEF AccountsNext

\* The first seed has run.
LEMMA AccountsStart ==
  AccountsInit => AccountsInv
<1> SUFFICES ASSUME AccountsInit PROVE AccountsInv
  OBVIOUS
<1> USE AccountNumbers
<1>1. PICK s \in Configured :
        account = [a \in AccountIds |-> IF a = 1 THEN [state |-> "active", adapter |-> s, seeded |-> TRUE]
                                        ELSE NoAccount]
  BY DEF AccountsInit
<1>2. account \in [AccountIds -> AccountRecords] /\ account[1].state = "active"
      /\ \A a \in AccountIds : Alive(a) => a = 1
  BY <1>1 DEF AccountRecords, NoAccount, Alive
<1>3. number \in [LineIds -> LineRecords] /\ \A l \in LineIds : Present(l) => number[l].acc = 1
  BY DEF AccountsInit, NoLine, LineRecords, Present
<1>4. seed \in SeedRecords /\ seed.pc = "idle"
  BY DEF AccountsInit, IdleSeed, SeedRecords
<1>5. AccountsTypeOK /\ LinesHaveAccounts
  BY <1>2, <1>3, <1>4 DEF AccountsTypeOK, AccountRecords, LineRecords, SeedRecords,
     LinesHaveAccounts, Alive
<1>6. SeedKnows /\ SeededOnce
  BY <1>2, <1>4 DEF SeedKnows, SeededOnce
<1>7. QED
  BY <1>5, <1>6 DEF AccountsInv

\* The rows of accounts and numbers are of their types, and a number that exists belongs to
\* an account that exists.
THEOREM AccountsTypeCorrect ==
  AccountsSpec => []AccountsTypeOK
<1>1. AccountsInv /\ [AccountsNext]_adminVars => AccountsInv'
  BY AccountsStep
<1>2. AccountsInv => AccountsTypeOK
  BY DEF AccountsInv
<1>3. QED
  BY <1>1, <1>2, AccountsStart, PTL DEF AccountsSpec

\* However often the API starts and whatever operators do meanwhile, the seed never makes
\* a second account for a sidecar.
THEOREM SeedsOnce ==
  AccountsSpec => []SeededOnce
<1>1. AccountsInv /\ [AccountsNext]_adminVars => AccountsInv'
  BY AccountsStep
<1>2. AccountsInv => SeededOnce
  BY DEF AccountsInv
<1>3. QED
  BY <1>1, <1>2, AccountsStart, PTL DEF AccountsSpec

-----------------------------------------------------------------------------
(* The balance of a SIM.                                                     *)

\* A balance that was read is one the SIM had.
Real(balance) == balance.parsed => balance.amount \in had
Positive(c) == c.threshold \in Nat \ {0}

Balances == [defined : BOOLEAN, parsed : BOOLEAN, amount : Int]
Results == [ok : BOOLEAN, parsed : BOOLEAN, amount : Int]
ConfigRecords == [code : UssdCodes \cup {""}, threshold : Nat, balance : Balances]
RunRecords == [pc : {"idle", "ussd", "record", "tell", "write"}, config : ConfigRecords,
               code : UssdCodes \cup {""}, result : Results]

SimTypeOK ==
  /\ funds \in Int /\ funds \in had
  /\ config \in ConfigRecords /\ page \in ConfigRecords
  /\ daily \in RunRecords /\ check \in RunRecords
  /\ owed \in BOOLEAN

\* Whatever may still be written somewhere is real.
AllReal ==
  /\ Real(config.balance) /\ Real(page.balance)
  /\ Real(daily.config.balance) /\ Real(daily.result)
  /\ Real(check.config.balance) /\ Real(check.result)

\* A threshold is positive wherever it may still be compared with or written.
Thresholded ==
  /\ Positive(config) /\ Positive(page)
  /\ daily.pc # "idle" => Positive(daily.config)
  /\ check.pc # "idle" => Positive(check.config)

\* A reading that failed says zero.
Unread == (~daily.result.parsed => daily.result.amount = 0)

\* Who is owed the news of a recovery gets it from the run that compares with what the
\* line shows: a low balance, unless a run that found it fine is about to tell.
OwedIsLow ==
  owed =>
    /\ daily.pc \in {"ussd", "record"} => WasLow(daily.config)
    /\ daily.pc = "tell" => /\ WasLow(daily.config) \/ Low(daily.result, daily.config.threshold)
                            /\ config.balance = Reading(daily.result)
                            /\ config.threshold = daily.config.threshold
    /\ daily.pc # "tell" => WasLow(config)

RealInv == SimTypeOK /\ AllReal
TellInv == Thresholded /\ Unread /\ OwedIsLow /\ RecoveryTold

\* What a call of the carrier tells is the amount, or nothing.
LEMMA ReplyTells ==
  ASSUME SimTypeOK, NEW r \in Replies
  PROVE  r \in Results /\ (r.parsed => r.amount = funds) /\ (~r.parsed => r.amount = 0)
<1>1. PICK h \in {200, 500}, b \in {"OK", "ERROR"}, k \in BOOLEAN :
        r = CheckBalance([http |-> h, body |-> b],
              [readable |-> k, debt |-> funds < 0, figure |-> IF funds < 0 THEN 0 - funds ELSE funds])
  BY DEF Replies
<1> DEFINE reply == [readable |-> k, debt |-> funds < 0, figure |-> IF funds < 0 THEN 0 - funds ELSE funds]
<1>2. funds \in Int
  BY DEF SimTypeOK
<1>3. ParseBalance(reply) = [ok |-> TRUE, parsed |-> TRUE, amount |-> funds]
  <2>1. CASE funds < 0
    <3>1. 0 - (0 - funds) = funds
      BY <1>2
    <3>2. reply.debt = TRUE /\ reply.figure = 0 - funds
      BY <2>1
    <3>3. QED
      BY <3>1, <3>2 DEF ParseBalance
  <2>2. CASE ~(funds < 0)
    <3>1. ~reply.debt /\ reply.figure = funds
      BY <2>2
    <3>2. QED
      BY <3>1 DEF ParseBalance
  <2>3. QED
    BY <2>1, <2>2
<1> HIDE DEF reply
<1>4. r \in {[ok |-> TRUE, parsed |-> TRUE, amount |-> funds], NoReading(TRUE), NoReading(FALSE)}
  BY <1>1, <1>3 DEF CheckBalance, reply
<1>5. CASE r = [ok |-> TRUE, parsed |-> TRUE, amount |-> funds]
  BY <1>2, <1>5 DEF Results
<1>6. CASE r \in {NoReading(TRUE), NoReading(FALSE)}
  <2>1. PICK ok \in BOOLEAN : r = [ok |-> ok, parsed |-> FALSE, amount |-> 0]
    BY <1>6 DEF NoReading
  <2>2. QED
    BY <2>1 DEF Results
<1>7. QED
  BY <1>4, <1>5, <1>6

\* A balance that is written is what was read.
LEMMA ReadingTells ==
  ASSUME NEW r \in Results
  PROVE  /\ Reading(r) \in Balances /\ Reading(r).defined
         /\ Reading(r).parsed = r.parsed /\ Reading(r).amount = r.amount
BY DEF Reading, Results, Balances

\* A check that has not begun holds a configuration and a result without a figure.
LEMMA AsleepTells ==
  /\ Asleep \in RunRecords /\ Asleep.pc = "idle"
  /\ ~Asleep.config.balance.parsed /\ ~Asleep.result.parsed /\ Asleep.result.amount = 0
<1>1. Undefined \in Balances /\ ~Undefined.parsed
  BY DEF Undefined, Balances
<1>2. NoReading(FALSE) \in Results /\ ~NoReading(FALSE).parsed /\ NoReading(FALSE).amount = 0
  BY DEF NoReading, Results
<1>3. QED
  BY <1>1, <1>2 DEF Asleep, RunRecords, ConfigRecords

\* A run that starts from the object on the line.
LEMMA WakeTells ==
  ASSUME NEW c \in ConfigRecords, NEW code \in UssdCodes \cup {""}
  PROVE  LET run == [Asleep EXCEPT !.pc = "ussd", !.config = c, !.code = code]
         IN  run \in RunRecords /\ run.pc = "ussd" /\ run.config = c /\ run.result = Asleep.result
<1>1. Asleep \in RunRecords
  BY AsleepTells
<1>2. QED
  BY <1>1 DEF RunRecords

\* What each action makes of the pieces it writes.
LEMMA SimEffects ==
  ASSUME SimTypeOK, SimNext
  PROVE  \/ FundsChange
         \/ /\ daily.pc = "idle" /\ daily' \in RunRecords /\ daily'.pc = "ussd" /\ daily'.config = config /\ daily'.result = Asleep.result
            /\ UNCHANGED <<funds, config, check, page, owed, lastRead, had>>
         \/ /\ daily.pc = "ussd" /\ daily' \in RunRecords /\ UNCHANGED <<funds, config, check, page, owed, lastRead, had>>
            /\ \/ daily' = Asleep
               \/ daily'.pc = "record" /\ daily'.config = daily.config /\ daily'.result \in Replies
         \/ DailyRecord \/ DailyTell
         \/ /\ check' \in RunRecords /\ UNCHANGED <<funds, config, daily, page, owed, lastRead, had>>
            /\ \/ check' = Asleep
               \/ check'.pc = "ussd" /\ check'.config = config /\ check'.result = Asleep.result
               \/ check.pc = "ussd" /\ check'.config = check.config /\ check'.result \in Replies
         \/ CheckWrite \/ LoadPage \/ SaveSettings
<1>1. CASE DailyRead
  <2>1. daily' = [Asleep EXCEPT !.pc = "ussd", !.config = config]
    BY <1>1 DEF DailyRead
  <2>2. Asleep \in RunRecords /\ config \in ConfigRecords
    BY AsleepTells DEF SimTypeOK
  <2>3. daily' \in RunRecords /\ daily'.pc = "ussd" /\ daily'.config = config /\ daily'.result = Asleep.result
    BY <2>1, <2>2 DEF RunRecords
  <2>4. QED
    BY <1>1, <2>3 DEF DailyRead
<1>2. CASE DailyUssd
  <2>1. CASE daily' = Asleep
    BY <1>2, <2>1, AsleepTells DEF DailyUssd
  <2>2. ASSUME NEW r \in Replies, daily' = [daily EXCEPT !.pc = "record", !.result = r]
        PROVE  daily' \in RunRecords /\ daily'.pc = "record" /\ daily'.config = daily.config /\ daily'.result = r
    <3>1. daily \in RunRecords /\ r \in Results
      BY ReplyTells DEF SimTypeOK
    <3>2. QED
      BY <2>2, <3>1 DEF RunRecords
  <2>3. QED
    BY <1>2, <2>1, <2>2 DEF DailyUssd
<1>3. CASE CheckRead
  <2>1. PICK code \in UssdCodes : check' = [Asleep EXCEPT !.pc = "ussd", !.config = config, !.code = code]
    BY <1>3 DEF CheckRead
  <2>2. check' \in RunRecords /\ check'.pc = "ussd" /\ check'.config = config /\ check'.result = Asleep.result
    BY <2>1, WakeTells DEF SimTypeOK
  <2>3. QED
    BY <1>3, <2>2 DEF CheckRead
<1>4. CASE CheckUssd
  <2>1. PICK r \in Replies : check' = IF r.ok THEN [check EXCEPT !.pc = "write", !.result = r] ELSE Asleep
    BY <1>4 DEF CheckUssd
  <2>2. CASE check' = Asleep
    BY <1>4, <2>2, AsleepTells DEF CheckUssd
  <2>3. CASE check' = [check EXCEPT !.pc = "write", !.result = r]
    <3>1. check \in RunRecords /\ r \in Results
      BY ReplyTells DEF SimTypeOK
    <3>2. check' \in RunRecords /\ check'.config = check.config /\ check'.result = r
      BY <2>3, <3>1 DEF RunRecords
    <3>3. QED
      BY <1>4, <3>2 DEF CheckUssd
  <2>4. QED
    BY <2>1, <2>2, <2>3
<1>5. QED
  BY <1>1, <1>2, <1>3, <1>4 DEF SimNext

\* The object the daily run, the check and the form write.
LEMMA RecordEffect ==
  ASSUME SimTypeOK, DailyRecord
  PROVE  /\ config' \in ConfigRecords /\ config'.balance = Reading(daily.result) /\ config'.threshold = daily.config.threshold
         /\ daily' \in RunRecords /\ daily'.pc = "tell" /\ daily'.config = daily.config /\ daily'.result = daily.result
         /\ owed' \in BOOLEAN
<1>1. config' = [daily.config EXCEPT !.balance = Reading(daily.result)] /\ daily' = [daily EXCEPT !.pc = "tell"]
  BY DEF DailyRecord
<1>2. daily \in RunRecords /\ daily.config \in ConfigRecords /\ daily.result \in Results
  BY DEF SimTypeOK, RunRecords
<1>3. Reading(daily.result) \in Balances
  BY <1>2, ReadingTells
<1>4. config' \in ConfigRecords /\ config'.balance = Reading(daily.result) /\ config'.threshold = daily.config.threshold
  BY <1>1, <1>2, <1>3 DEF ConfigRecords
<1>5. daily' \in RunRecords /\ daily'.pc = "tell" /\ daily'.config = daily.config /\ daily'.result = daily.result
  BY <1>1, <1>2 DEF RunRecords
<1>6. owed' \in BOOLEAN
  BY DEF DailyRecord
<1>7. QED
  BY <1>4, <1>5, <1>6

\* What the end of a check writes: its own copy of the settings with the reading.
LEMMA WriteEffect ==
  ASSUME SimTypeOK, CheckWrite
  PROVE  /\ config' \in ConfigRecords /\ config'.balance = Reading(check.result) /\ config'.threshold = check.config.threshold
         /\ check' = Asleep /\ owed' = FALSE
<1>1. config' = [check.config EXCEPT !.code = check.code, !.balance = Reading(check.result)]
      /\ check' = Asleep /\ owed' = FALSE
  BY DEF CheckWrite
<1>2. check.config \in ConfigRecords /\ check.result \in Results /\ check.code \in UssdCodes \cup {""}
  BY DEF SimTypeOK, RunRecords
<1>3. Reading(check.result) \in Balances
  BY <1>2, ReadingTells
<1>4. QED
  BY <1>1, <1>2, <1>3 DEF ConfigRecords

\* What saving the page writes: the balance the page had shown, and a threshold of the form.
LEMMA SaveEffect ==
  ASSUME SimTypeOK, SaveSettings
  PROVE  /\ config' \in ConfigRecords /\ config'.balance = page.balance /\ config'.threshold \in Thresholds
         /\ owed' = FALSE
<1>1. PICK c \in UssdCodes, t \in Thresholds : config' = [page EXCEPT !.code = c, !.threshold = t]
  BY DEF SaveSettings
<1>2. page \in ConfigRecords /\ t \in Nat
  BY SimAssumption DEF SimTypeOK
<1>3. owed' = FALSE
  BY DEF SaveSettings
<1>4. QED
  BY <1>1, <1>2, <1>3 DEF ConfigRecords

\* No step writes a balance that is not real.
LEMMA RealStep ==
  RealInv /\ [SimNext]_simVars => RealInv'
<1> SUFFICES ASSUME RealInv, [SimNext]_simVars PROVE RealInv'
  OBVIOUS
<1>T. SimTypeOK /\ AllReal
  BY DEF RealInv
<1>1. CASE UNCHANGED simVars
  BY <1>1 DEF RealInv, SimTypeOK, AllReal, Real, simVars
<1>2. CASE FundsChange
  <2>1. funds' \in Int /\ had' = had \cup {funds'} /\ UNCHANGED <<config, daily, check, page, owed>>
    BY <1>2, SimAssumption DEF FundsChange
  <2>2. SimTypeOK'
    BY <1>T, <2>1 DEF SimTypeOK
  <2>3. AllReal'
    BY <1>T, <2>1 DEF AllReal, Real
  <2>4. QED
    BY <2>2, <2>3 DEF RealInv
<1>3. CASE /\ daily.pc = "idle" /\ daily' \in RunRecords /\ daily'.pc = "ussd" /\ daily'.config = config /\ daily'.result = Asleep.result
           /\ UNCHANGED <<funds, config, check, page, owed, lastRead, had>>
  BY <1>3, <1>T, AsleepTells DEF RealInv, SimTypeOK, AllReal, Real
<1>4. CASE /\ daily.pc = "ussd" /\ daily' \in RunRecords /\ UNCHANGED <<funds, config, check, page, owed, lastRead, had>>
           /\ \/ daily' = Asleep
              \/ daily'.pc = "record" /\ daily'.config = daily.config /\ daily'.result \in Replies
  <2>1. SimTypeOK'
    BY <1>4, <1>T DEF SimTypeOK
  <2>2. Real(daily.config.balance)' /\ Real(daily.result)'
    BY <1>4, <1>T, AsleepTells, ReplyTells DEF AllReal, Real, SimTypeOK
  <2>3. QED
    BY <1>4, <1>T, <2>1, <2>2 DEF RealInv, AllReal, Real
<1>5. CASE DailyRecord
  <2>1. UNCHANGED <<funds, check, page, had>>
    BY <1>5 DEF DailyRecord
  <2>2. SimTypeOK'
    BY <1>5, <1>T, <2>1, RecordEffect DEF SimTypeOK
  <2>3. Real(config.balance)'
    <3>1. config'.balance = Reading(daily.result) /\ daily.result \in Results /\ Real(daily.result)
      BY <1>5, <1>T, RecordEffect DEF SimTypeOK, RunRecords, AllReal
    <3>2. QED
      BY <2>1, <3>1, ReadingTells DEF Real
  <2>4. Real(daily.config.balance)' /\ Real(daily.result)'
    BY <1>5, <1>T, <2>1, RecordEffect DEF AllReal, Real
  <2>5. QED
    BY <1>T, <2>1, <2>2, <2>3, <2>4 DEF RealInv, AllReal, Real
<1>6. CASE DailyTell
  <2>1. daily' = Asleep /\ UNCHANGED <<funds, config, check, page, had>>
    BY <1>6 DEF DailyTell
  <2>2. owed' \in BOOLEAN
    BY <1>6, <1>T DEF DailyTell, SimTypeOK
  <2>3. SimTypeOK'
    BY <1>T, <2>1, <2>2, AsleepTells DEF SimTypeOK
  <2>4. AllReal'
    BY <1>T, <2>1, AsleepTells DEF AllReal, Real
  <2>5. QED
    BY <2>3, <2>4 DEF RealInv
<1>7. CASE /\ check' \in RunRecords /\ UNCHANGED <<funds, config, daily, page, owed, lastRead, had>>
           /\ \/ check' = Asleep
              \/ check'.pc = "ussd" /\ check'.config = config /\ check'.result = Asleep.result
              \/ check.pc = "ussd" /\ check'.config = check.config /\ check'.result \in Replies
  <2>1. SimTypeOK'
    BY <1>7, <1>T DEF SimTypeOK
  <2>2. Real(check.config.balance)' /\ Real(check.result)'
    BY <1>7, <1>T, AsleepTells, ReplyTells DEF AllReal, Real, SimTypeOK
  <2>3. QED
    BY <1>7, <1>T, <2>1, <2>2 DEF RealInv, AllReal, Real
<1>8. CASE CheckWrite
  <2>1. UNCHANGED <<funds, daily, page, had>>
    BY <1>8 DEF CheckWrite
  <2>2. SimTypeOK'
    BY <1>8, <1>T, <2>1, WriteEffect, AsleepTells DEF SimTypeOK
  <2>3. Real(config.balance)'
    <3>1. config'.balance = Reading(check.result) /\ check.result \in Results /\ Real(check.result)
      BY <1>8, <1>T, WriteEffect DEF SimTypeOK, RunRecords, AllReal
    <3>2. QED
      BY <2>1, <3>1, ReadingTells DEF Real
  <2>4. Real(check.config.balance)' /\ Real(check.result)'
    BY <1>8, <1>T, WriteEffect, AsleepTells DEF Real
  <2>5. QED
    BY <1>T, <2>1, <2>2, <2>3, <2>4 DEF RealInv, AllReal, Real
<1>9. CASE LoadPage
  BY <1>9, <1>T DEF RealInv, SimTypeOK, AllReal, Real, LoadPage
<1>10. CASE SaveSettings
  <2>1. UNCHANGED <<funds, daily, check, page, had>>
    BY <1>10 DEF SaveSettings
  <2>2. SimTypeOK'
    BY <1>10, <1>T, <2>1, SaveEffect DEF SimTypeOK
  <2>3. QED
    BY <1>10, <1>T, <2>1, <2>2, SaveEffect DEF RealInv, AllReal, Real
<1>11. QED
  BY <1>1, <1>2, <1>3, <1>4, <1>5, <1>6, <1>7, <1>8, <1>9, <1>10, <1>T, SimEffects

\* In the beginning nothing has been read.
LEMMA RealStart ==
  SimInit => RealInv
<1> SUFFICES ASSUME SimInit PROVE RealInv
  OBVIOUS
<1>1. PICK c \in UssdCodes, t \in Thresholds : config = [code |-> c, threshold |-> t, balance |-> Undefined]
  BY DEF SimInit
<1>2. Undefined \in Balances /\ ~Undefined.parsed /\ t \in Nat
  BY SimAssumption DEF Undefined, Balances
<1>3. config \in ConfigRecords /\ ~config.balance.parsed
  BY <1>1, <1>2 DEF ConfigRecords
<1>4. SimTypeOK
  BY <1>3, AsleepTells, SimAssumption DEF SimInit, SimTypeOK
<1>5. AllReal
  BY <1>3, AsleepTells DEF SimInit, AllReal, Real
<1>6. QED
  BY <1>4, <1>5 DEF RealInv

\* The balance a line shows is one its SIM really had, whatever the daily run, the check on
\* demand and the form overwrite of each other.
THEOREM BalancesAreReal ==
  SimSpec => []BalanceIsReal
<1>1. RealInv => BalanceIsReal
  BY DEF RealInv, AllReal, Real, BalanceIsReal
<1>2. QED
  BY <1>1, RealStart, RealStep, PTL DEF SimSpec

\* With positive thresholds, no step leaves somebody waiting for the news of a recovery that
\* a run has seen.
LEMMA TellStep ==
  ASSUME 0 \notin Thresholds, RealInv, TellInv, [SimNext]_simVars
  PROVE  TellInv'
<1>T. SimTypeOK /\ Thresholded /\ Unread /\ OwedIsLow /\ RecoveryTold /\ owed \in BOOLEAN
  BY DEF RealInv, TellInv, SimTypeOK
<1>1. CASE UNCHANGED simVars
  BY <1>1, <1>T DEF TellInv, Thresholded, Positive, Unread, OwedIsLow, WasLow, Low, RecoveryTold,
     simVars
<1>2. CASE UNCHANGED <<config, daily, owed, lastRead>> /\ Thresholded'
  BY <1>2, <1>T DEF TellInv, Unread, OwedIsLow, WasLow, Low, RecoveryTold
<1>3. CASE FundsChange
  BY <1>2, <1>3, <1>T DEF FundsChange, Thresholded, Positive
<1>4. CASE /\ daily.pc = "idle" /\ daily' \in RunRecords /\ daily'.pc = "ussd" /\ daily'.config = config /\ daily'.result = Asleep.result
           /\ UNCHANGED <<funds, config, check, page, owed, lastRead, had>>
  <2>1. Thresholded' /\ Unread' /\ RecoveryTold'
    BY <1>4, <1>T, AsleepTells DEF Thresholded, Positive, Unread, RecoveryTold
  <2>2. OwedIsLow'
    BY <1>4, <1>T DEF OwedIsLow, WasLow
  <2>3. QED
    BY <2>1, <2>2 DEF TellInv
<1>5. CASE /\ daily.pc = "ussd" /\ daily' \in RunRecords /\ UNCHANGED <<funds, config, check, page, owed, lastRead, had>>
           /\ \/ daily' = Asleep
              \/ daily'.pc = "record" /\ daily'.config = daily.config /\ daily'.result \in Replies
  <2>1. Thresholded' /\ RecoveryTold'
    BY <1>5, <1>T, AsleepTells DEF Thresholded, Positive, RecoveryTold
  <2>2. Unread'
    BY <1>5, <1>T, AsleepTells, ReplyTells DEF Unread
  <2>3. OwedIsLow'
    BY <1>5, <1>T, AsleepTells DEF OwedIsLow, WasLow
  <2>4. QED
    BY <2>1, <2>2, <2>3 DEF TellInv
<1>6. CASE DailyRecord
  <2>1. /\ config'.balance = Reading(daily.result) /\ config'.threshold = daily.config.threshold
        /\ daily'.pc = "tell" /\ daily'.config = daily.config /\ daily'.result = daily.result
    BY <1>6, <1>T, RecordEffect
  <2>2. daily.pc = "record" /\ UNCHANGED <<check, page>> /\ lastRead' = "none"
        /\ owed' = (owed \/ Low(daily.result, daily.config.threshold))
    BY <1>6 DEF DailyRecord
  <2>3. Thresholded'
    BY <1>T, <2>1, <2>2 DEF Thresholded, Positive
  <2>4. Unread' /\ RecoveryTold'
    BY <1>T, <2>1, <2>2 DEF Unread, RecoveryTold
  <2>5. OwedIsLow'
    BY <1>T, <2>1, <2>2 DEF OwedIsLow, WasLow, Low, Reading
  <2>6. QED
    BY <2>3, <2>4, <2>5 DEF TellInv
<1>7. CASE DailyTell
  <2>1. daily.pc = "tell" /\ daily' = Asleep /\ UNCHANGED <<config, check, page>>
    BY <1>7 DEF DailyTell
  <2>2. Thresholded' /\ Unread'
    BY <1>T, <2>1, AsleepTells DEF Thresholded, Positive, Unread
  <2>3. daily.result \in Results /\ config.threshold \in Nat /\ config \in ConfigRecords
    BY <1>T DEF SimTypeOK, RunRecords, ConfigRecords
  <2>4. CASE ~daily.result.parsed /\ UNCHANGED <<owed, lastRead>>
    <3>1. owed => config.balance.defined /\ config.balance.amount = 0 /\ config.threshold # 0
      BY <1>T, <2>1, <2>3, <2>4, ReadingTells DEF OwedIsLow, Unread, Thresholded, Positive
    <3>2. OwedIsLow'
      BY <2>1, <2>3, <2>4, <3>1, AsleepTells DEF OwedIsLow, WasLow
    <3>3. QED
      BY <1>T, <2>2, <2>4, <3>2 DEF TellInv, RecoveryTold
  <2>5. CASE Low(daily.result, daily.config.threshold) /\ lastRead' = "low" /\ UNCHANGED owed
    <3>1. owed => config.balance.defined /\ config.balance.amount < config.threshold
      BY <1>T, <2>1, <2>3, <2>5, ReadingTells DEF OwedIsLow, Low
    <3>2. OwedIsLow'
      BY <2>1, <2>5, <3>1, AsleepTells DEF OwedIsLow, WasLow
    <3>3. QED
      BY <2>2, <2>5, <3>2 DEF TellInv, RecoveryTold
  <2>6. CASE /\ daily.result.parsed /\ daily.result.amount >= daily.config.threshold
             /\ owed' = (owed /\ ~WasLow(daily.config)) /\ lastRead' = "fine"
    <3>1. daily.result.amount \in Int /\ daily.config.threshold \in Nat
      BY <1>T, <2>3 DEF Results, SimTypeOK, RunRecords, ConfigRecords
    <3>2. ~Low(daily.result, daily.config.threshold)
      BY <2>6, <3>1 DEF Low
    <3>3. owed => WasLow(daily.config)
      BY <1>T, <2>1, <3>2 DEF OwedIsLow
    <3>4. owed' = FALSE
      BY <1>T, <2>6, <3>3
    <3>5. QED
      BY <2>2, <3>4 DEF TellInv, OwedIsLow, RecoveryTold
  <2>7. QED
    BY <1>7, <2>4, <2>5, <2>6 DEF DailyTell
<1>8. CASE /\ check' \in RunRecords /\ UNCHANGED <<funds, config, daily, page, owed, lastRead, had>>
           /\ \/ check' = Asleep
              \/ check'.pc = "ussd" /\ check'.config = config /\ check'.result = Asleep.result
              \/ check.pc = "ussd" /\ check'.config = check.config /\ check'.result \in Replies
  <2>1. Thresholded'
    BY <1>8, <1>T, AsleepTells DEF Thresholded, Positive
  <2>2. QED
    BY <1>2, <1>8, <2>1
<1>9. ASSUME owed' = FALSE, UNCHANGED daily, Thresholded' PROVE TellInv'
  BY <1>9, <1>T DEF TellInv, Unread, OwedIsLow, RecoveryTold
<1>10. CASE CheckWrite
  <2>1. UNCHANGED <<daily, page>> /\ check.pc = "write"
    BY <1>10 DEF CheckWrite
  <2>2. Thresholded'
    BY <1>10, <1>T, <2>1, WriteEffect, AsleepTells DEF Thresholded, Positive
  <2>3. QED
    BY <1>9, <1>10, <1>T, <2>1, <2>2, WriteEffect
<1>11. CASE LoadPage
  <2>1. Thresholded'
    BY <1>11, <1>T DEF LoadPage, Thresholded, Positive
  <2>2. QED
    BY <1>2, <1>11, <2>1 DEF LoadPage
<1>12. CASE SaveSettings
  <2>1. UNCHANGED <<daily, page, check>>
    BY <1>12 DEF SaveSettings
  <2>2. config'.threshold \in Nat \ {0}
    BY <1>12, <1>T, SaveEffect, SimAssumption
  <2>3. Thresholded'
    BY <1>T, <2>1, <2>2 DEF Thresholded, Positive
  <2>4. QED
    BY <1>9, <1>12, <1>T, <2>1, <2>3, SaveEffect
<1>13. QED
  BY <1>1, <1>3, <1>4, <1>5, <1>6, <1>7, <1>8, <1>10, <1>11, <1>12, <1>T, SimEffects

\* In the beginning nothing is owed to anybody.
LEMMA TellStart ==
  ASSUME 0 \notin Thresholds, SimInit
  PROVE  TellInv
<1>1. PICK c \in UssdCodes, t \in Thresholds : config = [code |-> c, threshold |-> t, balance |-> Undefined]
  BY DEF SimInit
<1>2. config.threshold \in Nat \ {0}
  BY <1>1, SimAssumption
<1>3. page = config /\ daily = Asleep /\ check = Asleep /\ owed = FALSE /\ lastRead = "none"
  BY DEF SimInit
<1>4. QED
  BY <1>2, <1>3, AsleepTells DEF TellInv, Thresholded, Positive, Unread, OwedIsLow, RecoveryTold

\* Where thresholds are positive, what a line shows about its balance and what people are
\* told of it is so: whoever was told of a low one is told of the recovery by the run that
\* reads it, however many runs could read nothing in between.
THEOREM BalanceIsTold ==
  ASSUME 0 \notin Thresholds
  PROVE  SimSpec => []BalanceTold
<1>1. SimInit => RealInv /\ TellInv
  BY RealStart, TellStart
<1>2. RealInv /\ TellInv /\ [SimNext]_simVars => RealInv' /\ TellInv'
  BY RealStep, TellStep
<1>3. RealInv /\ TellInv => BalanceTold
  BY DEF RealInv, AllReal, Real, TellInv, BalanceTold, BalanceIsReal
<1>4. QED
  BY <1>1, <1>2, <1>3, PTL DEF SimSpec

-----------------------------------------------------------------------------
(* The test chat.                                                            *)

IsThread(c) == c = [ep |-> c.ep, peer |-> c.peer] /\ c.ep # 0

\* The shape of the state; what the fields hold is the business of the others.
IsTab(t) ==
  t = [loaded |-> t.loaded, active |-> t.active, lines |-> t.lines, list |-> t.list,
       selected |-> t.selected, composing |-> t.composing, to |-> t.to, ep |-> t.ep,
       channel |-> t.channel, draft |-> t.draft, picked |-> t.picked, pending |-> t.pending]

IsRequest(r) ==
  r = [pc |-> r.pc, acc |-> r.acc, ep |-> r.ep, to |-> r.to, draft |-> r.draft, of |-> r.of,
       picked |-> r.picked, made |-> r.made]

ChatShape ==
  /\ IsTab(tab)
  /\ request = [i \in 1..MaxRequests |-> request[i]]
  /\ \A i \in 1..MaxRequests : IsRequest(request[i])
  /\ typed \in [drafts : Nat, requests : 0..MaxRequests, lost : Nat]
  /\ \E S : outbox \in Seq(S)

UnderWay(i) == request[i].pc \in {"posted", "handled"}

\* Requests are numbered as they are made; one is under way at a time, while the button
\* is blocked.
RequestsOK ==
  /\ \A i \in 1..MaxRequests : i > typed.requests => request[i].pc = "none"
  /\ \A i \in 1..MaxRequests : request[i].pc \in {"none", "posted", "handled", "done"}
  /\ \A i \in 1..MaxRequests : request[i].made => request[i].pc \in {"handled", "done"}
  /\ \A i \in 1..MaxRequests : UnderWay(i) => tab.pending
  /\ \A i, j \in 1..MaxRequests : UnderWay(i) /\ UnderWay(j) => i = j

\* What is open, and what was posted from it, is addressed to it.
TargetsOK ==
  /\ \A c \in thread : IsThread(c)
  /\ \A c \in tab.list : IsThread(c)
  /\ tab.selected # NoThread /\ ~tab.picked =>
       IsThread(tab.selected) /\ tab.ep = tab.selected.ep /\ tab.to = tab.selected.peer
  /\ \A i \in 1..MaxRequests :
       request[i].pc # "none" /\ request[i].of # NoThread /\ ~request[i].picked =>
         IsThread(request[i].of) /\ request[i].ep = request[i].of.ep /\ request[i].to = request[i].of.peer

\* Every message is that of a request of its own.
OutboxOK ==
  /\ \A n \in DOMAIN outbox : outbox[n].request \in 1..MaxRequests /\ request[outbox[n].request].made
  /\ \A m, n \in DOMAIN outbox : outbox[m].request = outbox[n].request => m = n

\* A text that made a message is in no other request, nor in the composer once the answer
\* is there: as long as no answer was lost.
DraftsOK ==
  /\ tab.draft \in 0..typed.drafts
  /\ \A i \in 1..MaxRequests : request[i].pc # "none" => request[i].draft \in 1..typed.drafts
  /\ typed.lost = 0 =>
       /\ \A i, j \in 1..MaxRequests :
            i # j /\ request[i].made /\ (request[j].made \/ UnderWay(j)) => request[i].draft # request[j].draft
       /\ \A i \in 1..MaxRequests : request[i].made /\ request[i].pc = "done" => tab.draft # request[i].draft

ChatInv == ChatShape /\ RequestsOK /\ TargetsOK /\ OutboxOK /\ DraftsOK /\ RepliesFromThread

\* What a page that fetches, or a text field that is edited, leaves alone.
SameFields(t, u) == /\ u.list = t.list /\ u.selected = t.selected /\ u.to = t.to /\ u.ep = t.ep
                    /\ u.draft = t.draft /\ u.picked = t.picked /\ u.pending = t.pending

\* Loading the accounts changes nothing that the invariant looks at.
LEMMA Fetched ==
  ASSUME ChatShape, FetchAccounts
  PROVE  IsTab(tab)' /\ SameFields(tab, tab')
<1>1. PICK a, l, c : tab' = [tab EXCEPT !.loaded = TRUE, !.active = a, !.lines = l, !.channel = c]
  BY DEF FetchAccounts
<1>2. QED
  BY <1>1 DEF ChatShape, IsTab, SameFields

\* Opening a conversation takes its peer and endpoint for the reply.
LEMMA Targeted ==
  ASSUME ChatShape, NEW c
  PROVE  LET t == [Target(c) EXCEPT !.composing = FALSE, !.selected = c]
         IN  /\ IsTab(t) /\ t.list = tab.list /\ t.selected = c /\ t.to = c.peer /\ t.ep = c.ep
             /\ t.draft = tab.draft /\ ~t.picked /\ t.pending = tab.pending
<1> DEFINE t == [Target(c) EXCEPT !.composing = FALSE, !.selected = c]
<1>1. t = [tab EXCEPT !.to = c.peer, !.channel = TRUE, !.ep = c.ep, !.picked = FALSE,
                      !.composing = FALSE, !.selected = c]
  BY DEF ChatShape, IsTab, Target
<1> HIDE DEF t
<1>2. /\ IsTab(t) /\ t.list = tab.list /\ t.selected = c /\ t.to = c.peer /\ t.ep = c.ep
      /\ t.draft = tab.draft /\ ~t.picked /\ t.pending = tab.pending
  BY <1>1 DEF ChatShape, IsTab
<1>3. QED
  BY <1>2 DEF t

\* The part of the page the requests depend on.
LEMMA PageStep ==
  ASSUME ChatInv, UNCHANGED <<request, outbox>>, typed' \in [drafts : Nat, requests : 0..MaxRequests, lost : Nat],
         typed'.requests = typed.requests, typed'.lost = typed.lost, typed'.drafts >= typed.drafts,
         IsTab(tab)', tab'.pending = tab.pending,
         \/ tab'.draft = tab.draft
         \/ tab'.draft = 0
         \/ tab'.draft = typed.drafts + 1 /\ typed'.drafts = typed.drafts + 1,
         \A c \in thread' : IsThread(c), \A c \in tab'.list : IsThread(c),
         tab'.selected # NoThread /\ ~tab'.picked =>
           IsThread(tab'.selected) /\ tab'.ep = tab'.selected.ep /\ tab'.to = tab'.selected.peer
  PROVE  ChatInv'
<1>0. ChatShape /\ RequestsOK /\ TargetsOK /\ OutboxOK /\ DraftsOK /\ RepliesFromThread
  BY DEF ChatInv
<1>1. ChatShape'
  BY <1>0 DEF ChatShape
<1>2. RequestsOK'
  BY <1>0 DEF RequestsOK, UnderWay
<1>3. TargetsOK'
  BY <1>0 DEF TargetsOK
<1>4. OutboxOK' /\ RepliesFromThread'
  BY <1>0 DEF OutboxOK, RepliesFromThread
<1>5. DraftsOK'
  <2>1. typed.drafts \in Nat /\ typed'.drafts \in Nat
    BY <1>0 DEF ChatShape
  <2>2. tab'.draft \in 0..typed'.drafts
    BY <1>0, <2>1 DEF DraftsOK
  <2>3. \A i \in 1..MaxRequests : request'[i].pc # "none" => request'[i].draft \in 1..typed'.drafts
    BY <1>0, <2>1 DEF DraftsOK
  <2>4. \A i \in 1..MaxRequests : request[i].made => request[i].draft \in 1..typed.drafts
    BY <1>0 DEF DraftsOK, RequestsOK
  <2>5. ASSUME typed'.lost = 0, NEW i \in 1..MaxRequests, request'[i].made, request'[i].pc = "done"
        PROVE  tab'.draft # request'[i].draft
    BY <1>0, <2>1, <2>4, <2>5 DEF DraftsOK
  <2>6. ASSUME typed'.lost = 0
        PROVE  \A i, j \in 1..MaxRequests :
                 i # j /\ request'[i].made /\ (request'[j].made \/ UnderWay(j)') => request'[i].draft # request'[j].draft
    BY <1>0, <2>6 DEF DraftsOK, UnderWay
  <2>7. QED
    BY <2>2, <2>3, <2>5, <2>6 DEF DraftsOK
<1>6. QED
  BY <1>1, <1>2, <1>3, <1>4, <1>5 DEF ChatInv

\* A request is posted with what the fields hold.
LEMMA SubmitStep ==
  ASSUME ChatInv, Submit
  PROVE  ChatInv'
<1>0. ChatShape /\ RequestsOK /\ TargetsOK /\ OutboxOK /\ DraftsOK /\ RepliesFromThread
  BY DEF ChatInv
<1> DEFINE k == typed.requests + 1
           r == [pc |-> "posted", acc |-> AccountOf(tab.ep), ep |-> tab.ep, to |-> tab.to,
                 draft |-> tab.draft, of |-> tab.selected, picked |-> tab.picked, made |-> FALSE]
<1>1. k \in 1..MaxRequests /\ typed.requests \in Nat /\ typed.drafts \in Nat
  <2>1. typed.requests < MaxRequests
    BY DEF Submit
  <2>2. typed.requests \in 0..MaxRequests /\ typed.drafts \in Nat
    BY <1>0 DEF ChatShape
  <2>3. MaxRequests \in Nat
    BY ChatAssumption
  <2>4. QED
    BY <2>1, <2>2, <2>3
<1>2. request' = [request EXCEPT ![k] = r] /\ UNCHANGED <<thread, outbox>>
      /\ tab' = [tab EXCEPT !.pending = TRUE] /\ tab.draft # 0 /\ ~tab.pending
  BY DEF Submit, CanSend
<1>3. IsTab(tab)' /\ tab'.pending /\ tab'.list = tab.list /\ tab'.selected = tab.selected /\ tab'.to = tab.to
      /\ tab'.ep = tab.ep /\ tab'.draft = tab.draft /\ tab'.picked = tab.picked
  BY <1>0, <1>2 DEF ChatShape, IsTab
<1>4. typed' \in [drafts : Nat, requests : 0..MaxRequests, lost : Nat] /\ typed'.requests = k
      /\ typed'.drafts = typed.drafts /\ typed'.lost = typed.lost
  <2>1. typed' = [typed EXCEPT !.requests = k]
    BY DEF Submit
  <2> HIDE DEF k
  <2>2. QED
    BY <1>0, <1>1, <2>1 DEF ChatShape
<1>5. r.pc = "posted" /\ r.made = FALSE /\ r.draft = tab.draft /\ r.ep = tab.ep /\ r.to = tab.to
      /\ r.of = tab.selected /\ r.picked = tab.picked /\ IsRequest(r)
  BY DEF IsRequest
<1> HIDE DEF r
<1>6. request'[k] = r /\ (\A i \in 1..MaxRequests : i # k => request'[i] = request[i])
      /\ request' = [i \in 1..MaxRequests |-> request'[i]]
  BY <1>0, <1>1, <1>2 DEF ChatShape
<1>7. \A i \in 1..MaxRequests : ~UnderWay(i)
  BY <1>0, <1>2 DEF RequestsOK
<1>8. request[k].pc = "none" /\ ~request[k].made
  BY <1>0, <1>1 DEF RequestsOK
<1>9. ChatShape'
  BY <1>0, <1>2, <1>3, <1>4, <1>5, <1>6 DEF ChatShape
<1>10. RequestsOK'
  BY <1>0, <1>1, <1>3, <1>4, <1>5, <1>6, <1>7 DEF RequestsOK, UnderWay
<1>11. TargetsOK'
  BY <1>0, <1>1, <1>2, <1>3, <1>5, <1>6 DEF TargetsOK
<1>12. \A n \in DOMAIN outbox : outbox[n].request \in 1..MaxRequests /\ outbox[n].request # k
  BY <1>0, <1>8 DEF OutboxOK
<1>13. OutboxOK' /\ RepliesFromThread'
  BY <1>0, <1>2, <1>6, <1>12 DEF OutboxOK, RepliesFromThread
<1>14. DraftsOK'
  <2>1. tab.draft \in 1..typed.drafts
    BY <1>0, <1>1, <1>2 DEF DraftsOK
  <2>2. \A i \in 1..MaxRequests : request'[i].pc # "none" => request'[i].draft \in 1..typed'.drafts
    BY <1>0, <1>4, <1>5, <1>6, <2>1 DEF DraftsOK
  <2>3. \A i \in 1..MaxRequests : request[i].made => request[i].pc = "done"
    BY <1>0, <1>7 DEF RequestsOK, UnderWay
  <2>4. ASSUME typed'.lost = 0, NEW i \in 1..MaxRequests, NEW j \in 1..MaxRequests, i # j,
               request'[i].made, request'[j].made \/ UnderWay(j)'
        PROVE  request'[i].draft # request'[j].draft
    <3>1. i # k /\ request[i].made /\ request[i].pc = "done" /\ request'[i] = request[i]
      BY <1>5, <1>6, <2>3, <2>4
    <3>2. CASE j = k
      BY <1>0, <1>4, <1>5, <1>6, <2>4, <3>1, <3>2 DEF DraftsOK
    <3>3. CASE j # k
      BY <1>0, <1>4, <1>6, <1>7, <2>4, <3>1, <3>3 DEF DraftsOK, UnderWay
    <3>4. QED
      BY <3>2, <3>3
  <2>5. ASSUME typed'.lost = 0, NEW i \in 1..MaxRequests, request'[i].made, request'[i].pc = "done"
        PROVE  tab'.draft # request'[i].draft
    BY <1>0, <1>3, <1>4, <1>5, <1>6, <2>5 DEF DraftsOK
  <2>6. tab'.draft \in 0..typed'.drafts
    BY <1>0, <1>3, <1>4 DEF DraftsOK
  <2>7. QED
    BY <2>2, <2>4, <2>5, <2>6 DEF DraftsOK
<1>15. QED
  BY <1>9, <1>10, <1>11, <1>13, <1>14 DEF ChatInv

\* The API makes a message of a request, or refuses it.
LEMMA HandleStep ==
  ASSUME ChatInv, NEW i \in 1..MaxRequests, HandleSend(i)
  PROVE  ChatInv'
<1>0. ChatShape /\ RequestsOK /\ TargetsOK /\ OutboxOK /\ DraftsOK /\ RepliesFromThread
  BY DEF ChatInv
<1>1. request[i].pc = "posted" /\ UNCHANGED <<tab, typed>> /\ UnderWay(i) /\ ~request[i].made
  BY <1>0 DEF HandleSend, UnderWay, RequestsOK
<1> DEFINE l == PickedLine(request[i])
           made == l # 0
<1>2. \/ /\ made /\ thread' = thread \cup {[ep |-> l, peer |-> request[i].to]}
         /\ outbox' = Append(outbox, [ep |-> l, to |-> request[i].to, request |-> i])
         /\ request' = [request EXCEPT ![i].pc = "handled", ![i].made = TRUE]
      \/ /\ ~made /\ UNCHANGED <<thread, outbox>> /\ request' = [request EXCEPT ![i].pc = "handled"]
  BY DEF HandleSend
<1>3. request[i].acc # 0 /\ request[i].ep # 0 /\ l # 0 => l = request[i].ep
  BY DEF PickedLine
<1> HIDE DEF l
<1>H. ASSUME request' = [request EXCEPT ![i].pc = "handled", ![i].made = TRUE]
      PROVE  request'[i] = [pc |-> "handled", acc |-> request[i].acc, ep |-> request[i].ep, to |-> request[i].to,
                            draft |-> request[i].draft, of |-> request[i].of, picked |-> request[i].picked, made |-> TRUE]
  <2> DEFINE q == [request[i] EXCEPT !.pc = "handled"]
  <2>1. request' = [request EXCEPT ![i] = [q EXCEPT !.made = TRUE]]
    BY <1>0, <1>H DEF ChatShape
  <2>2. q = [pc |-> "handled", acc |-> request[i].acc, ep |-> request[i].ep, to |-> request[i].to,
             draft |-> request[i].draft, of |-> request[i].of, picked |-> request[i].picked, made |-> request[i].made]
    BY <1>0 DEF ChatShape, IsRequest
  <2> HIDE DEF q
  <2>3. request'[i] = [q EXCEPT !.made = TRUE]
    BY <1>0, <2>1 DEF ChatShape
  <2>4. QED
    BY <2>2, <2>3
<1>4. request'[i].pc = "handled" /\ request'[i].draft = request[i].draft /\ request'[i].of = request[i].of
      /\ request'[i].ep = request[i].ep /\ request'[i].to = request[i].to /\ request'[i].picked = request[i].picked
      /\ request'[i].acc = request[i].acc /\ IsRequest(request'[i])
  <2>1. CASE request' = [request EXCEPT ![i].pc = "handled", ![i].made = TRUE]
    <3> DEFINE q == [pc |-> "handled", acc |-> request[i].acc, ep |-> request[i].ep, to |-> request[i].to,
                     draft |-> request[i].draft, of |-> request[i].of, picked |-> request[i].picked, made |-> TRUE]
    <3>1. q.pc = "handled" /\ q.draft = request[i].draft /\ q.of = request[i].of
          /\ q.ep = request[i].ep /\ q.to = request[i].to /\ q.picked = request[i].picked
          /\ q.acc = request[i].acc /\ IsRequest(q)
      BY DEF IsRequest
    <3>2. request'[i] = q
      BY <2>1, <1>H
    <3> HIDE DEF q
    <3>3. QED
      BY <3>1, <3>2
  <2>2. CASE request' = [request EXCEPT ![i].pc = "handled"]
    BY <1>0, <2>2 DEF ChatShape, IsRequest
  <2>3. QED
    BY <1>2, <2>1, <2>2
<1>5. (request'[i].made => made) /\ (made => request'[i].made)
  <2>1. CASE made /\ request' = [request EXCEPT ![i].pc = "handled", ![i].made = TRUE]
    BY <2>1, <1>H
  <2>2. CASE ~made /\ request' = [request EXCEPT ![i].pc = "handled"]
    BY <1>0, <1>1, <2>2 DEF ChatShape, IsRequest
  <2>3. QED
    BY <1>2, <2>1, <2>2
<1>6. request' = [j \in 1..MaxRequests |-> request'[j]] /\ \A j \in 1..MaxRequests : j # i => request'[j] = request[j]
  BY <1>0, <1>2 DEF ChatShape
<1>7. \E S : outbox' \in Seq(S)
  <2>1. PICK S : outbox \in Seq(S)
    BY <1>0 DEF ChatShape
  <2> DEFINE e == [ep |-> l, to |-> request[i].to, request |-> i]
             T == S \cup {e}
  <2>2. outbox \in Seq(T) /\ e \in T
    BY <2>1
  <2> HIDE DEF T, e
  <2>3. Append(outbox, e) \in Seq(T)
    BY <2>2
  <2>4. QED
    BY <1>2, <2>1, <2>3 DEF e
<1>8. ChatShape'
  BY <1>0, <1>1, <1>4, <1>6, <1>7 DEF ChatShape
<1>9. RequestsOK'
  BY <1>0, <1>1, <1>4, <1>6 DEF RequestsOK, UnderWay
<1>10. TargetsOK'
  <2>1. \A c \in thread' : IsThread(c)
    <3>1. l # 0 => IsThread([ep |-> l, peer |-> request[i].to])
      BY DEF IsThread
    <3>2. QED
      BY <1>0, <1>2, <3>1 DEF TargetsOK
  <2>2. QED
    BY <1>0, <1>1, <1>4, <1>6, <2>1 DEF TargetsOK
<1>11. CASE ~made
  <2>1. UNCHANGED outbox
    BY <1>2, <1>11
  <2>2. OutboxOK' /\ RepliesFromThread'
    BY <1>0, <1>1, <1>6, <2>1 DEF OutboxOK, RepliesFromThread
  <2>3. DraftsOK'
    BY <1>0, <1>1, <1>4, <1>5, <1>6, <1>11 DEF DraftsOK, UnderWay
  <2>4. QED
    BY <1>8, <1>9, <1>10, <2>2, <2>3 DEF ChatInv
<1>12. CASE made
  <2> DEFINE e == [ep |-> l, to |-> request[i].to, request |-> i]
             k == Len(outbox) + 1
  <2>1. outbox' = Append(outbox, e)
    BY <1>2, <1>12
  <2>2. PICK S : outbox \in Seq(S)
    BY <1>0 DEF ChatShape
  <2>3. DOMAIN outbox = 1..Len(outbox) /\ Len(outbox) \in Nat
    BY <2>2
  <2> HIDE DEF e
  <2>4. DOMAIN outbox' = DOMAIN outbox \cup {k} /\ k \notin DOMAIN outbox
        /\ outbox'[k] = e /\ \A n \in DOMAIN outbox : outbox'[n] = outbox[n]
    BY <2>1, <2>2, <2>3
  <2>5. e.ep = l /\ e.to = request[i].to /\ e.request = i
    BY DEF e
  <2> HIDE DEF k
  <2>6. \A n \in DOMAIN outbox : outbox[n].request \in 1..MaxRequests /\ outbox[n].request # i
    BY <1>0, <1>1 DEF OutboxOK
  <2>7. OutboxOK'
    BY <1>0, <1>5, <1>6, <1>12, <2>4, <2>5, <2>6 DEF OutboxOK
  <2>8. RepliesFromThread'
    <3>1. ASSUME request[i].of # NoThread, ~request[i].picked, request[i].acc # 0
          PROVE  [ep |-> l, peer |-> request[i].to] = request[i].of
      <4>1. IsThread(request[i].of) /\ request[i].ep = request[i].of.ep /\ request[i].to = request[i].of.peer
        BY <1>0, <1>1, <3>1 DEF TargetsOK
      <4>2. l = request[i].ep
        BY <1>3, <1>12, <3>1, <4>1 DEF IsThread
      <4>3. QED
        BY <4>1, <4>2 DEF IsThread
    <3>2. QED
      BY <1>0, <1>4, <1>6, <2>4, <2>5, <2>6, <3>1 DEF RepliesFromThread
  <2>9. DraftsOK'
    <3>1. ASSUME typed'.lost = 0, NEW a \in 1..MaxRequests, NEW b \in 1..MaxRequests, a # b,
                 request'[a].made, request'[b].made \/ UnderWay(b)'
          PROVE  request'[a].draft # request'[b].draft
      <4>1. request[a].draft = request'[a].draft /\ request[b].draft = request'[b].draft
        BY <1>4, <1>6
      <4>2. CASE a = i
        <5>1. b # i /\ request'[b] = request[b]
          BY <1>6, <3>1, <4>2
        <5>2. request[b].made
          BY <1>0, <1>1, <3>1, <4>2, <5>1 DEF RequestsOK, UnderWay
        <5>3. QED
          BY <1>0, <1>1, <3>1, <4>1, <4>2, <5>2 DEF DraftsOK
      <4>3. CASE a # i
        <5>1. request[a].made
          BY <1>6, <3>1, <4>3
        <5>2. request[b].made \/ UnderWay(b)
          BY <1>1, <1>6, <3>1 DEF UnderWay
        <5>3. QED
          BY <1>0, <1>1, <3>1, <4>1, <5>1, <5>2 DEF DraftsOK
      <4>4. QED
        BY <4>2, <4>3
    <3>2. \A a \in 1..MaxRequests : request'[a].made /\ request'[a].pc = "done" => request[a].made /\ request[a].pc = "done"
      BY <1>4, <1>6
    <3>3. \A a \in 1..MaxRequests : request'[a].draft = request[a].draft /\ (request'[a].pc # "none" => request[a].pc # "none")
      BY <1>1, <1>4, <1>6
    <3>4. QED
      BY <1>0, <1>1, <3>1, <3>2, <3>3 DEF DraftsOK
  <2>10. QED
    BY <1>8, <1>9, <1>10, <2>7, <2>8, <2>9 DEF ChatInv
<1>13. QED
  BY <1>11, <1>12

\* An answer comes in, or is lost.
LEMMA AnswerStep ==
  ASSUME ChatInv, NEW i \in 1..MaxRequests, Answered(i)
  PROVE  ChatInv'
<1>0. ChatShape /\ RequestsOK /\ TargetsOK /\ OutboxOK /\ DraftsOK /\ RepliesFromThread
  BY DEF ChatInv
<1>1. request[i].pc = "handled" /\ request' = [request EXCEPT ![i].pc = "done"] /\ UNCHANGED <<thread, outbox>> /\ UnderWay(i)
  BY DEF Answered, UnderWay
<1>2. IsRequest(request'[i]) /\ request'[i].pc = "done" /\ request'[i].made = request[i].made /\ request'[i].draft = request[i].draft
      /\ request'[i].of = request[i].of /\ request'[i].ep = request[i].ep /\ request'[i].to = request[i].to
      /\ request'[i].picked = request[i].picked /\ request'[i].acc = request[i].acc
  BY <1>0, <1>1 DEF ChatShape, IsRequest
<1>3. request' = [j \in 1..MaxRequests |-> request'[j]] /\ \A j \in 1..MaxRequests : j # i => request'[j] = request[j]
  BY <1>0, <1>1 DEF ChatShape
<1>4. /\ IsTab(tab)' /\ tab'.pending = FALSE /\ tab'.list = tab.list /\ tab'.selected = tab.selected /\ tab'.to = tab.to
      /\ tab'.ep = tab.ep /\ tab'.picked = tab.picked /\ tab'.draft \in {0, tab.draft}
      /\ typed'.lost = 0 /\ request[i].made => tab'.draft = 0
      /\ typed' \in [drafts : Nat, requests : 0..MaxRequests, lost : Nat]
      /\ typed'.drafts = typed.drafts /\ typed'.requests = typed.requests /\ (typed'.lost = 0 => typed.lost = 0)
  <2>1. CASE request[i].made /\ tab' = [tab EXCEPT !.draft = 0, !.composing = FALSE, !.pending = FALSE] /\ UNCHANGED typed
    BY <1>0, <2>1 DEF ChatShape, IsTab
  <2>2. CASE ~request[i].made /\ tab' = [tab EXCEPT !.pending = FALSE] /\ UNCHANGED typed
    BY <1>0, <2>2 DEF ChatShape, IsTab
  <2>3. CASE tab' = [tab EXCEPT !.pending = FALSE] /\ typed' = [typed EXCEPT !.lost = @ + 1]
    <3>1. IsTab(tab)' /\ tab'.pending = FALSE /\ tab'.list = tab.list /\ tab'.selected = tab.selected /\ tab'.to = tab.to
          /\ tab'.ep = tab.ep /\ tab'.picked = tab.picked /\ tab'.draft = tab.draft
      BY <1>0, <2>3 DEF ChatShape, IsTab
    <3>2. /\ typed' \in [drafts : Nat, requests : 0..MaxRequests, lost : Nat]
          /\ typed'.drafts = typed.drafts /\ typed'.requests = typed.requests /\ typed'.lost # 0
      BY <1>0, <2>3 DEF ChatShape
    <3>3. QED
      BY <3>1, <3>2
  <2>4. QED
    BY <2>1, <2>2, <2>3 DEF Answered
<1>5. ChatShape'
  BY <1>0, <1>1, <1>2, <1>3, <1>4 DEF ChatShape
<1>6. RequestsOK'
  BY <1>0, <1>1, <1>2, <1>3, <1>4 DEF RequestsOK, UnderWay
<1>7. TargetsOK'
  BY <1>0, <1>1, <1>2, <1>3, <1>4 DEF TargetsOK
<1>8. OutboxOK'
  BY <1>0, <1>1, <1>2, <1>3 DEF OutboxOK
<1>9. RepliesFromThread'
  BY <1>0, <1>1, <1>2, <1>3 DEF RepliesFromThread, OutboxOK
<1>10. DraftsOK'
  <2>1. \A j \in 1..MaxRequests : request'[j].made = request[j].made /\ request'[j].draft = request[j].draft
                                  /\ (UnderWay(j)' => UnderWay(j)) /\ (request'[j].pc # "none" => request[j].pc # "none")
    BY <1>1, <1>2, <1>3 DEF UnderWay
  <2>2. tab'.draft \in 0..typed'.drafts
    BY <1>0, <1>4 DEF DraftsOK, ChatShape
  <2>3. \A j \in 1..MaxRequests : request'[j].pc # "none" => request'[j].draft \in 1..typed'.drafts
    BY <1>0, <1>4, <2>1 DEF DraftsOK
  <2>4. ASSUME typed'.lost = 0, NEW j \in 1..MaxRequests, request'[j].made, request'[j].pc = "done"
        PROVE  tab'.draft # request'[j].draft
    <3>1. request[j].draft \in 1..typed.drafts /\ typed.drafts \in Nat
      BY <1>0, <2>1, <2>4 DEF DraftsOK, ChatShape
    <3>2. CASE j = i
      BY <1>4, <2>1, <2>4, <3>1, <3>2
    <3>3. CASE j # i
      BY <1>0, <1>3, <1>4, <2>1, <2>4, <3>1, <3>3 DEF DraftsOK
    <3>4. QED
      BY <3>2, <3>3
  <2>5. ASSUME typed'.lost = 0
        PROVE  \A a, b \in 1..MaxRequests :
                 a # b /\ request'[a].made /\ (request'[b].made \/ UnderWay(b)') => request'[a].draft # request'[b].draft
    BY <1>0, <1>4, <2>1, <2>5 DEF DraftsOK
  <2>6. QED
    BY <2>2, <2>3, <2>4, <2>5 DEF DraftsOK
<1>11. QED
  BY <1>5, <1>6, <1>7, <1>8, <1>9, <1>10 DEF ChatInv

\* A step of the page, of the API or of an operator.
LEMMA ChatStep ==
  ChatInv /\ [ChatNext]_<<adminVars, chatVars>> => ChatInv'
<1> SUFFICES ASSUME ChatInv, [ChatNext]_<<adminVars, chatVars>> PROVE ChatInv'
  OBVIOUS
<1>0. ChatShape /\ TargetsOK /\ DraftsOK
  BY DEF ChatInv
<1>T. typed \in [drafts : Nat, requests : 0..MaxRequests, lost : Nat] /\ typed.drafts \in Nat /\ typed.drafts >= typed.drafts
  BY <1>0 DEF ChatShape
<1>U. IsTab(tab) /\ (\A c \in thread : IsThread(c)) /\ (\A c \in tab.list : IsThread(c))
      /\ (tab.selected # NoThread /\ ~tab.picked =>
           IsThread(tab.selected) /\ tab.ep = tab.selected.ep /\ tab.to = tab.selected.peer)
  BY <1>0 DEF ChatShape, TargetsOK
<1>1. CASE UNCHANGED chatVars
  <2>1. UNCHANGED <<thread, tab, request, outbox, typed>>
    BY <1>1 DEF chatVars
  <2>2. QED
    BY <1>T, <1>U, <2>1, PageStep
<1>2. ASSUME NEW l \in LineIds, RemoveEndpoint(l) PROVE ChatInv'
  <2>1. UNCHANGED <<tab, request, outbox, typed>> /\ thread' = {c \in thread : c.ep # l}
    BY <1>2 DEF RemoveEndpoint
  <2>2. QED
    BY <1>T, <1>U, <2>1, PageStep
<1>3. CASE FetchAccounts
  <2>1. UNCHANGED <<thread, request, outbox, typed>> /\ IsTab(tab)' /\ SameFields(tab, tab')
    BY <1>0, <1>3, Fetched DEF FetchAccounts
  <2>2. QED
    BY <1>T, <1>U, <2>1, PageStep DEF SameFields
<1>4. CASE FetchThreads
  <2>1. UNCHANGED <<thread, request, outbox, typed>> /\ tab' = [tab EXCEPT !.list = thread]
    BY <1>4 DEF FetchThreads
  <2>2. IsTab(tab)' /\ tab'.list = thread /\ tab'.selected = tab.selected /\ tab'.to = tab.to /\ tab'.ep = tab.ep
        /\ tab'.draft = tab.draft /\ tab'.picked = tab.picked /\ tab'.pending = tab.pending
    BY <1>U, <2>1 DEF IsTab
  <2>3. QED
    BY <1>T, <1>U, <2>1, <2>2, PageStep
<1>5. ASSUME NEW c \in tab.list, OpenThread(c) PROVE ChatInv'
  <2>1. UNCHANGED <<thread, request, outbox, typed>>
    BY <1>5 DEF OpenThread
  <2>2. CASE tab' = [tab EXCEPT !.composing = FALSE]
    <3>1. IsTab(tab)' /\ SameFields(tab, tab')
      BY <1>U, <2>2 DEF IsTab, SameFields
    <3>2. QED
      BY <1>T, <1>U, <2>1, <3>1, PageStep DEF SameFields
  <2>3. CASE tab' = [Target(c) EXCEPT !.composing = FALSE, !.selected = c]
    <3>1. /\ IsTab(tab)' /\ tab'.list = tab.list /\ tab'.selected = c /\ tab'.to = c.peer /\ tab'.ep = c.ep
          /\ tab'.draft = tab.draft /\ ~tab'.picked /\ tab'.pending = tab.pending
      BY <1>0, <2>3, Targeted
    <3>2. IsThread(c)
      BY <1>U
    <3>3. QED
      BY <1>T, <1>U, <2>1, <3>1, <3>2, PageStep
  <2>4. QED
    BY <1>5, <2>2, <2>3 DEF OpenThread
<1>6. CASE StartNewChat
  <2>1. UNCHANGED <<thread, request, outbox, typed>>
        /\ tab' = [tab EXCEPT !.selected = NoThread, !.composing = TRUE, !.to = "", !.draft = 0]
    BY <1>6 DEF StartNewChat
  <2>2. IsTab(tab)' /\ tab'.list = tab.list /\ tab'.selected = NoThread /\ tab'.draft = 0 /\ tab'.pending = tab.pending
    BY <1>U, <2>1 DEF IsTab
  <2>3. QED
    BY <1>T, <1>U, <2>1, <2>2, PageStep
<1>7. CASE Type
  <2>1. UNCHANGED <<thread, request, outbox>> /\ typed' = [typed EXCEPT !.drafts = @ + 1]
        /\ tab' = [tab EXCEPT !.draft = typed.drafts + 1]
    BY <1>7 DEF Type
  <2>2. IsTab(tab)' /\ tab'.list = tab.list /\ tab'.selected = tab.selected /\ tab'.to = tab.to /\ tab'.ep = tab.ep
        /\ tab'.draft = typed.drafts + 1 /\ tab'.picked = tab.picked /\ tab'.pending = tab.pending
    BY <1>U, <2>1 DEF IsTab
  <2>3. typed' \in [drafts : Nat, requests : 0..MaxRequests, lost : Nat] /\ typed'.drafts = typed.drafts + 1
        /\ typed'.requests = typed.requests /\ typed'.lost = typed.lost /\ typed'.drafts >= typed.drafts
    BY <1>T, <2>1
  <2>4. QED
    BY <1>U, <2>1, <2>2, <2>3, PageStep
<1>8. CASE PickTarget
  <2>1. UNCHANGED <<thread, request, outbox, typed>>
    BY <1>8 DEF PickTarget
  <2>2. IsTab(tab)' /\ tab'.list = tab.list /\ tab'.draft = tab.draft /\ tab'.picked /\ tab'.pending = tab.pending
    <3>1. ASSUME NEW p, tab' = [tab EXCEPT !.to = p, !.picked = TRUE] PROVE <2>2!:
      BY <1>U, <3>1 DEF IsTab
    <3>2. ASSUME NEW l, tab' = [tab EXCEPT !.ep = l, !.picked = TRUE] PROVE <2>2!:
      BY <1>U, <3>2 DEF IsTab
    <3>3. QED
      BY <1>8, <3>1, <3>2 DEF PickTarget
  <2>3. QED
    BY <1>T, <1>U, <2>1, <2>2, PageStep
<1>9. QED
  BY <1>1, <1>2, <1>3, <1>4, <1>5, <1>6, <1>7, <1>8, SubmitStep, HandleStep, AnswerStep DEF
     ChatNext, chatVars

\* The page starts empty.
LEMMA ChatStart ==
  ChatInit => ChatInv
<1> SUFFICES ASSUME ChatInit PROVE ChatInv
  OBVIOUS
<1>N. MaxRequests \in Nat
  BY ChatAssumption
<1>1. IsTab(tab) /\ tab.list = {} /\ tab.selected = NoThread /\ tab.draft = 0
  BY DEF ChatInit, IsTab
<1>2. request = [i \in 1..MaxRequests |-> NoRequest]
  BY DEF ChatInit
<1>3. IsRequest(NoRequest) /\ NoRequest.pc = "none" /\ NoRequest.made = FALSE
  BY DEF NoRequest, IsRequest
<1>4. typed \in [drafts : Nat, requests : 0..MaxRequests, lost : Nat] /\ typed.drafts = 0
  <2>1. typed = [drafts |-> 0, requests |-> 0, lost |-> 0]
    BY DEF ChatInit
  <2>2. QED
    BY <1>N, <2>1
<1>5. outbox = <<>> /\ outbox \in Seq({})
  <2>1. outbox = <<>>
    BY DEF ChatInit
  <2>2. QED
    BY <2>1
<1>6. ChatShape
  BY <1>1, <1>2, <1>3, <1>4, <1>5 DEF ChatShape
<1>7. RequestsOK
  BY <1>2, <1>3 DEF RequestsOK, UnderWay
<1>8. \A c \in thread : IsThread(c)
  <2>1. ASSUME NEW c \in thread PROVE IsThread(c)
    <3>1. c \in [ep : {1, 2}, peer : Peers]
      BY DEF ChatInit
    <3>2. QED
      BY <3>1 DEF IsThread
  <2>2. QED
    BY <2>1
<1>9. TargetsOK
  BY <1>1, <1>2, <1>3, <1>8 DEF TargetsOK
<1>10. OutboxOK /\ RepliesFromThread
  BY <1>5 DEF OutboxOK, RepliesFromThread
<1>11. DraftsOK
  BY <1>1, <1>2, <1>3, <1>4 DEF DraftsOK, UnderWay
<1>12. QED
  BY <1>6, <1>7, <1>9, <1>10, <1>11 DEF ChatInv

\* What is typed in a thread goes to its peer from its number or nowhere, and once, however
\* stale the page is and whatever operators change meanwhile.
THEOREM RepliesGoWhereShown ==
  ChatSpec => []RepliesGoRight
<1>1. ChatInv => SentOnce
  <2> SUFFICES ASSUME ChatInv, typed.lost = 0, NEW m \in DOMAIN outbox, NEW n \in DOMAIN outbox,
                      request[outbox[m].request].draft = request[outbox[n].request].draft
               PROVE  m = n
    BY DEF SentOnce
  <2>1. outbox[m].request \in 1..MaxRequests /\ outbox[n].request \in 1..MaxRequests
        /\ request[outbox[m].request].made /\ request[outbox[n].request].made
    BY DEF ChatInv, OutboxOK
  <2>2. outbox[m].request = outbox[n].request
    BY <2>1 DEF ChatInv, DraftsOK
  <2>3. QED
    BY <2>2 DEF ChatInv, OutboxOK
<1>2. ChatInv => RepliesGoRight
  BY <1>1 DEF ChatInv, RepliesGoRight
<1>3. QED
  BY <1>2, ChatStart, ChatStep, PTL DEF ChatSpec

\* The seed makes no second account either while numbers are deleted from the page.
THEOREM ChatKeepsSeeds ==
  ChatSpec => []SeededOnce
<1>1. AccountsInv /\ [ChatNext]_<<adminVars, chatVars>> => AccountsInv'
  BY AccountsStep DEF ChatNext
<1>2. AccountsInv => SeededOnce
  BY DEF AccountsInv
<1>3. QED
  BY <1>1, <1>2, AccountsStart, PTL DEF ChatSpec

-----------------------------------------------------------------------------
(* The traffic between an endpoint and its vendor.                           *)

IsMsg(r) == r \in [state : {r.state}, tries : {r.tries}, ext : {r.ext}, result : {r.result}]

CopyStates == {"none", "waiting", "sent", "answered", "delivered", "read", "failed"}

TrafficShape ==
  /\ adapter \in Adapters
  /\ msg = [m \in Msgs |-> msg[m]]
  /\ \A m \in Msgs : /\ IsMsg(msg[m])
                     /\ msg[m].state \in {"queued", "calling", "sent", "delivered", "read", "failed"}
  /\ copy \in [Copies -> [of : Msgs \cup {"none"},
                          state : CopyStates]]
  /\ used \in [copies : 0..MaxCopies, posts : Nat, repeats : Nat]
  /\ told \in [Msgs -> Nat]

\* Copies are numbered as they are taken, each for a message; only a GoIP line has responses.
CopiesOK ==
  \A k \in Copies : /\ IF k > used.copies THEN copy[k].state = "none"
                       ELSE copy[k].state # "none" /\ copy[k].of \in Msgs
                    /\ copy[k].state = "answered" => adapter = "goip-vendor"

\* An id names a copy of the message.
Names(k, m, id) == copy[k].state # "none" /\ copy[k].of = m /\ VendorId(k) = id

\* The adapter answers with the id of a copy, or with none.
AnswersOK ==
  \A m \in Msgs : msg[m].state = "calling" /\ msg[m].result.accepted /\ msg[m].result.id # <<>> =>
    \E k \in Copies : Names(k, m, msg[m].result.id)

\* As the adapters see it: a response on a GoIP line counts.
Arrived(k) == copy[k].state \in {"answered", "delivered", "read"}

\* What is shown of copy k is so.
Backs(k, state) ==
  /\ state = "delivered" => Arrived(k)
  /\ state = "read" => copy[k].state = "read"
  /\ state = "failed" => copy[k].state = "failed"

\* A message with an id has been taken, and its state is backed by the copy it names.
MessagesBacked ==
  \A m \in Msgs : msg[m].ext # <<>> =>
    /\ msg[m].state \in {"sent", "delivered", "read", "failed"}
    /\ \E k \in Copies : Names(k, m, msg[m].ext) /\ Backs(k, msg[m].state)

\* A report on its way about copy k says what the copy has reached.
Reports(p, k) ==
  /\ copy[k].state # "none" /\ p.id = VendorId(k) /\ p.about = copy[k].of
  /\ p.own = FALSE /\ p.content = FALSE /\ p.outside = FALSE
  /\ adapter = "gwmd" => /\ p.event = "message_status"
                         /\ p.status \in {"pending", "sent", "delivered", "read", "failed"}
                         /\ Backs(k, p.status)
  /\ adapter = "goip-vendor" => /\ p.event = "none" /\ p.status \in {"unsend", "succeeded", "failed"}
                                /\ p.status = "failed" => copy[k].state = "failed"
                                /\ p.receipt => Arrived(k)
  /\ adapter = "signal-cli-rest-api" => p.event = "receiptMessage"

Echoes(p) == /\ adapter = "gwmd" /\ p.own = TRUE /\ p.event = "message"
             /\ p.about \in Msgs

NetOK ==
  /\ net # {} => Posting
  /\ \A p \in net : \/ \E k \in Copies : Reports(p, k)
                    \/ Echoes(p)
                    \/ \E i \in Heard : p = MessageOf(i)

\* A row is made of a message somebody wrote.
RowOf(r, i) ==
  /\ r = [id |-> r.id, direction |-> r.direction, about |-> i]
  /\ adapter = "gwmd" => r.id = <<i>> /\ r.direction = "inbound"
  /\ adapter = "goip-vendor" => /\ r.id = <<Said[i].from, r.id[2], Said[i].text>> /\ r.direction = "inbound"
                                /\ Said[i].stamp # 0 => r.id[2] = Said[i].stamp
  /\ adapter = "signal-cli-rest-api" => /\ r.id = <<i>>
                                        /\ r.direction = IF Said[i].own THEN "outbound" ELSE "inbound"

StoredOK == Posting \/ stored = {}
RowsOK == \A r \in stored : \E i \in Heard : RowOf(r, i)

\* Only what has an id was reported on.
ToldOK == \A m \in Msgs : told[m] > 0 => msg[m].ext # <<>>

TrafficInv ==
  /\ TrafficShape /\ CopiesOK /\ AnswersOK /\ MessagesBacked /\ NetOK
  /\ StoredOK /\ RowsOK /\ NoneLost /\ ToldOK /\ ReportsCount

Six == {"queued", "calling", "sent", "delivered", "read", "failed"}

\* The order of the states a message goes through.
LEMMA RankValues ==
  /\ Rank("queued") = 1 /\ Rank("calling") = 2 /\ Rank("sent") = 4 /\ Rank("delivered") = 5
  /\ Rank("read") = 6 /\ Rank("failed") = 0 /\ Rank("waiting") = 0 /\ Rank("none") = 0
BY DEF Rank

\* Messages heard, messages to send and copies are told apart.
LEMMA TrafficConstants ==
  /\ MaxCopies \in Nat /\ Heard \cap Msgs = {} /\ Heard \cap Copies = {} /\ Copies \subseteq Nat
  /\ Adapters \subseteq {"gwmd", "goip-vendor", "unoapi", "signal-cli-rest-api", "mock"}
BY TrafficAssumption DEF Copies, AdapterNames

\* The vendor's ids are not empty, and no two copies share one.
LEMMA VendorIds ==
  ASSUME NEW j \in Copies, NEW k \in Copies
  PROVE  /\ VendorId(k) # <<>> /\ VendorId(k)[1] = k
         /\ VendorId(j) = VendorId(k) => j = k
<1>1. ASSUME NEW x \in Copies PROVE VendorId(x) # <<>> /\ VendorId(x)[1] = x
  BY DEF VendorId
<1>2. QED
  BY <1>1

\* An id that a message is known by names one copy, and no other message.
LEMMA OneName ==
  ASSUME NEW j \in Copies, NEW k \in Copies, NEW m, NEW n, NEW id, Names(j, m, id), Names(k, n, id)
  PROVE  j = k /\ m = n
BY VendorIds DEF Names

\* What an adapter makes of an answer carries the id of the answer, or none.
LEMMA SendIds ==
  ASSUME TrafficShape, NEW m \in Msgs, NEW r
  PROVE  Send(r, m).id \in {<<>>, IF r.id = <<>> THEN <<>> ELSE
                                  IF adapter = "goip-vendor" THEN Append(r.id, To[m]) ELSE r.id}
<1>1. adapter \in {"gwmd", "goip-vendor", "unoapi", "signal-cli-rest-api", "mock"}
  BY TrafficConstants DEF TrafficShape
<1>2. /\ \A id : Accepted(id).id = id
      /\ \A b : Refused(b).id = <<>>
  BY DEF Accepted, Refused
<1>3. CASE adapter = "gwmd"
  <2>1. Send(r, m) = GwmdSend(r)
    BY <1>3 DEF Send
  <2>2. QED
    BY <1>2, <1>3, <2>1 DEF GwmdSend
<1>4. CASE adapter = "unoapi"
  <2>1. Send(r, m) = UnoSend(r)
    BY <1>4 DEF Send
  <2>2. QED
    BY <1>2, <1>4, <2>1 DEF UnoSend
<1>5. CASE adapter = "goip-vendor"
  <2>1. Send(r, m) = GoipSend(r, To[m])
    BY <1>5 DEF Send
  <2>2. QED
    BY <1>2, <1>5, <2>1 DEF GoipSend, GoipId
<1>6. CASE adapter = "signal-cli-rest-api"
  <2>1. Send(r, m) = SignalSend(r, r.lookup)
    BY <1>6 DEF Send
  <2>2. QED
    BY <1>2, <1>6, <2>1 DEF SignalSend
<1>7. CASE adapter = "mock"
  <2>1. Send(r, m) = MockSend(r.id)
    BY <1>7 DEF Send
  <2>2. QED
    BY <1>2, <1>7, <2>1 DEF MockSend
<1>8. QED
  BY <1>1, <1>3, <1>4, <1>5, <1>6, <1>7

\* A refusal has no id.
LEMMA RefusalsHaveNone ==
  ASSUME NEW r \in Refusals
  PROVE  r.id = <<>>
<1>1. \A c, b : Answer(c, b, <<>>).id = <<>> /\ [Answer(c, b, <<>>) EXCEPT !.lookup.body = "unregistered"].id = <<>>
  BY DEF Answer
<1>2. adapter # "mock"
  BY DEF Refusals
<1>3. CASE r = [Answer(400, "none", <<>>) EXCEPT !.lookup.body = "unregistered"]
  BY <1>1, <1>3
<1>4. CASE \E c, b : r = Answer(c, b, <<>>)
  BY <1>1, <1>4
<1>5. QED
  BY <1>2, <1>3, <1>4 DEF Refusals

\* What each payload says.
LEMMA ReportFields ==
  ASSUME TrafficShape, CopiesOK, Posting, NEW k \in Copies, copy[k].state # "none"
  PROVE  Reports(ReportOf(k), k)
<1> DEFINE st == copy[k].state
           p == [Payload EXCEPT !.id = VendorId(k), !.about = copy[k].of]
<1>0. st \in {"waiting", "sent", "answered", "delivered", "read", "failed"}
  BY DEF TrafficShape, CopyStates
<1>2. CASE adapter = "gwmd"
  <2>1. ReportOf(k) = [p EXCEPT !.event = "message_status", !.status = IF st = "waiting" THEN "pending" ELSE st]
    BY <1>2 DEF ReportOf
  <2> HIDE DEF st
  <2> DEFINE q == ReportOf(k)
             w == IF st = "waiting" THEN "pending" ELSE st
  <2>2. /\ q.event = "message_status" /\ q.status = w /\ q.id = VendorId(k) /\ q.about = copy[k].of
        /\ q.own = FALSE /\ q.content = FALSE /\ q.outside = FALSE
    BY <2>1 DEF Payload
  <2>3. w \in {"pending", "sent", "delivered", "read", "failed"} /\ Backs(k, w)
    BY <1>0, <1>2 DEF Backs, Arrived, CopiesOK, st
  <2> HIDE DEF q, w
  <2>4. QED
    BY <1>2, <2>2, <2>3 DEF Reports, q
<1>3. CASE adapter = "goip-vendor"
  <2> DEFINE w == CASE st = "waiting" -> "unsend" [] st = "failed" -> "failed" [] OTHER -> "succeeded"
             d == st \in {"answered", "delivered"}
  <2>1. ReportOf(k) = [p EXCEPT !.status = w, !.receipt = d]
    BY <1>3 DEF ReportOf
  <2>2. w \in {"unsend", "succeeded", "failed"} /\ (w = "failed" => copy[k].state = "failed") /\ (d => Arrived(k))
    BY <1>0 DEF Arrived
  <2> HIDE DEF w, d
  <2> DEFINE q == ReportOf(k)
  <2>3. /\ q.event = "none" /\ q.status = w /\ q.id = VendorId(k) /\ q.about = copy[k].of /\ q.receipt = d
        /\ q.own = FALSE /\ q.content = FALSE /\ q.outside = FALSE
    BY <2>1 DEF Payload
  <2> HIDE DEF q
  <2>4. QED
    BY <1>3, <2>2, <2>3 DEF Reports, q
<1>4. CASE adapter = "signal-cli-rest-api"
  <2>1. ReportOf(k) = [p EXCEPT !.event = "receiptMessage"]
    BY <1>4 DEF ReportOf
  <2> DEFINE q == ReportOf(k)
  <2>2. /\ q.event = "receiptMessage" /\ q.id = VendorId(k) /\ q.about = copy[k].of
        /\ q.own = FALSE /\ q.content = FALSE /\ q.outside = FALSE
    BY <2>1 DEF Payload
  <2> HIDE DEF q
  <2>3. QED
    BY <1>4, <2>2 DEF Reports, q
<1>5. QED
  BY <1>2, <1>3, <1>4 DEF Posting

\* What a posted message says.
LEMMA MessageFields ==
  ASSUME Posting, NEW i \in Heard
  PROVE  LET p == MessageOf(i)
         IN  /\ p.id = <<i>> /\ p.about = i /\ p.content = TRUE /\ p.outside = FALSE /\ p.status = "none"
             /\ adapter = "gwmd" => p.event = "message" /\ p.own = Said[i].own
             /\ adapter = "goip-vendor" => p.event = "none" /\ p.own = FALSE /\ p.from = Said[i].from
                                           /\ p.stamp = Said[i].stamp /\ p.text = Said[i].text
             /\ adapter = "signal-cli-rest-api" =>
                  p.event = (IF Said[i].own THEN "sentMessage" ELSE "dataMessage") /\ p.own = FALSE
<1> DEFINE p == [Payload EXCEPT !.content = TRUE, !.from = Said[i].from, !.about = i, !.id = <<i>>]
           q == MessageOf(i)
<1>2. CASE adapter = "gwmd"
  <2>1. q = [p EXCEPT !.event = "message", !.own = Said[i].own]
    BY <1>2 DEF MessageOf
  <2> HIDE DEF q
  <2>2. /\ q.id = <<i>> /\ q.about = i /\ q.content = TRUE /\ q.outside = FALSE /\ q.status = "none"
        /\ q.event = "message" /\ q.own = Said[i].own
    BY <2>1 DEF Payload
  <2>3. QED
    BY <1>2, <2>2 DEF q
<1>3. CASE adapter = "goip-vendor"
  <2>1. q = [p EXCEPT !.stamp = Said[i].stamp, !.text = Said[i].text]
    BY <1>3 DEF MessageOf
  <2> HIDE DEF q
  <2>2. /\ q.id = <<i>> /\ q.about = i /\ q.content = TRUE /\ q.outside = FALSE /\ q.status = "none"
        /\ q.event = "none" /\ q.own = FALSE /\ q.from = Said[i].from /\ q.stamp = Said[i].stamp /\ q.text = Said[i].text
    BY <2>1 DEF Payload
  <2>3. QED
    BY <1>3, <2>2 DEF q
<1>4. CASE adapter = "signal-cli-rest-api"
  <2> DEFINE e == IF Said[i].own THEN "sentMessage" ELSE "dataMessage"
  <2>1. q = [p EXCEPT !.event = e]
    BY <1>4 DEF MessageOf
  <2> HIDE DEF q, e
  <2>2. /\ q.id = <<i>> /\ q.about = i /\ q.content = TRUE /\ q.outside = FALSE /\ q.status = "none"
        /\ q.event = e /\ q.own = FALSE
    BY <2>1 DEF Payload
  <2>3. QED
    BY <1>4, <2>2 DEF q, e
<1>5. QED
  BY <1>2, <1>3, <1>4 DEF Posting

\* The id GoipAdapter.send makes of a task is the pair of task and number.
LEMMA TaskAndNumber ==
  ASSUME NEW x, NEW y
  PROVE  Append(<<x>>, y) = <<x, y>>
<1> DEFINE S == {x, y}
           a == Append(<<x>>, y)
           b == <<x, y>>
<1>1. <<x>> \in Seq(S) /\ y \in S /\ b \in Seq(S)
  OBVIOUS
<1>2. Len(a) = 2 /\ a \in Seq(S) /\ a[1] = x /\ a[2] = y
  BY <1>1, AppendProperties
<1>3. Len(b) = 2 /\ b[1] = x /\ b[2] = y
  OBVIOUS
<1> HIDE DEF S, a, b
<1>4. \A i \in 1..Len(a) : a[i] = b[i]
  BY <1>2, <1>3
<1>5. a = b
  BY <1>1, <1>2, <1>3, <1>4, SeqEqual
<1>6. QED
  BY <1>5 DEF a, b

\* A copy, once taken, is of the same message for ever, and what it reached stays reached.
Kept ==
  \A k \in Copies : copy[k].state # "none" =>
    /\ copy'[k].of = copy[k].of /\ copy'[k].state # "none"
    /\ Arrived(k) => copy'[k].state \in {"answered", "delivered", "read"}
    /\ copy[k].state = "read" => copy'[k].state = "read"
    /\ copy[k].state = "failed" => copy'[k].state = "failed"

\* Names and Backs after the step.
NamesNext(k, m, id) == copy'[k].state # "none" /\ copy'[k].of = m /\ VendorId(k)' = id
BacksNext(k, state) ==
  /\ state = "delivered" => copy'[k].state \in {"answered", "delivered", "read"}
  /\ state = "read" => copy'[k].state = "read"
  /\ state = "failed" => copy'[k].state = "failed"

\* AnswersOK after a step, spelled out.
LEMMA AnswersNext ==
  ASSUME \A n \in Msgs : msg'[n].state = "calling" /\ msg'[n].result.accepted /\ msg'[n].result.id # <<>> =>
           \E k \in Copies : NamesNext(k, n, msg'[n].result.id)
  PROVE  AnswersOK'
BY DEF AnswersOK, Names, NamesNext

\* MessagesBacked after a step, spelled out.
LEMMA BackedNext ==
  ASSUME \A n \in Msgs : msg'[n].ext # <<>> =>
           /\ msg'[n].state \in {"sent", "delivered", "read", "failed"}
           /\ \E k \in Copies : NamesNext(k, n, msg'[n].ext) /\ BacksNext(k, msg'[n].state)
  PROVE  MessagesBacked'
BY DEF MessagesBacked, Names, NamesNext, Backs, BacksNext, Arrived

\* What is known of a copy stays true while the copies only move on.
LEMMA KeptNames ==
  ASSUME adapter' = adapter, Kept, NEW k \in Copies, copy[k].state # "none"
  PROVE  /\ VendorId(k)' = VendorId(k)
         /\ \A m, id : Names(k, m, id) => NamesNext(k, m, id)
         /\ \A state : Backs(k, state) => BacksNext(k, state)
         /\ \A p : Reports(p, k) => Reports(p, k)'
<1>1. VendorId(k)' = VendorId(k)
  BY DEF VendorId, Kept
<1>2. \A m, id : Names(k, m, id) => NamesNext(k, m, id)
  BY <1>1 DEF Names, NamesNext, Kept
<1>3. \A state : Backs(k, state) => Backs(k, state)'
  BY DEF Backs, Arrived, Kept
<1>3a. \A state : Backs(k, state) => BacksNext(k, state)
  BY DEF Backs, BacksNext, Arrived, Kept
<1>4. Arrived(k) => Arrived(k)'
  BY DEF Arrived, Kept
<1>5. \A p : Reports(p, k) => Reports(p, k)'
  BY <1>1, <1>3, <1>4 DEF Reports, Kept
<1>6. QED
  BY <1>1, <1>2, <1>3a, <1>5

\* Posted payloads stay true while the vendor goes on.
LEMMA NetKept ==
  ASSUME NetOK, adapter' = adapter, Kept, net' = net
  PROVE  NetOK'
<1>1. Posting' = Posting
  BY DEF Posting
<1>2. ASSUME NEW p \in net
      PROVE  (\E k \in Copies : Reports(p, k)') \/ Echoes(p)' \/ (\E i \in Heard : p = MessageOf(i)')
  <2>1. CASE \E k \in Copies : Reports(p, k)
    <3>1. PICK k \in Copies : Reports(p, k)
      BY <2>1
    <3>2. copy[k].state # "none"
      BY <3>1 DEF Reports
    <3>3. QED
      BY <3>1, <3>2, KeptNames
  <2>2. CASE Echoes(p)
    BY <2>2 DEF Echoes
  <2>3. CASE \E i \in Heard : p = MessageOf(i)
    BY <2>3 DEF MessageOf
  <2>4. QED
    BY <1>2, <2>1, <2>2, <2>3 DEF NetOK
<1>3. QED
  BY <1>1, <1>2 DEF NetOK

\* Rows do not depend on what is sent.
LEMMA StoreKept ==
  ASSUME StoredOK, RowsOK, NoneLost, UNCHANGED <<adapter, stored, seen>>
  PROVE  StoredOK' /\ RowsOK' /\ NoneLost'
BY DEF StoredOK, RowsOK, NoneLost, Posting, RowOf

\* A call of the adapter for m.
LEMMA CallingStep ==
  ASSUME TrafficInv, NEW m \in Msgs, NEW r, msg[m].state = "queued", Calling(m, r), adapter' = adapter,
         Kept, UNCHANGED <<net, stored, seen, told>>,
         copy' \in [Copies -> [of : Msgs \cup {"none"},
                               state : CopyStates]],
         used' \in [copies : 0..MaxCopies, posts : Nat, repeats : Nat], CopiesOK',
         Send(r, m).id # <<>> => \E k \in Copies : NamesNext(k, m, Send(r, m).id)
  PROVE  TrafficInv'
<1>0. /\ TrafficShape /\ CopiesOK /\ AnswersOK /\ MessagesBacked /\ NetOK
      /\ StoredOK /\ RowsOK /\ NoneLost /\ ToldOK /\ ReportsCount
  BY DEF TrafficInv
<1> DEFINE res == Send(r, m)
           c == [msg[m] EXCEPT !.state = "calling", !.tries = @ + 1, !.result = res]
<1>1. IsMsg(c) /\ c.state = "calling" /\ c.ext = msg[m].ext /\ c.result = res
  <2>1. IsMsg(msg[m])
    BY <1>0 DEF TrafficShape
  <2> HIDE DEF res
  <2>2. c.state = "calling" /\ c.ext = msg[m].ext /\ c.result = res /\ c.tries = msg[m].tries + 1
    BY <2>1 DEF IsMsg
  <2>3. c \in [state : {"calling"}, tries : {msg[m].tries + 1}, ext : {msg[m].ext}, result : {res}]
    BY <2>1 DEF IsMsg
  <2> HIDE DEF c
  <2>4. QED
    BY <2>2, <2>3 DEF IsMsg
<1>2. msg' = [msg EXCEPT ![m] = c]
  <2>1. msg' = [msg EXCEPT ![m].state = "calling", ![m].tries = @ + 1, ![m].result = res]
    BY DEF Calling
  <2>2. msg = [n \in Msgs |-> msg[n]] /\ IsMsg(msg[m])
    BY <1>0 DEF TrafficShape
  <2> HIDE DEF res
  <2>3. QED
    BY <2>1, <2>2 DEF IsMsg
<1> HIDE DEF c, res
<1>3. msg'[m] = c /\ (\A n \in Msgs : n # m => msg'[n] = msg[n]) /\ msg' = [n \in Msgs |-> msg'[n]]
  BY <1>0, <1>2 DEF TrafficShape
<1>4. msg[m].ext = <<>> /\ ~(told[m] > 0)
  BY <1>0 DEF MessagesBacked, ToldOK
<1>5. TrafficShape'
  BY <1>0, <1>1, <1>3 DEF TrafficShape
<1>6. AnswersOK'
  <2>1. ASSUME NEW n \in Msgs, msg'[n].state = "calling", msg'[n].result.accepted, msg'[n].result.id # <<>>
        PROVE  \E k \in Copies : NamesNext(k, n, msg'[n].result.id)
    <3>1. CASE n = m
      <4>1. msg'[n].result = res
        BY <1>1, <1>3, <3>1
      <4>2. QED
        BY <2>1, <3>1, <4>1 DEF res
    <3>2. CASE n # m
      <4>1. PICK k \in Copies : Names(k, n, msg[n].result.id)
        BY <1>0, <1>3, <2>1, <3>2 DEF AnswersOK
      <4>2. copy[k].state # "none" /\ msg'[n] = msg[n]
        BY <1>3, <3>2, <4>1 DEF Names
      <4>3. NamesNext(k, n, msg[n].result.id)
        BY <4>1, <4>2, KeptNames
      <4>4. QED
        BY <4>2, <4>3
    <3>3. QED
      BY <3>1, <3>2
  <2>2. QED
    BY <2>1, AnswersNext
<1>7. MessagesBacked'
  <2>1. ASSUME NEW n \in Msgs, msg'[n].ext # <<>>
        PROVE  /\ msg'[n].state \in {"sent", "delivered", "read", "failed"}
               /\ \E k \in Copies : NamesNext(k, n, msg'[n].ext) /\ BacksNext(k, msg'[n].state)
    <3>1. n # m /\ msg'[n] = msg[n]
      BY <1>1, <1>3, <1>4, <2>1
    <3>2. PICK k \in Copies : Names(k, n, msg[n].ext) /\ Backs(k, msg[n].state)
      BY <1>0, <2>1, <3>1 DEF MessagesBacked
    <3>3. copy[k].state # "none"
      BY <3>2 DEF Names
    <3>4. NamesNext(k, n, msg[n].ext) /\ BacksNext(k, msg[n].state)
      BY <3>2, <3>3, KeptNames
    <3>6. msg[n].state \in {"sent", "delivered", "read", "failed"}
      BY <1>0, <2>1, <3>1 DEF MessagesBacked
    <3>7. QED
      BY <3>1, <3>4, <3>6
  <2>2. QED
    BY <2>1, BackedNext
<1>8. NetOK'
  BY <1>0, NetKept
<1>9. StoredOK' /\ RowsOK' /\ NoneLost'
  BY <1>0, StoreKept
<1>10. ToldOK'
  BY <1>0, <1>1, <1>3, <1>4 DEF ToldOK
<1>11. ReportsCount'
  <2>1. told[m] \in Nat
    BY <1>0 DEF TrafficShape
  <2>2. Rank(msg'[m].state) >= told'[m]
    BY <1>1, <1>3, <1>4, <2>1, RankValues
  <2>3. QED
    BY <1>0, <1>3, <2>2 DEF ReportsCount
<1>12. QED
  BY <1>5, <1>6, <1>7, <1>8, <1>9, <1>10, <1>11 DEF TrafficInv

\* A refusal leaves no copy and carries no id.
LEMMA RefusesStep ==
  ASSUME TrafficInv, NEW m \in Msgs, VendorRefuses(m)
  PROVE  TrafficInv'
<1>1. PICK r \in Refusals : Calling(m, r)
  BY DEF VendorRefuses
<1>2. msg[m].state = "queued" /\ UNCHANGED <<adapter, copy, net, stored, seen, told, used>>
  BY DEF VendorRefuses
<1>3. Send(r, m).id = <<>>
  BY RefusalsHaveNone, SendIds DEF TrafficInv
<1>4. Kept
  BY <1>2 DEF Kept, Arrived
<1>5. CopiesOK' /\ copy' \in [Copies -> [of : Msgs \cup {"none"},
                               state : CopyStates]]
      /\ used' \in [copies : 0..MaxCopies, posts : Nat, repeats : Nat]
  BY <1>2 DEF TrafficInv, CopiesOK, TrafficShape
<1>6. QED
  BY <1>1, <1>2, <1>3, <1>4, <1>5, CallingStep

\* A message that the vendor takes is a new copy, named by the id of the answer.
LEMMA TakesStep ==
  ASSUME TrafficInv, NEW m \in Msgs, VendorTakes(m)
  PROVE  TrafficInv'
<1>0. TrafficShape /\ CopiesOK
  BY DEF TrafficInv
<1> DEFINE k == used.copies + 1
           c == [of |-> m, state |-> "waiting"]
<1>1. /\ msg[m].state = "queued" /\ UNCHANGED <<adapter, net, stored, seen, told>>
      /\ copy' = [copy EXCEPT ![k] = c] /\ used' = [used EXCEPT !.copies = k]
      /\ used.copies < MaxCopies
  BY DEF VendorTakes
<1>2. PICK r : r.id \in {<<>>, <<k>>} /\ Calling(m, r)
  <2>1. \A h, b, id : Answer(h, b, id).id = id
    BY DEF Answer
  <2>2. \/ Calling(m, Answer(200, "accept", <<k>>))
        \/ Calling(m, Answer(200, "accept", <<>>))
        \/ Calling(m, Answer(NoAnswer, "none", <<>>))
    BY DEF VendorTakes
  <2> HIDE DEF k
  <2>3. QED
    BY <2>1, <2>2
<1>3. used.copies \in Nat /\ k \in Copies /\ k \in 0..MaxCopies
  BY <1>0, <1>1, TrafficConstants DEF TrafficShape, Copies
<1>4. copy[k].state = "none"
  BY <1>0, <1>3 DEF CopiesOK
<1>5. /\ used' \in [copies : 0..MaxCopies, posts : Nat, repeats : Nat] /\ used'.copies = k
  <2> HIDE DEF k
  <2>1. QED
    BY <1>0, <1>1, <1>3 DEF TrafficShape
<1>6. c.of = m /\ c.state = "waiting" /\ copy'[k] = c /\ \A j \in Copies : j # k => copy'[j] = copy[j]
  BY <1>0, <1>1, <1>3 DEF TrafficShape
<1>7. copy' \in [Copies -> [of : Msgs \cup {"none"},
                            state : CopyStates]]
  BY <1>0, <1>1 DEF TrafficShape, CopyStates
<1> HIDE DEF c
<1>8. Kept
  BY <1>4, <1>6 DEF Kept, Arrived
<1>9. CopiesOK'
  <2>1. ASSUME NEW j \in Copies
        PROVE  /\ IF j > used'.copies THEN copy'[j].state = "none"
                  ELSE copy'[j].state # "none" /\ copy'[j].of \in Msgs
               /\ copy'[j].state = "answered" => adapter' = "goip-vendor"
    <3>1. j \in Nat
      BY TrafficConstants
    <3>2. CASE j = k
      BY <1>1, <1>3, <1>5, <1>6, <3>1, <3>2
    <3>3. CASE j # k
      BY <1>0, <1>1, <1>3, <1>5, <1>6, <3>1, <3>3 DEF CopiesOK
    <3>4. QED
      BY <3>2, <3>3
  <2>2. QED
    BY <2>1 DEF CopiesOK
<1>10. Send(r, m).id # <<>> => \E j \in Copies : NamesNext(j, m, Send(r, m).id)
  <2>1. SUFFICES ASSUME Send(r, m).id # <<>> PROVE \E j \in Copies : NamesNext(j, m, Send(r, m).id)
    OBVIOUS
  <2>2. PICK j \in Copies : j = k
    BY <1>3
  <2>3. copy'[j] = [of |-> m, state |-> "waiting"]
    BY <1>6, <2>2 DEF c
  <2>4. VendorId(j)' = IF adapter = "goip-vendor" THEN <<j, To[m]>> ELSE <<j>>
    BY <1>1, <2>3 DEF VendorId
  <2>5. r.id = <<j>> /\ Send(r, m).id = IF adapter = "goip-vendor" THEN Append(<<j>>, To[m]) ELSE <<j>>
    BY <1>0, <1>2, <2>1, <2>2, SendIds
  <2>6. Append(<<j>>, To[m]) = <<j, To[m]>>
    BY TaskAndNumber
  <2>7. VendorId(j)' = Send(r, m).id
    BY <2>4, <2>5, <2>6
  <2>8. QED
    BY <2>3, <2>7 DEF NamesNext
<1>11. QED
  BY <1>1, <1>2, <1>5, <1>7, <1>8, <1>9, <1>10, CallingStep

\* Only the copies move: what the messages rest on stays.
LEMMA CopiesMove ==
  ASSUME TrafficInv, Kept, UNCHANGED <<adapter, msg, stored, seen, told>>
  PROVE  AnswersOK' /\ MessagesBacked' /\ StoredOK' /\ RowsOK' /\ NoneLost' /\ ToldOK' /\ ReportsCount'
<1>0. /\ TrafficShape /\ CopiesOK /\ AnswersOK /\ MessagesBacked /\ NetOK
      /\ StoredOK /\ RowsOK /\ NoneLost /\ ToldOK /\ ReportsCount
  BY DEF TrafficInv
<1>1. \A n \in Msgs : msg'[n] = msg[n]
  OBVIOUS
<1>2. AnswersOK'
  <2>1. ASSUME NEW n \in Msgs, msg'[n].state = "calling", msg'[n].result.accepted, msg'[n].result.id # <<>>
        PROVE  \E k \in Copies : NamesNext(k, n, msg'[n].result.id)
    <3>1. PICK k \in Copies : Names(k, n, msg[n].result.id)
      BY <1>0, <1>1, <2>1 DEF AnswersOK
    <3>2. copy[k].state # "none"
      BY <3>1 DEF Names
    <3>3. NamesNext(k, n, msg[n].result.id)
      BY <3>1, <3>2, KeptNames
    <3>4. QED
      BY <1>1, <3>3
  <2>2. QED
    BY <2>1, AnswersNext
<1>3. MessagesBacked'
  <2>1. ASSUME NEW n \in Msgs, msg'[n].ext # <<>>
        PROVE  /\ msg'[n].state \in {"sent", "delivered", "read", "failed"}
               /\ \E k \in Copies : NamesNext(k, n, msg'[n].ext) /\ BacksNext(k, msg'[n].state)
    <3>1. PICK k \in Copies : Names(k, n, msg[n].ext) /\ Backs(k, msg[n].state)
      BY <1>0, <1>1, <2>1 DEF MessagesBacked
    <3>2. copy[k].state # "none"
      BY <3>1 DEF Names
    <3>3. NamesNext(k, n, msg[n].ext) /\ BacksNext(k, msg[n].state)
      BY <3>1, <3>2, KeptNames
    <3>4. msg[n].state \in {"sent", "delivered", "read", "failed"}
      BY <1>0, <1>1, <2>1 DEF MessagesBacked
    <3>5. QED
      BY <1>1, <3>3, <3>4
  <2>2. QED
    BY <2>1, BackedNext
<1>4. StoredOK' /\ RowsOK' /\ NoneLost'
  BY <1>0, StoreKept
<1>5. ToldOK' /\ ReportsCount'
  BY <1>0 DEF ToldOK, ReportsCount
<1>6. QED
  BY <1>2, <1>3, <1>4, <1>5

\* The vendor brings a copy further and never back.
LEMMA ProgressStep ==
  ASSUME TrafficInv, NEW k \in Copies, Progress(k)
  PROVE  TrafficInv'
<1>0. TrafficShape /\ CopiesOK /\ NetOK
  BY DEF TrafficInv
<1>1. copy[k].state \in {"waiting", "sent", "answered", "delivered"} /\ UNCHANGED <<adapter, msg, net, stored, seen, told, used>>
  BY DEF Progress, After
<1>2. PICK st \in After[copy[k].state] : /\ copy' = [copy EXCEPT ![k].state = st]
                                         /\ st = "answered" => adapter = "goip-vendor"
  BY DEF Progress
<1>3. /\ st \in {"sent", "answered", "delivered", "read", "failed"}
      /\ copy[k].state = "answered" => st = "delivered"
      /\ copy[k].state = "delivered" => st = "read"
  BY <1>1, <1>2 DEF After
<1>4. copy' \in [Copies -> [of : Msgs \cup {"none"},
                            state : CopyStates]]
  BY <1>0, <1>2, <1>3 DEF TrafficShape, CopyStates
<1>5. /\ copy'[k].of = copy[k].of /\ copy'[k].state = st
      /\ \A j \in Copies : j # k => copy'[j] = copy[j]
  BY <1>0, <1>2 DEF TrafficShape
<1>6. Kept
  BY <1>1, <1>3, <1>5 DEF Kept, Arrived
<1>7. CopiesOK'
  BY <1>0, <1>1, <1>2, <1>3, <1>5 DEF CopiesOK
<1>8. TrafficShape'
  BY <1>0, <1>1, <1>4 DEF TrafficShape
<1>9. NetOK'
  BY <1>0, <1>1, <1>6, NetKept
<1>10. QED
  BY <1>1, <1>6, <1>7, <1>8, <1>9, CopiesMove DEF TrafficInv

\* The send processor records the id of an answer that named a copy.
LEMMA RecordStep ==
  ASSUME TrafficInv, NEW m \in Msgs, RecordResult(m)
  PROVE  TrafficInv'
<1>0. /\ TrafficShape /\ CopiesOK /\ AnswersOK /\ MessagesBacked /\ NetOK
      /\ StoredOK /\ RowsOK /\ NoneLost /\ ToldOK /\ ReportsCount
  BY DEF TrafficInv
<1> DEFINE r == msg[m].result
           st == CASE r.accepted -> "sent"
                   [] ~r.accepted /\ r.retryable /\ msg[m].tries < MaxTries -> "queued"
                   [] OTHER -> "failed"
           ext == IF r.accepted THEN r.id ELSE msg[m].ext
           c == [msg[m] EXCEPT !.state = st, !.ext = ext, !.result = NoResult]
<1>1. msg[m].state = "calling" /\ UNCHANGED <<adapter, copy, net, stored, seen, told, used>>
  BY DEF RecordResult
<1>2. st \in {"sent", "queued", "failed"} /\ (r.accepted => st = "sent")
  OBVIOUS
<1>3. msg' = [msg EXCEPT ![m].state = st, ![m].ext = ext, ![m].result = NoResult]
  BY DEF RecordResult
<1>4. IsMsg(msg[m]) /\ msg = [n \in Msgs |-> msg[n]]
  BY <1>0 DEF TrafficShape
<1>5. msg[m].ext = <<>> /\ ~(told[m] > 0)
  BY <1>0, <1>1 DEF MessagesBacked, ToldOK
<1>6. ext # <<>> => r.accepted /\ r.id = ext
  BY <1>5
<1> HIDE DEF st, ext
<1>7. msg' = [msg EXCEPT ![m] = c]
  BY <1>3, <1>4 DEF IsMsg
<1>8. IsMsg(c) /\ c.state = st /\ c.ext = ext
  <2>1. c.state = st /\ c.ext = ext /\ c.result = NoResult /\ c.tries = msg[m].tries
    BY <1>4 DEF IsMsg
  <2>2. c \in [state : {st}, tries : {msg[m].tries}, ext : {ext}, result : {NoResult}]
    BY <1>4 DEF IsMsg
  <2> HIDE DEF c
  <2>3. QED
    BY <2>1, <2>2 DEF IsMsg
<1> HIDE DEF c
<1>9. msg'[m] = c /\ (\A n \in Msgs : n # m => msg'[n] = msg[n]) /\ msg' = [n \in Msgs |-> msg'[n]]
  BY <1>4, <1>7
<1>10. Kept
  BY <1>1 DEF Kept, Arrived
<1>11. TrafficShape'
  BY <1>0, <1>1, <1>2, <1>8, <1>9 DEF TrafficShape
<1>12. CopiesOK'
  BY <1>0, <1>1 DEF CopiesOK
<1>13. AnswersOK'
  <2>1. ASSUME NEW n \in Msgs, msg'[n].state = "calling", msg'[n].result.accepted, msg'[n].result.id # <<>>
        PROVE  \E k \in Copies : NamesNext(k, n, msg'[n].result.id)
    <3>1. n # m /\ msg'[n] = msg[n]
      BY <1>2, <1>8, <1>9, <2>1
    <3>2. PICK k \in Copies : Names(k, n, msg[n].result.id)
      BY <1>0, <2>1, <3>1 DEF AnswersOK
    <3>3. copy[k].state # "none"
      BY <3>2 DEF Names
    <3>4. NamesNext(k, n, msg[n].result.id)
      BY <1>1, <1>10, <3>2, <3>3, KeptNames
    <3>5. QED
      BY <3>1, <3>4
  <2>2. QED
    BY <2>1, AnswersNext
<1>14. MessagesBacked'
  <2>1. ASSUME NEW n \in Msgs, msg'[n].ext # <<>>
        PROVE  /\ msg'[n].state \in {"sent", "delivered", "read", "failed"}
               /\ \E k \in Copies : NamesNext(k, n, msg'[n].ext) /\ BacksNext(k, msg'[n].state)
    <3>1. CASE n = m
      <4>1. r.accepted /\ r.id = ext /\ ext # <<>> /\ msg'[n].ext = ext /\ msg'[n].state = "sent"
        BY <1>2, <1>6, <1>8, <1>9, <2>1, <3>1
      <4>2. PICK k \in Copies : Names(k, m, ext)
        BY <1>0, <1>1, <4>1 DEF AnswersOK
      <4>3. copy[k].state # "none"
        BY <4>2 DEF Names
      <4>4. NamesNext(k, m, ext)
        BY <1>1, <1>10, <4>2, <4>3, KeptNames
      <4>5. BacksNext(k, "sent")
        BY DEF BacksNext
      <4>6. QED
        BY <3>1, <4>1, <4>4, <4>5
    <3>2. CASE n # m
      <4>1. msg'[n] = msg[n]
        BY <1>9, <3>2
      <4>2. PICK k \in Copies : Names(k, n, msg[n].ext) /\ Backs(k, msg[n].state)
        BY <1>0, <2>1, <4>1 DEF MessagesBacked
      <4>3. copy[k].state # "none"
        BY <4>2 DEF Names
      <4>4. NamesNext(k, n, msg[n].ext) /\ BacksNext(k, msg[n].state)
        BY <1>1, <1>10, <4>2, <4>3, KeptNames
      <4>5. msg[n].state \in {"sent", "delivered", "read", "failed"}
        BY <1>0, <2>1, <4>1 DEF MessagesBacked
      <4>6. QED
        BY <4>1, <4>4, <4>5
    <3>3. QED
      BY <3>1, <3>2
  <2>2. QED
    BY <2>1, BackedNext
<1>15. NetOK'
  BY <1>0, <1>1, <1>10, NetKept
<1>16. StoredOK' /\ RowsOK' /\ NoneLost'
  BY <1>0, <1>1, StoreKept
<1>17. ToldOK'
  BY <1>0, <1>1, <1>5, <1>9 DEF ToldOK
<1>18. ReportsCount'
  <2>1. told[m] \in Nat
    BY <1>0 DEF TrafficShape
  <2>2. Rank(msg'[m].state) >= told'[m]
    BY <1>1, <1>2, <1>5, <1>8, <1>9, <2>1, RankValues
  <2>3. QED
    BY <1>0, <1>1, <1>9, <2>2 DEF ReportsCount
<1>19. QED
  BY <1>11, <1>12, <1>13, <1>14, <1>15, <1>16, <1>17, <1>18 DEF TrafficInv

\* A payload that is true may be posted.
LEMMA PostStep ==
  ASSUME TrafficInv, NEW p, Post(p),
         (\E k \in Copies : Reports(p, k)) \/ Echoes(p) \/ (\E i \in Heard : p = MessageOf(i))
  PROVE  TrafficInv'
<1>0. TrafficShape /\ CopiesOK /\ NetOK
  BY DEF TrafficInv
<1>1. /\ Posting /\ net' = net \cup {p} /\ used' = [used EXCEPT !.posts = @ + 1]
      /\ UNCHANGED <<adapter, msg, copy, stored, seen, told>>
  BY DEF Post
<1>2. used' \in [copies : 0..MaxCopies, posts : Nat, repeats : Nat] /\ used'.copies = used.copies
  BY <1>0, <1>1 DEF TrafficShape
<1>3. TrafficShape'
  BY <1>0, <1>1, <1>2 DEF TrafficShape
<1>4. CopiesOK'
  BY <1>0, <1>1, <1>2 DEF CopiesOK
<1>5. Kept
  BY <1>1 DEF Kept, Arrived
<1>6. NetOK'
  <2>1. /\ \A q : \A k \in Copies : Reports(q, k) => Reports(q, k)'
        /\ \A q : Echoes(q) => Echoes(q)'
        /\ \A i : MessageOf(i)' = MessageOf(i)
        /\ Posting' = Posting
    <3>1. ASSUME NEW q, NEW k \in Copies, Reports(q, k)
          PROVE  Reports(q, k)'
      <4>1. copy[k].state # "none"
        BY <3>1 DEF Reports
      <4>2. QED
        BY <1>1, <1>5, <3>1, <4>1, KeptNames
    <3>2. \A q : Echoes(q) => Echoes(q)'
      BY <1>1 DEF Echoes
    <3>3. \A i : MessageOf(i)' = MessageOf(i)
      BY <1>1, Zenon DEF MessageOf
    <3>4. Posting' = Posting
      BY <1>1 DEF Posting
    <3>5. QED
      BY <3>1, <3>2, <3>3, <3>4
  <2>2. \A q \in net' : (\E k \in Copies : Reports(q, k)) \/ Echoes(q) \/ (\E i \in Heard : q = MessageOf(i))
    BY <1>0, <1>1 DEF NetOK
  <2>3. ASSUME NEW q \in net'
        PROVE  (\E k \in Copies : Reports(q, k)') \/ Echoes(q)' \/ (\E i \in Heard : q = MessageOf(i)')
    BY <2>1, <2>2
  <2>4. QED
    BY <1>1, <2>1, <2>3 DEF NetOK
<1>7. QED
  BY <1>1, <1>3, <1>4, <1>5, <1>6, CopiesMove DEF TrafficInv

\* Whatever is posted is true when it is posted.
LEMMA PostsStep ==
  ASSUME TrafficInv
  PROVE  /\ \A k \in Copies : PostReport(k) \/ PostEcho(k) => TrafficInv'
         /\ \A i \in Heard : PostMessage(i) => TrafficInv'
<1>0. TrafficShape /\ CopiesOK
  BY DEF TrafficInv
<1>1. ASSUME NEW k \in Copies, PostReport(k) PROVE TrafficInv'
  <2>1. copy[k].state # "none" /\ Post(ReportOf(k)) /\ Posting
    BY <1>1 DEF PostReport, Post
  <2>2. Reports(ReportOf(k), k)
    BY <1>0, <2>1, ReportFields
  <2>3. QED
    BY <2>1, <2>2, PostStep
<1>2. ASSUME NEW k \in Copies, PostEcho(k) PROVE TrafficInv'
  <2>1. copy[k].state # "none" /\ Post(EchoOf(k)) /\ adapter = "gwmd"
    BY <1>2 DEF PostEcho
  <2>2. copy[k].of \in Msgs
    BY <1>0, <2>1 DEF CopiesOK
  <2>3. Echoes(EchoOf(k))
    <3> DEFINE q == EchoOf(k)
    <3>1. q.own = TRUE /\ q.event = "message" /\ q.about = copy[k].of
      BY DEF EchoOf, Payload
    <3> HIDE DEF q
    <3>2. QED
      BY <2>1, <2>2, <3>1 DEF Echoes, q
  <2>4. QED
    BY <2>1, <2>3, PostStep
<1>3. ASSUME NEW i \in Heard, PostMessage(i) PROVE TrafficInv'
  BY <1>3, PostStep DEF PostMessage
<1>4. QED
  BY <1>1, <1>2, <1>3

-----------------------------------------------------------------------------
(* ingest.                                                                   *)

\* Ranks are small numbers.
LEMMA RankNat ==
  ASSUME NEW st
  PROVE  Rank(st) \in {0, 1, 2, 4, 5, 6} /\ Due(st) \in {0, 4, 5, 6} /\ Due(st) \in Nat
<1>1. Rank(st) \in {0, 1, 2, 4, 5, 6}
  BY DEF Rank
<1>2. Due(st) \in {0, 4, 5, 6}
  BY RankValues DEF Due
<1>3. QED
  BY <1>1, <1>2

\* What a report is read as: about the copy it names, backed by it, and no message.
LEMMA ReportMeaning ==
  ASSUME TrafficShape, Posting, NEW k \in Copies, NEW p, Reports(p, k)
  PROVE  /\ \A now : NormalizeInbound(p, now) = {}
         /\ \A r \in NormalizeStatus(p) :
              /\ r.id = VendorId(k) /\ r.status \in {"sent", "delivered", "read", "failed"} /\ Backs(k, r.status)
              /\ r.status = "failed" => p.status = "failed"
              /\ p.status = "failed" \/ Rank(r.status) >= Due(ReportedState(p))
              /\ (adapter # "signal-cli-rest-api" /\ p.status \notin {"pending", "unsend"}) \/ r.status = "sent"
         /\ NormalizeStatus(p) = {} => adapter = "signal-cli-rest-api" \/ p.status \in {"pending", "unsend"}
<1>1. CASE adapter = "gwmd"
  <2> DEFINE w == GwmdStatusWords[p.status]
  <2>1. /\ p.event = "message_status" /\ p.status \in {"pending", "sent", "delivered", "read", "failed"}
        /\ Backs(k, p.status) /\ p.id = VendorId(k) /\ p.content = FALSE
    BY <1>1 DEF Reports
  <2>2. /\ GwmdStatusWords["pending"] = "sent" /\ GwmdStatusWords["sent"] = "sent"
        /\ GwmdStatusWords["delivered"] = "delivered" /\ GwmdStatusWords["read"] = "read"
        /\ GwmdStatusWords["failed"] = "failed"
        /\ {"pending", "sent", "delivered", "read", "failed"} \subseteq DOMAIN GwmdStatusWords
    BY DEF GwmdStatusWords
  <2>3. w = IF p.status = "pending" THEN "sent" ELSE p.status
    BY <2>1, <2>2
  <2>4. NormalizeStatus(p) = GwmdStatus(p)
    BY <1>1 DEF NormalizeStatus
  <2> HIDE DEF w
  <2>5. NormalizeStatus(p) = {[id |-> p.id, status |-> w]}
    BY <2>1, <2>2, <2>4 DEF GwmdStatus, Report, w
  <2>6. \A now : NormalizeInbound(p, now) = {}
    BY <1>1, <2>1 DEF NormalizeInbound, GwmdInbound
  <2>7. w \in {"sent", "delivered", "read", "failed"} /\ Backs(k, w)
    BY <2>1, <2>3 DEF Backs
  <2>8. p.status = "failed" \/ Rank(w) >= Due(ReportedState(p))
    BY <1>1, <2>1, <2>3, RankValues DEF Due, ReportedState
  <2>9. NormalizeStatus(p) # {} /\ \A r \in NormalizeStatus(p) : r.id = p.id /\ r.status = w
    BY <2>5
  <2>10. QED
    BY <1>1, <2>1, <2>3, <2>6, <2>7, <2>8, <2>9
<1>2. CASE adapter = "goip-vendor"
  <2> DEFINE w == IF p.receipt THEN "delivered" ELSE "sent"
  <2>1. /\ p.status \in {"unsend", "succeeded", "failed"} /\ (p.status = "failed" => copy[k].state = "failed")
        /\ (p.receipt => Arrived(k)) /\ p.id = VendorId(k) /\ p.content = FALSE
    BY <1>2 DEF Reports
  <2>2. NormalizeStatus(p) = GoipStatus(p)
    BY <1>2 DEF NormalizeStatus
  <2>3. \A now : NormalizeInbound(p, now) = {}
    BY <1>2, <2>1 DEF NormalizeInbound, GoipInbound
  <2>4. ReportedState(p) = w
    BY <1>2 DEF ReportedState
  <2>5. w \in {"sent", "delivered"} /\ Backs(k, w)
    BY <2>1 DEF Backs
  <2> HIDE DEF w
  <2>6. CASE p.status = "unsend"
    <3>1. NormalizeStatus(p) = {}
      BY <2>2, <2>6 DEF GoipStatus
    <3>2. QED
      BY <2>3, <2>6, <3>1
  <2>7. CASE p.status = "failed"
    <3>1. NormalizeStatus(p) = {[id |-> p.id, status |-> "failed"]}
      BY <2>2, <2>7 DEF GoipStatus, Report
    <3>2. Backs(k, "failed")
      BY <2>1, <2>7 DEF Backs
    <3>3. NormalizeStatus(p) # {} /\ \A r \in NormalizeStatus(p) : r.id = p.id /\ r.status = "failed"
      BY <3>1
    <3>4. QED
      BY <1>2, <2>1, <2>3, <2>7, <3>2, <3>3
  <2>8. CASE p.status = "succeeded"
    <3>1. NormalizeStatus(p) = {[id |-> p.id, status |-> w]}
      BY <2>2, <2>8 DEF GoipStatus, Report, w
    <3>2. Rank(w) >= Due(w)
      BY <2>5, RankValues DEF Due
    <3>3. NormalizeStatus(p) # {} /\ \A r \in NormalizeStatus(p) : r.id = p.id /\ r.status = w
      BY <3>1
    <3>4. QED
      BY <1>2, <2>1, <2>3, <2>4, <2>5, <2>8, <3>2, <3>3
  <2>9. QED
    BY <2>1, <2>6, <2>7, <2>8
<1>3. CASE adapter = "signal-cli-rest-api"
  <2>1. p.event = "receiptMessage" /\ p.outside = FALSE
    BY <1>3 DEF Reports
  <2>2. NormalizeStatus(p) = SignalStatus(p)
    BY <1>3 DEF NormalizeStatus
  <2>3. SignalStatus(p) = {}
    BY <2>1 DEF SignalStatus
  <2>4. \A now : NormalizeInbound(p, now) = {}
    BY <1>3, <2>1 DEF NormalizeInbound, SignalInbound
  <2>5. QED
    BY <1>3, <2>2, <2>3, <2>4
<1>4. QED
  BY <1>1, <1>2, <1>3 DEF Posting

\* An echo is read as nothing.
LEMMA EchoMeaning ==
  ASSUME NEW p, Echoes(p)
  PROVE  NormalizeStatus(p) = {} /\ \A now : NormalizeInbound(p, now) = {}
<1>1. adapter = "gwmd" /\ p.own = TRUE /\ p.event = "message"
  BY DEF Echoes
<1>2. NormalizeStatus(p) = {}
  BY <1>1 DEF NormalizeStatus, GwmdStatus
<1>3. \A now : NormalizeInbound(p, now) = {}
  BY <1>1 DEF NormalizeInbound, GwmdInbound
<1>4. QED
  BY <1>2, <1>3

\* A message is never read as a report; unless WhatsApp shows it as our own, it becomes its row.
LEMMA MessageMeaning ==
  ASSUME Posting, NEW i \in Heard, NEW now
  PROVE  LET p == MessageOf(i)
         IN  /\ NormalizeStatus(p) = {}
             /\ p.about = i /\ (adapter # "gwmd" => p.own = FALSE)
             /\ \A x \in NormalizeInbound(p, now) : RowOf(x, i)
             /\ NormalizeInbound(p, now) = {} => adapter = "gwmd" /\ p.own
<1> DEFINE p == MessageOf(i)
<1>0. /\ p.id = <<i>> /\ p.about = i /\ p.content = TRUE /\ p.outside = FALSE /\ p.status = "none"
      /\ adapter = "gwmd" => p.event = "message" /\ p.own = Said[i].own
      /\ adapter = "goip-vendor" => p.event = "none" /\ p.own = FALSE /\ p.from = Said[i].from
                                    /\ p.stamp = Said[i].stamp /\ p.text = Said[i].text
      /\ adapter = "signal-cli-rest-api" =>
           p.event = (IF Said[i].own THEN "sentMessage" ELSE "dataMessage") /\ p.own = FALSE
  BY MessageFields
<1> HIDE DEF p
<1>1. CASE adapter = "gwmd"
  <2>1. NormalizeStatus(p) = {}
    BY <1>0, <1>1 DEF NormalizeStatus, GwmdStatus
  <2>2. NormalizeInbound(p, now) = IF p.own THEN {} ELSE {[id |-> <<i>>, direction |-> "inbound", about |-> i]}
    BY <1>0, <1>1 DEF NormalizeInbound, GwmdInbound, Incoming
  <2>3. \A x \in NormalizeInbound(p, now) : RowOf(x, i)
    BY <1>1, <2>2 DEF RowOf
  <2>4. QED
    BY <1>0, <1>1, <2>1, <2>2, <2>3 DEF p
<1>2. CASE adapter = "goip-vendor"
  <2>1. NormalizeStatus(p) = {}
    BY <1>0, <1>2 DEF NormalizeStatus, GoipStatus
  <2> DEFINE s == IF p.stamp = 0 THEN now ELSE p.stamp
             x == [id |-> <<p.from, s, p.text>>, direction |-> "inbound", about |-> p.about]
  <2>2. NormalizeInbound(p, now) = {x}
    BY <1>0, <1>2 DEF NormalizeInbound, GoipInbound, Incoming
  <2>3. Said[i].stamp # 0 => s = Said[i].stamp
    BY <1>0, <1>2
  <2> HIDE DEF s
  <2>4. RowOf(x, i)
    BY <1>0, <1>2, <2>3 DEF RowOf
  <2> HIDE DEF x
  <2>5. QED
    BY <1>0, <1>2, <2>1, <2>2, <2>4 DEF p
<1>3. CASE adapter = "signal-cli-rest-api"
  <2>1. NormalizeStatus(p) = {}
    BY <1>0, <1>3 DEF NormalizeStatus, SignalStatus
  <2> DEFINE d == IF Said[i].own THEN "outbound" ELSE "inbound"
             x == [id |-> <<i>>, direction |-> d, about |-> i]
  <2>2. NormalizeInbound(p, now) = SignalInbound(p)
    BY <1>3 DEF NormalizeInbound
  <2>3. SignalInbound(p) = {x}
    BY <1>0, <1>3 DEF SignalInbound, Incoming
  <2> HIDE DEF d
  <2>4. RowOf(x, i)
    BY <1>3 DEF RowOf, d
  <2> HIDE DEF x
  <2>5. QED
    BY <1>0, <1>3, <2>1, <2>2, <2>3, <2>4 DEF p
<1>4. QED
  BY <1>1, <1>2, <1>3 DEF Posting

\* The id of a row tells which message it is of, and is no id of a copy.
LEMMA RowIds ==
  ASSUME Posting, NEW i \in Heard, NEW r, RowOf(r, i)
  PROVE  /\ r.about = i
         /\ \A q : \A j \in Heard : RowOf(q, j) /\ q.id = r.id => j = i
         /\ \A k \in Copies : VendorId(k) # r.id
<1>0. r.about = i
  BY DEF RowOf
<1>1. ASSUME NEW j \in Heard, NEW q, RowOf(q, j), q.id = r.id PROVE j = i
  <2>1. CASE adapter = "goip-vendor"
    <3>1. /\ r.id = <<Said[i].from, r.id[2], Said[i].text>> /\ (Said[i].stamp # 0 => r.id[2] = Said[i].stamp)
          /\ q.id = <<Said[j].from, q.id[2], Said[j].text>> /\ (Said[j].stamp # 0 => q.id[2] = Said[j].stamp)
      BY <1>1, <2>1 DEF RowOf
    <3>2. Said[i].from = Said[j].from /\ Said[i].text = Said[j].text /\ q.id[2] = r.id[2]
      BY <1>1, <3>1
    <3>3. SUFFICES ASSUME i # j PROVE FALSE
      OBVIOUS
    <3>4. Said[i].stamp # Said[j].stamp /\ Said[i].stamp # 0 /\ Said[j].stamp # 0
      BY <3>2, <3>3, TrafficAssumption
    <3>5. QED
      BY <3>1, <3>2, <3>4
  <2>2. CASE adapter # "goip-vendor"
    <3>1. r.id = <<i>> /\ q.id = <<j>>
      BY <1>1, <2>2 DEF RowOf, Posting
    <3>2. QED
      BY <1>1, <3>1
  <2>3. QED
    BY <2>1, <2>2
<1>2. ASSUME NEW k \in Copies PROVE VendorId(k) # r.id
  <2>1. CASE adapter = "goip-vendor"
    <3>1. r.id = <<Said[i].from, r.id[2], Said[i].text>> /\ VendorId(k) = <<k, To[copy[k].of]>>
      BY <2>1 DEF RowOf, VendorId
    <3>2. \A a, b, c, d, e : <<a, b>> # <<c, d, e>>
      OBVIOUS
    <3>3. QED
      BY <3>1, <3>2
  <2>2. CASE adapter # "goip-vendor"
    <3>1. r.id = <<i>> /\ VendorId(k) = <<k>>
      BY <2>2 DEF RowOf, VendorId, Posting
    <3>2. i # k
      BY TrafficConstants
    <3>3. QED
      BY <3>1, <3>2
  <2>3. QED
    BY <2>1, <2>2
<1>3. QED
  BY <1>0, <1>1, <1>2

\* What applyStatus does about copy k: at most the message known by it moves.
LEMMA ApplyMeaning ==
  ASSUME TrafficInv, NEW k \in Copies, copy[k].state # "none", NEW r, r.id = VendorId(k),
         r.status \in {"sent", "delivered", "read", "failed"}, ApplyStatus(r)
  PROVE  /\ msg' = [n \in Msgs |-> msg'[n]]
         /\ \A n \in Msgs : IsMsg(msg'[n]) /\ msg'[n].ext = msg[n].ext /\ msg'[n].result = msg[n].result
         /\ \A n \in Msgs : n # copy[k].of \/ msg[n].ext # VendorId(k) => msg'[n] = msg[n]
         /\ \A n \in Msgs : msg[n].ext = VendorId(k) =>
              msg'[n].state = IF r.status = "failed" \/ Rank(r.status) > Rank(msg[n].state)
                              THEN r.status ELSE msg[n].state
<1>0. TrafficShape /\ CopiesOK /\ MessagesBacked
  BY DEF TrafficInv
<1> DEFINE named == {m \in Msgs : msg[m].ext = r.id}
           moved == {m \in named : r.status = "failed" \/ Rank(r.status) > Rank(msg[m].state)}
<1>1. \A n \in Msgs : msg[n].ext = VendorId(k) => n = copy[k].of
  <2>1. SUFFICES ASSUME NEW n \in Msgs, msg[n].ext = VendorId(k) PROVE n = copy[k].of
    OBVIOUS
  <2>2. msg[n].ext # <<>>
    BY <2>1, VendorIds
  <2>3. PICK j \in Copies : Names(j, n, msg[n].ext)
    BY <1>0, <2>2 DEF MessagesBacked
  <2>4. j = k
    BY <2>1, <2>3, VendorIds DEF Names
  <2>5. QED
    BY <2>3, <2>4 DEF Names
<1>2. \A n \in Msgs : IsMsg(msg[n])
  BY <1>0 DEF TrafficShape
<1>3. msg = [n \in Msgs |-> msg[n]]
  BY <1>0 DEF TrafficShape
<1>4. CASE moved = {}
  <2>1. msg' = msg
    BY <1>4 DEF ApplyStatus
  <2>2. \A n \in Msgs : msg[n].ext = VendorId(k) => ~(r.status = "failed" \/ Rank(r.status) > Rank(msg[n].state))
    BY <1>4
  <2>3. QED
    BY <1>2, <1>3, <2>1, <2>2
<1>5. CASE moved # {}
  <2>1. PICK m : m = CHOOSE x \in moved : TRUE
    OBVIOUS
  <2>2. m \in moved
    BY <1>5, <2>1
  <2>3. msg' = [msg EXCEPT ![m].state = r.status]
    BY <1>5, <2>1 DEF ApplyStatus
  <2>4. m \in Msgs /\ msg[m].ext = VendorId(k) /\ (r.status = "failed" \/ Rank(r.status) > Rank(msg[m].state))
    BY <2>2
  <2>5. m = copy[k].of
    BY <1>1, <2>4
  <2> DEFINE c == [msg[m] EXCEPT !.state = r.status]
             st == r.status
  <2>6. IsMsg(c) /\ c.state = r.status /\ c.ext = msg[m].ext /\ c.result = msg[m].result
    <3> HIDE DEF st
    <3>1. c.state = st /\ c.ext = msg[m].ext /\ c.result = msg[m].result /\ c.tries = msg[m].tries
      BY <1>2, <2>4 DEF IsMsg, st
    <3>2. c \in [state : {st}, tries : {msg[m].tries}, ext : {msg[m].ext}, result : {msg[m].result}]
      BY <1>2, <2>4 DEF IsMsg, st
    <3> HIDE DEF c
    <3>3. QED
      BY <3>1, <3>2 DEF IsMsg, st
  <2>7. msg' = [msg EXCEPT ![m] = c]
    BY <1>3, <2>3, <2>4
  <2> HIDE DEF c, st
  <2>8. msg'[m] = c /\ (\A n \in Msgs : n # m => msg'[n] = msg[n]) /\ msg' = [n \in Msgs |-> msg'[n]]
    BY <1>3, <2>4, <2>7
  <2>9. \A n \in Msgs : msg[n].ext = VendorId(k) => n = m
    BY <1>1, <2>5
  <2> HIDE DEF moved, named
  <2>10. \A n \in Msgs : IsMsg(msg'[n]) /\ msg'[n].ext = msg[n].ext /\ msg'[n].result = msg[n].result
    BY <1>2, <2>6, <2>8
  <2>11. \A n \in Msgs : n # copy[k].of \/ msg[n].ext # VendorId(k) => msg'[n] = msg[n]
    BY <2>4, <2>5, <2>8
  <2>12. \A n \in Msgs : msg[n].ext = VendorId(k) =>
           msg'[n].state = IF r.status = "failed" \/ Rank(r.status) > Rank(msg[n].state)
                           THEN r.status ELSE msg[n].state
    BY <2>4, <2>6, <2>8, <2>9
  <2>13. QED
    BY <2>8, <2>10, <2>11, <2>12
<1>6. QED
  BY <1>4, <1>5

\* What a report leaves as told, when it leaves anything.
LEMMA ToldMeaning ==
  ASSUME TrafficInv, NEW k \in Copies, NEW p, Reports(p, k)
  PROVE  \/ NowTold(p) = told /\ ~(copy[k].of \in Msgs /\ msg[copy[k].of].ext = VendorId(k)
                                   /\ adapter # "signal-cli-rest-api" /\ p.status \notin {"pending", "unsend"})
         \/ /\ copy[k].of \in Msgs /\ msg[copy[k].of].ext = VendorId(k)
            /\ adapter # "signal-cli-rest-api" /\ p.status \notin {"pending", "unsend"}
            /\ NowTold(p) = [told EXCEPT ![copy[k].of] =
                               IF p.status = "failed" THEN 0
                               ELSE IF Due(ReportedState(p)) > @ THEN Due(ReportedState(p)) ELSE @]
<1>0. TrafficShape /\ MessagesBacked
  BY DEF TrafficInv
<1>1. copy[k].state # "none" /\ p.id = VendorId(k) /\ p.about = copy[k].of /\ p.own = FALSE
  BY DEF Reports
<1> DEFINE m == CHOOSE x \in Msgs : x = p.about
           known == \E j \in Copies : copy[j].of = m /\ VendorId(j) = p.id /\ msg[m].ext[1] = p.id[1]
           heard == p.about \in Msgs /\ ~p.own /\ msg[m].ext # <<>> /\ adapter # "signal-cli-rest-api"
                    /\ p.status \notin {"pending", "unsend"} /\ known
           after == [told EXCEPT ![m] = IF p.status = "failed" THEN 0
                                        ELSE IF Due(ReportedState(p)) > @ THEN Due(ReportedState(p)) ELSE @]
<1>2. NowTold(p) = IF heard THEN after ELSE told
  BY Zenon DEF NowTold
<1>3. copy[k].of \in Msgs => m = copy[k].of
  BY <1>1
<1>4. p.id[1] = k
  BY <1>1, VendorIds
<1>5. copy[k].of \in Msgs /\ msg[copy[k].of].ext # <<>> =>
        (known <=> msg[copy[k].of].ext = VendorId(k))
  <2>1. SUFFICES ASSUME copy[k].of \in Msgs, msg[copy[k].of].ext # <<>>
                 PROVE  known <=> msg[copy[k].of].ext = VendorId(k)
    OBVIOUS
  <2>2. m = copy[k].of
    BY <1>3, <2>1
  <2> HIDE DEF m
  <2>3. PICK j \in Copies : Names(j, m, msg[m].ext)
    BY <1>0, <2>1, <2>2 DEF MessagesBacked
  <2>4. VendorId(j) = msg[m].ext /\ msg[m].ext[1] = j
    BY <2>3, VendorIds DEF Names
  <2>5. known => msg[m].ext = VendorId(k)
    BY <1>4, <2>4
  <2>6. msg[m].ext = VendorId(k) => known
    BY <1>1, <2>2
  <2>7. QED
    BY <2>2, <2>5, <2>6
<1> HIDE DEF known
<1>6. CASE heard
  <2>1. copy[k].of \in Msgs /\ m = copy[k].of
    BY <1>1, <1>3, <1>6
  <2>2. msg[copy[k].of].ext = VendorId(k)
    BY <1>5, <1>6, <2>1
  <2>3. NowTold(p) = after
    BY <1>2, <1>6
  <2> HIDE DEF m
  <2>4. QED
    BY <1>6, <2>1, <2>2, <2>3
<1>7. CASE ~heard
  <2>1. NowTold(p) = told
    BY <1>2, <1>7
  <2>2. ~(copy[k].of \in Msgs /\ msg[copy[k].of].ext = VendorId(k)
          /\ adapter # "signal-cli-rest-api" /\ p.status \notin {"pending", "unsend"})
    <3>1. SUFFICES ASSUME copy[k].of \in Msgs, msg[copy[k].of].ext = VendorId(k),
                          adapter # "signal-cli-rest-api", p.status \notin {"pending", "unsend"}
                   PROVE  FALSE
      OBVIOUS
    <3>2. msg[copy[k].of].ext # <<>>
      BY <3>1, VendorIds
    <3>3. known /\ m = copy[k].of
      BY <1>3, <1>5, <3>1, <3>2
    <3> HIDE DEF m
    <3>4. QED
      BY <1>1, <1>7, <3>1, <3>2, <3>3
  <2>3. QED
    BY <2>1, <2>2
<1>8. QED
  BY <1>6, <1>7

\* What an ingestion leaves alone, and what is left on its way.
LEMMA IngestFrame ==
  ASSUME TrafficInv, NEW p, Ingest(p)
  PROVE  /\ p \in net /\ Posting /\ UNCHANGED <<adapter, copy>> /\ Kept
         /\ used' \in [copies : 0..MaxCopies, posts : Nat, repeats : Nat]
         /\ CopiesOK' /\ NetOK' /\ (StoredOK')
<1>0. TrafficShape /\ CopiesOK /\ NetOK
  BY DEF TrafficInv
<1>1. p \in net /\ UNCHANGED <<adapter, copy>> /\ net' \subseteq net
  BY DEF Ingest
<1>2. Posting /\ Posting'
  BY <1>0, <1>1 DEF NetOK, Posting
<1>3. used' \in [copies : 0..MaxCopies, posts : Nat, repeats : Nat] /\ used'.copies = used.copies
  BY <1>0 DEF Ingest, TrafficShape
<1>4. Kept
  BY <1>1 DEF Kept, Arrived
<1>5. CopiesOK'
  BY <1>0, <1>1, <1>3 DEF CopiesOK
<1>6. NetOK'
  <2>1. ASSUME NEW q \in net'
        PROVE  (\E k \in Copies : Reports(q, k)') \/ Echoes(q)' \/ (\E i \in Heard : q = MessageOf(i)')
    <3>1. (\E k \in Copies : Reports(q, k)) \/ Echoes(q) \/ (\E i \in Heard : q = MessageOf(i))
      BY <1>0, <1>1, <2>1 DEF NetOK
    <3>2. CASE \E k \in Copies : Reports(q, k)
      <4>1. PICK k \in Copies : Reports(q, k)
        BY <3>2
      <4>2. copy[k].state # "none"
        BY <4>1 DEF Reports
      <4>3. QED
        BY <1>1, <1>4, <4>1, <4>2, KeptNames
    <3>3. CASE Echoes(q)
      BY <1>1, <3>3 DEF Echoes
    <3>4. CASE \E i \in Heard : q = MessageOf(i)
      <4>1. \A i : MessageOf(i)' = MessageOf(i)
        BY <1>1, Zenon DEF MessageOf
      <4>2. QED
        BY <3>4, <4>1
    <3>5. QED
      BY <3>1, <3>2, <3>3, <3>4
  <2>2. QED
    BY <1>2, <2>1 DEF NetOK
<1>7. StoredOK'
  BY <1>2 DEF StoredOK
<1>8. QED
  BY <1>1, <1>2, <1>3, <1>4, <1>5, <1>6, <1>7

\* A report moves at most the message it names.
LEMMA IngestReport ==
  ASSUME TrafficInv, NEW p, Ingest(p), NEW k \in Copies, Reports(p, k)
  PROVE  TrafficInv'
<1>0. /\ TrafficShape /\ CopiesOK /\ AnswersOK /\ MessagesBacked /\ NetOK
      /\ StoredOK /\ RowsOK /\ NoneLost /\ ToldOK /\ ReportsCount
  BY DEF TrafficInv
<1>1. /\ Posting /\ UNCHANGED <<adapter, copy>> /\ Kept
      /\ used' \in [copies : 0..MaxCopies, posts : Nat, repeats : Nat]
      /\ CopiesOK' /\ NetOK' /\ StoredOK'
  BY IngestFrame
<1> DEFINE m == copy[k].of
           known == m \in Msgs /\ msg[m].ext = VendorId(k)
           says == adapter # "signal-cli-rest-api" /\ p.status \notin {"pending", "unsend"}
<1>2. /\ copy[k].state # "none" /\ p.about = m
      /\ m \in Msgs \cup {"none"}
  BY <1>0 DEF Reports, TrafficShape
<1>3. m \in Msgs
  BY <1>0, <1>2 DEF CopiesOK
<1>4. /\ \A now : NormalizeInbound(p, now) = {}
      /\ \A r \in NormalizeStatus(p) :
           /\ r.id = VendorId(k) /\ r.status \in {"sent", "delivered", "read", "failed"} /\ Backs(k, r.status)
           /\ r.status = "failed" => p.status = "failed"
           /\ p.status = "failed" \/ Rank(r.status) >= Due(ReportedState(p))
           /\ (adapter # "signal-cli-rest-api" /\ p.status \notin {"pending", "unsend"}) \/ r.status = "sent"
      /\ NormalizeStatus(p) = {} => adapter = "signal-cli-rest-api" \/ p.status \in {"pending", "unsend"}
  BY <1>0, <1>1, ReportMeaning
<1>5. stored' = stored
  BY <1>4 DEF Ingest
<1>6. seen' = seen
  BY <1>2, <1>3, TrafficConstants DEF Ingest
<1>7. RowsOK' /\ NoneLost'
  BY <1>0, <1>1, <1>5, <1>6, StoreKept
<1>8. \/ NowTold(p) = told /\ ~(known /\ says)
      \/ /\ known /\ says
         /\ NowTold(p) = [told EXCEPT ![m] = IF p.status = "failed" THEN 0
                                             ELSE IF Due(ReportedState(p)) > @ THEN Due(ReportedState(p)) ELSE @]
  BY ToldMeaning
<1>9. told' = NowTold(p)
  BY DEF Ingest
<1>10. \A n \in Msgs : told[n] \in Nat
  BY <1>0 DEF TrafficShape
<1>11. Due(ReportedState(p)) \in Nat
  BY RankNat
\* What was told after the step.
<1> DEFINE d == Due(ReportedState(p))
<1>12. /\ told' \in [Msgs -> Nat]
       /\ \A n \in Msgs : n # m => told'[n] = told[n]
       /\ ~(known /\ says) => told' = told
       /\ known /\ says => told'[m] = IF p.status = "failed" THEN 0 ELSE IF d > told[m] THEN d ELSE told[m]
  <2>1. told \in [Msgs -> Nat]
    BY <1>0 DEF TrafficShape
  <2> HIDE DEF known, says, m
  <2>2. CASE NowTold(p) = told /\ ~(known /\ says)
    BY <1>9, <2>1, <2>2
  <2>3. CASE /\ known /\ says
             /\ NowTold(p) = [told EXCEPT ![m] = IF p.status = "failed" THEN 0
                                                 ELSE IF Due(ReportedState(p)) > @ THEN Due(ReportedState(p)) ELSE @]
    BY <1>3, <1>9, <1>10, <1>11, <2>1, <2>3
  <2>4. QED
    BY <1>8, <2>2, <2>3
<1> HIDE DEF d
\* Either nothing was read and nothing moves, or the report is applied.
<1>13. \/ NormalizeStatus(p) = {} /\ msg' = msg
       \/ \E r \in NormalizeStatus(p) : ApplyStatus(r)
  BY DEF Ingest
<1>14. /\ msg' = [n \in Msgs |-> msg'[n]]
       /\ \A n \in Msgs : IsMsg(msg'[n]) /\ msg'[n].ext = msg[n].ext /\ msg'[n].result = msg[n].result
       /\ \A n \in Msgs : ~(n = m /\ known) => msg'[n].state = msg[n].state
       /\ \A n \in Msgs : \/ msg'[n].state = msg[n].state
                          \/ /\ n = m /\ known /\ Backs(k, msg'[n].state)
                             /\ msg'[n].state \in {"sent", "delivered", "read", "failed"}
       /\ known /\ ~(says /\ p.status = "failed") => Rank(msg'[m].state) >= Rank(msg[m].state)
       /\ known /\ says /\ p.status # "failed" => Rank(msg'[m].state) >= d
  <2>0. \A st : Rank(st) \in Nat
    BY RankNat
  <2>1. CASE NormalizeStatus(p) = {} /\ msg' = msg
    <3>1. ~says
      BY <1>4, <2>1
    <3>2. msg = [n \in Msgs |-> msg[n]] /\ \A n \in Msgs : IsMsg(msg[n])
      BY <1>0 DEF TrafficShape
    <3> HIDE DEF says, known, m
    <3>3. Rank(msg[m].state) >= Rank(msg[m].state)
      BY <2>0
    <3>4. QED
      BY <2>1, <3>1, <3>2, <3>3
  <2>2. CASE \E r \in NormalizeStatus(p) : ApplyStatus(r)
    <3>1. PICK r \in NormalizeStatus(p) : ApplyStatus(r)
      BY <2>2
    <3>2. /\ r.id = VendorId(k) /\ r.status \in {"sent", "delivered", "read", "failed"} /\ Backs(k, r.status)
          /\ r.status = "failed" => p.status = "failed"
          /\ p.status = "failed" \/ Rank(r.status) >= d
          /\ says \/ r.status = "sent"
      BY <1>4, <3>1 DEF d
    <3>3. /\ msg' = [n \in Msgs |-> msg'[n]]
          /\ \A n \in Msgs : IsMsg(msg'[n]) /\ msg'[n].ext = msg[n].ext /\ msg'[n].result = msg[n].result
          /\ \A n \in Msgs : n # m \/ msg[n].ext # VendorId(k) => msg'[n] = msg[n]
          /\ \A n \in Msgs : msg[n].ext = VendorId(k) =>
               msg'[n].state = IF r.status = "failed" \/ Rank(r.status) > Rank(msg[n].state)
                               THEN r.status ELSE msg[n].state
      BY <1>2, <3>1, <3>2, ApplyMeaning
    <3> HIDE DEF says, m
    <3>4. \A n \in Msgs : ~(n = m /\ known) => msg'[n].state = msg[n].state
      BY <3>3
    <3>5. known => msg'[m].state = IF r.status = "failed" \/ Rank(r.status) > Rank(msg[m].state)
                                   THEN r.status ELSE msg[m].state
      BY <3>3
    <3> HIDE DEF known
    <3>6. \A n \in Msgs : \/ msg'[n].state = msg[n].state
                          \/ /\ n = m /\ known /\ Backs(k, msg'[n].state)
                             /\ msg'[n].state \in {"sent", "delivered", "read", "failed"}
      BY <3>2, <3>4, <3>5
    <3>7. known /\ ~(says /\ p.status = "failed") => Rank(msg'[m].state) >= Rank(msg[m].state)
      BY <2>0, <3>2, <3>5
    <3>8. known /\ says /\ p.status # "failed" => Rank(msg'[m].state) >= d
      BY <1>11, <2>0, <3>2, <3>5 DEF d
    <3>9. QED
      BY <3>3, <3>4, <3>6, <3>7, <3>8
  <2>3. QED
    BY <1>13, <2>1, <2>2
<1>15. TrafficShape'
  <2>1. \A n \in Msgs : msg'[n].state \in {"queued", "calling", "sent", "delivered", "read", "failed"}
    BY <1>0, <1>14 DEF TrafficShape
  <2>2. QED
    BY <1>0, <1>1, <1>12, <1>14, <2>1 DEF TrafficShape
<1>16. AnswersOK'
  <2>1. ASSUME NEW n \in Msgs, msg'[n].state = "calling", msg'[n].result.accepted, msg'[n].result.id # <<>>
        PROVE  \E j \in Copies : NamesNext(j, n, msg'[n].result.id)
    <3>1. msg[n].state = "calling" /\ msg'[n].result = msg[n].result
      BY <1>14, <2>1
    <3>2. PICK j \in Copies : Names(j, n, msg[n].result.id)
      BY <1>0, <2>1, <3>1 DEF AnswersOK
    <3>3. copy[j].state # "none"
      BY <3>2 DEF Names
    <3>4. NamesNext(j, n, msg[n].result.id)
      BY <1>1, <3>2, <3>3, KeptNames
    <3>5. QED
      BY <3>1, <3>4
  <2>2. QED
    BY <2>1, AnswersNext
<1>17. MessagesBacked'
  <2>1. ASSUME NEW n \in Msgs, msg'[n].ext # <<>>
        PROVE  /\ msg'[n].state \in {"sent", "delivered", "read", "failed"}
               /\ \E j \in Copies : NamesNext(j, n, msg'[n].ext) /\ BacksNext(j, msg'[n].state)
    <3>1. msg'[n].ext = msg[n].ext
      BY <1>14
    <3>2. PICK j \in Copies : Names(j, n, msg[n].ext) /\ Backs(j, msg[n].state)
      BY <1>0, <2>1, <3>1 DEF MessagesBacked
    <3>3. copy[j].state # "none"
      BY <3>2 DEF Names
    <3>4. msg[n].state \in {"sent", "delivered", "read", "failed"}
      BY <1>0, <2>1, <3>1 DEF MessagesBacked
    <3>5. Backs(j, msg'[n].state) /\ msg'[n].state \in {"sent", "delivered", "read", "failed"}
      <4>1. CASE msg'[n].state = msg[n].state
        BY <3>2, <3>4, <4>1
      <4>2. CASE /\ n = m /\ known /\ Backs(k, msg'[n].state)
                 /\ msg'[n].state \in {"sent", "delivered", "read", "failed"}
        <5>1. j = k
          BY <3>2, <4>2, VendorIds DEF Names
        <5>2. QED
          BY <4>2, <5>1
      <4>3. QED
        BY <1>14, <4>1, <4>2
    <3>6. NamesNext(j, n, msg[n].ext) /\ BacksNext(j, msg'[n].state)
      BY <1>1, <3>2, <3>3, <3>5, KeptNames
    <3>7. QED
      BY <3>1, <3>5, <3>6
  <2>2. QED
    BY <2>1, BackedNext
<1>18. ToldOK'
  <2>1. ASSUME NEW n \in Msgs, told'[n] > 0
        PROVE  msg'[n].ext # <<>>
    <3>1. CASE n = m /\ known
      BY <1>14, <3>1, VendorIds
    <3>2. CASE ~(n = m /\ known)
      <4>1. told'[n] = told[n]
        BY <1>12, <3>2
      <4>2. QED
        BY <1>0, <1>14, <2>1, <4>1 DEF ToldOK
    <3>3. QED
      BY <3>1, <3>2
  <2>2. QED
    BY <2>1 DEF ToldOK
<1>19. ReportsCount'
  <2>1. ASSUME NEW n \in Msgs
        PROVE  Rank(msg'[n].state) >= told'[n]
    <3>0. /\ Rank(msg[n].state) >= told[n] /\ told[n] \in Nat
          /\ Rank(msg[n].state) \in Nat /\ Rank(msg'[n].state) \in Nat /\ d \in Nat
      BY <1>0, <1>10, <1>11, RankNat DEF ReportsCount, d
    <3>1. CASE n = m /\ known
      <4> HIDE DEF known, says
      <4>1. told'[n] = IF says THEN IF p.status = "failed" THEN 0 ELSE IF d > told[n] THEN d ELSE told[n]
                               ELSE told[n]
        BY <1>12, <3>1
      <4>2. QED
        BY <1>14, <3>0, <3>1, <4>1
    <3>2. CASE ~(n = m /\ known)
      <4>1. told'[n] = told[n] /\ msg'[n].state = msg[n].state
        BY <1>12, <1>14, <3>2
      <4>2. QED
        BY <3>0, <4>1
    <3>3. QED
      BY <3>1, <3>2
  <2>2. QED
    BY <2>1 DEF ReportsCount
<1>20. QED
  BY <1>1, <1>7, <1>15, <1>16, <1>17, <1>18, <1>19 DEF TrafficInv

\* What is not read as a report moves no message.
LEMMA IngestKeeps ==
  ASSUME TrafficInv, NEW p, Ingest(p), NormalizeStatus(p) = {}, NowTold(p) = told
  PROVE  /\ UNCHANGED <<msg, told>> /\ TrafficShape' /\ CopiesOK' /\ AnswersOK' /\ MessagesBacked'
         /\ NetOK' /\ StoredOK' /\ ToldOK' /\ ReportsCount'
<1>0. /\ TrafficShape /\ AnswersOK /\ MessagesBacked /\ ToldOK /\ ReportsCount
  BY DEF TrafficInv
<1>1. /\ UNCHANGED <<adapter, copy>> /\ Kept
      /\ used' \in [copies : 0..MaxCopies, posts : Nat, repeats : Nat]
      /\ CopiesOK' /\ NetOK' /\ StoredOK'
  BY IngestFrame
<1>2. UNCHANGED <<msg, told>>
  BY DEF Ingest
<1>3. TrafficShape'
  BY <1>0, <1>1, <1>2 DEF TrafficShape
<1>4. AnswersOK' /\ MessagesBacked'
  <2>1. \A k : /\ VendorId(k)' = VendorId(k)
               /\ \A m, id : Names(k, m, id) => NamesNext(k, m, id)
               /\ \A st : Backs(k, st) => BacksNext(k, st)
    BY <1>1 DEF VendorId, Names, NamesNext, Backs, BacksNext, Arrived
  <2>2. AnswersOK'
    BY <1>0, <1>2, <2>1, AnswersNext DEF AnswersOK
  <2>3. MessagesBacked'
    BY <1>0, <1>2, <2>1, BackedNext DEF MessagesBacked
  <2>4. QED
    BY <2>2, <2>3
<1>5. ToldOK' /\ ReportsCount'
  BY <1>0, <1>2 DEF ToldOK, ReportsCount
<1>6. QED
  BY <1>1, <1>2, <1>3, <1>4, <1>5

\* An echo of what was sent from here changes nothing.
LEMMA IngestEcho ==
  ASSUME TrafficInv, NEW p, Ingest(p), Echoes(p)
  PROVE  TrafficInv'
<1>0. RowsOK /\ NoneLost /\ StoredOK
  BY DEF TrafficInv
<1>1. NormalizeStatus(p) = {} /\ \A now : NormalizeInbound(p, now) = {}
  BY EchoMeaning
<1>2. p.own
  BY DEF Echoes
<1>3. NowTold(p) = told
  BY <1>2, Zenon DEF NowTold
<1>4. UNCHANGED <<adapter, stored, seen>>
  BY <1>1, <1>2 DEF Ingest
<1>5. RowsOK' /\ NoneLost'
  BY <1>0, <1>4, StoreKept
<1>6. QED
  BY <1>1, <1>3, <1>5, IngestKeeps DEF TrafficInv

\* A message becomes a row unless its row is there.
LEMMA IngestMessage ==
  ASSUME TrafficInv, NEW p, Ingest(p), NEW i \in Heard, p = MessageOf(i)
  PROVE  TrafficInv'
<1>0. RowsOK /\ NoneLost /\ MessagesBacked
  BY DEF TrafficInv
<1>1. Posting /\ UNCHANGED <<adapter, copy>>
  BY IngestFrame
<1> DEFINE now == 1 + used.repeats
<1>2. /\ NormalizeStatus(p) = {}
      /\ p.about = i /\ (adapter # "gwmd" => p.own = FALSE)
      /\ \A x \in NormalizeInbound(p, now) : RowOf(x, i)
      /\ NormalizeInbound(p, now) = {} => adapter = "gwmd" /\ p.own
  BY <1>1, MessageMeaning
<1>3. i \notin Msgs
  BY TrafficConstants
<1>4. NowTold(p) = told
  BY <1>2, <1>3, Zenon DEF NowTold
<1>5. seen' = IF p.own THEN seen ELSE seen \cup {i}
  BY <1>2 DEF Ingest
<1>6. \/ \E x \in NormalizeInbound(p, now) : Persist(x)
      \/ NormalizeInbound(p, now) = {} /\ stored' = stored
  BY <1>2 DEF Ingest
<1> HIDE DEF now
<1>7. CASE \E x \in NormalizeInbound(p, now) : Persist(x)
  <2>1. PICK x \in NormalizeInbound(p, now) : Persist(x)
    BY <1>7
  <2>2. RowOf(x, i) /\ x.about = i
    BY <1>2, <2>1 DEF RowOf
  <2>3. \A m \in Msgs : msg[m].ext # x.id
    <3>1. x.id # <<>>
      BY <1>1, <2>2 DEF RowOf, Posting
    <3>2. \A k \in Copies : VendorId(k) # x.id
      BY <1>1, <2>2, RowIds
    <3>3. QED
      BY <1>0, <3>1, <3>2 DEF MessagesBacked, Names
  <2>4. (\E r \in stored' : r.about = i) /\ stored \subseteq stored' /\ stored' \subseteq stored \cup {x}
    <3>1. CASE \E r \in stored : r.id = x.id
      <4>1. stored' = stored
        BY <2>1, <3>1 DEF Persist
      <4>2. PICK r \in stored : r.id = x.id
        BY <3>1
      <4>3. PICK j \in Heard : RowOf(r, j)
        BY <1>0 DEF RowsOK
      <4>4. j = i /\ r.about = i
        BY <1>1, <2>2, <4>2, <4>3, RowIds
      <4>5. QED
        BY <4>1, <4>2, <4>4
    <3>2. CASE ~(\E r \in stored : r.id = x.id)
      <4>1. stored' = stored \cup {x}
        BY <2>1, <2>3, <3>2 DEF Persist
      <4>2. QED
        BY <2>2, <4>1
    <3>3. QED
      BY <3>1, <3>2
  <2>5. RowsOK'
    BY <1>0, <1>1, <2>2, <2>4 DEF RowsOK, RowOf
  <2>6. NoneLost'
    BY <1>0, <1>5, <2>4 DEF NoneLost
  <2>7. QED
    BY <1>2, <1>4, <2>5, <2>6, IngestKeeps DEF TrafficInv
<1>8. CASE NormalizeInbound(p, now) = {} /\ stored' = stored
  <2>1. seen' = seen
    BY <1>2, <1>5, <1>8
  <2>2. RowsOK' /\ NoneLost'
    BY <1>0, <1>1, <1>8, <2>1 DEF RowsOK, RowOf, NoneLost
  <2>3. QED
    BY <1>2, <1>4, <2>2, IngestKeeps DEF TrafficInv
<1>9. QED
  BY <1>6, <1>7, <1>8

-----------------------------------------------------------------------------
(* The theorems about the traffic.                                           *)

\* In the beginning nothing is sent, taken or heard.
LEMMA TrafficInit ==
  ASSUME Init
  PROVE  TrafficInv
<1>1. /\ adapter \in Adapters
      /\ msg = [m \in Msgs |-> [state |-> "queued", tries |-> 0, ext |-> <<>>, result |-> NoResult]]
      /\ copy = [k \in Copies |-> NoCopy]
      /\ net = {} /\ stored = {} /\ seen = {}
      /\ told = [m \in Msgs |-> 0]
      /\ used = [copies |-> 0, posts |-> 0, repeats |-> 0]
  BY DEF Init
<1>2. \A m \in Msgs : msg[m].state = "queued" /\ msg[m].ext = <<>> /\ IsMsg(msg[m]) /\ told[m] = 0
  BY <1>1 DEF IsMsg
<1>3. \A k \in Copies : copy[k].state = "none" /\ k > used.copies
  BY <1>1 DEF NoCopy, Copies
<1>4. TrafficShape
  <2>1. copy \in [Copies -> [of : Msgs \cup {"none"},
                             state : CopyStates]]
    BY <1>1 DEF NoCopy, CopyStates
  <2>2. used \in [copies : 0..MaxCopies, posts : Nat, repeats : Nat]
    BY <1>1, TrafficConstants
  <2>3. told \in [Msgs -> Nat] /\ msg = [m \in Msgs |-> msg[m]]
    BY <1>1
  <2>4. QED
    BY <1>1, <1>2, <2>1, <2>2, <2>3 DEF TrafficShape
<1>5. CopiesOK
  BY <1>3 DEF CopiesOK
<1>6. AnswersOK /\ MessagesBacked /\ ToldOK
  BY <1>2 DEF AnswersOK, MessagesBacked, ToldOK
<1>7. NetOK /\ StoredOK /\ RowsOK /\ NoneLost
  BY <1>1 DEF NetOK, StoredOK, RowsOK, NoneLost
<1>8. ReportsCount
  BY <1>2, RankValues DEF ReportsCount
<1>9. QED
  BY <1>4, <1>5, <1>6, <1>7, <1>8 DEF TrafficInv

\* Every step keeps the invariant of the traffic.
LEMMA TrafficNext ==
  ASSUME TrafficInv, [Next]_vars
  PROVE  TrafficInv'
<1>1. CASE \E m \in Msgs : VendorRefuses(m) \/ VendorTakes(m) \/ RecordResult(m)
  BY <1>1, RefusesStep, TakesStep, RecordStep
<1>2. CASE \E k \in Copies : Progress(k) \/ PostReport(k) \/ PostEcho(k)
  BY <1>2, ProgressStep, PostsStep
<1>3. CASE \E i \in Heard : PostMessage(i)
  BY <1>3, PostsStep
<1>4. CASE \E p \in net : Ingest(p)
  <2>1. PICK p \in net : Ingest(p)
    BY <1>4
  <2>2. (\E k \in Copies : Reports(p, k)) \/ Echoes(p) \/ (\E i \in Heard : p = MessageOf(i))
    BY DEF TrafficInv, NetOK
  <2>3. QED
    BY <2>1, <2>2, IngestReport, IngestEcho, IngestMessage
<1>5. CASE UNCHANGED vars
  <2>1. UNCHANGED <<adapter, msg, copy, net, stored, seen, told, used>>
    BY <1>5 DEF vars
  <2>2. Kept
    BY <2>1 DEF Kept, Arrived
  <2>3. TrafficShape' /\ CopiesOK'
    BY <2>1 DEF TrafficInv, TrafficShape, CopiesOK
  <2>4. NetOK'
    BY <2>1, <2>2, NetKept DEF TrafficInv
  <2>5. QED
    BY <2>1, <2>2, <2>3, <2>4, CopiesMove DEF TrafficInv
<1>6. QED
  BY <1>1, <1>2, <1>3, <1>4, <1>5 DEF Next

\* The ids, the reports and the rows of every channel agree, for any messages, any number
\* of copies and repeats (send, normalizeStatus and normalizeInbound of the adapters).
THEOREM TrafficInvariance == Spec => []TrafficInv
<1>1. Init => TrafficInv
  BY TrafficInit
<1>2. TrafficInv /\ [Next]_vars => TrafficInv'
  BY TrafficNext
<1>3. QED
  BY <1>1, <1>2, PTL DEF Spec

\* No message is shown further than the copy it is known by has come, a subscriber's response
\* on a GoIP line counting as its arrival, and none as failed by a report on another copy (applyStatus of InboundIngestService).
THEOREM ShownIsBacked == Spec => []StatusBacked
<1>1. TrafficInv => StatusBacked
  <2>1. SUFFICES ASSUME TrafficInv, NEW m \in Msgs, msg[m].ext # <<>>
                 PROVE  \E k \in Copies :
                          /\ copy[k].of = m /\ VendorId(k) = msg[m].ext
                          /\ msg[m].state = "delivered" => copy[k].state \in {"answered", "delivered", "read"}
                          /\ msg[m].state = "read" => copy[k].state = "read"
                          /\ msg[m].state = "failed" => copy[k].state = "failed"
    BY DEF StatusBacked
  <2>2. PICK k \in Copies : Names(k, m, msg[m].ext) /\ Backs(k, msg[m].state)
    BY <2>1 DEF TrafficInv, MessagesBacked
  <2>3. QED
    BY <2>2 DEF Names, Backs, Arrived
<1>2. QED
  BY <1>1, TrafficInvariance, PTL

\* A report on a message whose id is recorded is never lost or undone by an older one
\* (send and normalizeStatus agree on the id; applyStatus moves forward only).
THEOREM ReportsAreNotLost == Spec => []ReportsCount
<1>1. TrafficInv => ReportsCount
  BY DEF TrafficInv
<1>2. QED
  BY <1>1, TrafficInvariance, PTL

\* Every message others wrote gets one row however often it is posted, and what the
\* gateway sent gets none (persist of InboundIngestService, externalId of the adapters).
THEOREM MessagesAreStoredOnce == Spec => []StoredExactlyOnce
<1>1. TrafficInv => StoredExactlyOnce
  <2>1. SUFFICES ASSUME TrafficInv PROVE StoredOnce
    BY DEF StoredExactlyOnce, TrafficInv
  <2>2. ASSUME NEW r \in stored
        PROVE  /\ r.about \notin Msgs
               /\ \A q \in stored : r.about = q.about /\ r # q => adapter = "goip-vendor" /\ Said[r.about].stamp = 0
    <3>0. Posting
      BY <2>1, <2>2 DEF TrafficInv, StoredOK
    <3>1. PICK i \in Heard : RowOf(r, i)
      BY <2>1 DEF TrafficInv, RowsOK
    <3>2. r.about = i
      BY <3>1 DEF RowOf
    <3>3. r.about \notin Msgs
      BY <3>2, TrafficConstants
    <3>4. ASSUME NEW q \in stored, r.about = q.about, r # q
          PROVE  adapter = "goip-vendor" /\ Said[i].stamp = 0
      <4>1. PICK j \in Heard : RowOf(q, j)
        BY <2>1 DEF TrafficInv, RowsOK
      <4>2. RowOf(q, i)
        BY <3>2, <3>4, <4>1 DEF RowOf
      <4>3. r.direction = q.direction
        BY <3>0, <3>1, <4>2 DEF RowOf, Posting
      <4>4. r.id # q.id
        BY <3>1, <3>4, <4>2, <4>3 DEF RowOf
      <4>5. QED
        BY <3>0, <3>1, <4>2, <4>4 DEF RowOf, Posting
    <3>5. QED
      BY <3>2, <3>3, <3>4
  <2>3. QED
    BY <2>2 DEF StoredOnce
<1>2. QED
  BY <1>1, TrafficInvariance, PTL

-----------------------------------------------------------------------------
(* The type invariant of the traffic.                                        *)

\* What the traffic relies on and TrafficInv leaves out: every bound is kept, and only
\* messages somebody wrote were heard.
BoundsOK ==
  /\ \A m \in Msgs : msg[m].tries \in 0..MaxTries
  /\ seen \subseteq Heard
  /\ used.posts \in 0..MaxPosts /\ used.repeats \in 0..MaxRepeats

\* A report leaves the number of attempts alone.
LEMMA ApplyKeepsTries ==
  ASSUME TrafficShape, NEW r, ApplyStatus(r), NEW n \in Msgs
  PROVE  msg'[n].tries = msg[n].tries
<1> DEFINE named == {m \in Msgs : msg[m].ext = r.id}
           moved == {m \in named : r.status = "failed" \/ Rank(r.status) > Rank(msg[m].state)}
<1>1. CASE moved = {}
  BY <1>1 DEF ApplyStatus
<1>2. CASE moved # {}
  <2>1. PICK m : m = CHOOSE x \in moved : TRUE
    OBVIOUS
  <2>2. m \in Msgs
    BY <1>2, <2>1
  <2>3. msg' = [msg EXCEPT ![m].state = r.status]
    BY <1>2, <2>1 DEF ApplyStatus
  <2> HIDE DEF moved, named
  <2>4. msg = [x \in Msgs |-> msg[x]] /\ IsMsg(msg[m])
    BY <2>2 DEF TrafficShape
  <2> DEFINE st == r.status
  <2> HIDE DEF st
  <2>5. [msg[m] EXCEPT !.state = st].tries = msg[m].tries
    BY <2>4 DEF IsMsg
  <2>6. msg'[n] = IF n = m THEN [msg[m] EXCEPT !.state = st] ELSE msg[n]
    BY <2>2, <2>3, <2>4 DEF st
  <2>7. QED
    BY <2>5, <2>6
<1>3. QED
  BY <1>1, <1>2

\* A call is one more attempt, and recording its result none.
LEMMA CallsCount ==
  ASSUME TrafficShape, BoundsOK, NEW m \in Msgs
  PROVE  /\ \A r : Calling(m, r) /\ msg[m].tries < MaxTries =>
                     \A n \in Msgs : msg'[n].tries \in 0..MaxTries
         /\ RecordResult(m) => \A n \in Msgs : msg'[n].tries \in 0..MaxTries
<1>0. msg = [x \in Msgs |-> msg[x]] /\ IsMsg(msg[m]) /\ MaxTries \in Nat
  BY TrafficAssumption DEF TrafficShape
<1>1. \A n \in Msgs : msg[n].tries \in 0..MaxTries
  BY DEF BoundsOK
<1>2. ASSUME NEW r, Calling(m, r), msg[m].tries < MaxTries, NEW n \in Msgs
      PROVE  msg'[n].tries \in 0..MaxTries
  <2> DEFINE res == Send(r, m)
             c == [msg[m] EXCEPT !.state = "calling", !.tries = @ + 1, !.result = res]
  <2>1. msg' = [msg EXCEPT ![m].state = "calling", ![m].tries = @ + 1, ![m].result = res]
    BY <1>2 DEF Calling
  <2> HIDE DEF res
  <2>2. msg' = [msg EXCEPT ![m] = c] /\ c.tries = msg[m].tries + 1
    BY <1>0, <2>1 DEF IsMsg
  <2> HIDE DEF c
  <2>3. msg'[n] = IF n = m THEN c ELSE msg[n]
    BY <1>0, <2>2
  <2>4. QED
    BY <1>0, <1>1, <1>2, <2>2, <2>3
<1>3. ASSUME RecordResult(m), NEW n \in Msgs
      PROVE  msg'[n].tries \in 0..MaxTries
  <2> DEFINE r == msg[m].result
             st == CASE r.accepted -> "sent"
                     [] ~r.accepted /\ r.retryable /\ msg[m].tries < MaxTries -> "queued"
                     [] OTHER -> "failed"
             ext == IF r.accepted THEN r.id ELSE msg[m].ext
             c == [msg[m] EXCEPT !.state = st, !.ext = ext, !.result = NoResult]
  <2>1. msg' = [msg EXCEPT ![m].state = st, ![m].ext = ext, ![m].result = NoResult]
    BY <1>3 DEF RecordResult
  <2> HIDE DEF st, ext
  <2>2. msg' = [msg EXCEPT ![m] = c] /\ c.tries = msg[m].tries
    BY <1>0, <2>1 DEF IsMsg
  <2> HIDE DEF c
  <2>3. msg'[n] = IF n = m THEN c ELSE msg[n]
    BY <1>0, <2>2
  <2>4. QED
    BY <1>1, <2>2, <2>3
<1>4. QED
  BY <1>2, <1>3

\* Every step keeps the bounds.
LEMMA BoundsNext ==
  ASSUME TrafficInv, BoundsOK, [Next]_vars
  PROVE  BoundsOK'
<1>0. TrafficShape /\ MaxPosts \in Nat /\ MaxRepeats \in Nat
  BY TrafficAssumption DEF TrafficInv
<1>1. /\ used \in [copies : 0..MaxCopies, posts : Nat, repeats : Nat]
      /\ used.posts \in 0..MaxPosts /\ used.repeats \in 0..MaxRepeats
  BY <1>0 DEF TrafficShape, BoundsOK
<1>2. ASSUME NEW m \in Msgs, VendorRefuses(m) \/ VendorTakes(m) \/ RecordResult(m)
      PROVE  BoundsOK'
  <2>1. \/ \E r : Calling(m, r) /\ msg[m].tries < MaxTries
        \/ RecordResult(m)
    BY <1>2 DEF VendorRefuses, VendorTakes
  <2>2. \A n \in Msgs : msg'[n].tries \in 0..MaxTries
    BY <1>0, <2>1, CallsCount
  <2>3. seen' = seen /\ used'.posts = used.posts /\ used'.repeats = used.repeats
    BY <1>1, <1>2 DEF VendorRefuses, VendorTakes, RecordResult
  <2>4. QED
    BY <2>2, <2>3 DEF BoundsOK
<1>3. ASSUME NEW k \in Copies, Progress(k)
      PROVE  BoundsOK'
  BY <1>3 DEF Progress, BoundsOK
<1>4. ASSUME NEW p, Post(p)
      PROVE  BoundsOK'
  <2>1. UNCHANGED <<msg, seen>> /\ used' = [used EXCEPT !.posts = @ + 1] /\ used.posts < MaxPosts
    BY <1>4 DEF Post
  <2>2. used'.posts \in 0..MaxPosts /\ used'.repeats = used.repeats
    BY <1>0, <1>1, <2>1
  <2>3. QED
    BY <2>1, <2>2 DEF BoundsOK
<1>5. ASSUME NEW p \in net, Ingest(p)
      PROVE  BoundsOK'
  <2>1. \A n \in Msgs : msg'[n].tries = msg[n].tries
    <3>1. CASE msg' = msg
      BY <3>1
    <3>2. CASE \E r \in NormalizeStatus(p) : ApplyStatus(r)
      BY <1>0, <3>2, ApplyKeepsTries
    <3>3. QED
      BY <1>5, <3>1, <3>2 DEF Ingest
  <2>2. seen' \subseteq Heard
    BY <1>5 DEF Ingest, BoundsOK
  <2>3. \/ used' = used
        \/ used.repeats < MaxRepeats /\ used' = [used EXCEPT !.repeats = @ + 1]
    BY <1>5 DEF Ingest
  <2>4. used'.posts \in 0..MaxPosts /\ used'.repeats \in 0..MaxRepeats
    BY <1>0, <1>1, <2>3
  <2>5. QED
    BY <2>1, <2>2, <2>4 DEF BoundsOK
<1>6. CASE UNCHANGED vars
  BY <1>6 DEF vars, BoundsOK
<1>7. CASE Next
  <2>1. ASSUME NEW k \in Copies, PostReport(k) \/ PostEcho(k) PROVE BoundsOK'
    BY <1>4, <2>1 DEF PostReport, PostEcho
  <2>2. ASSUME NEW i \in Heard, PostMessage(i) PROVE BoundsOK'
    BY <1>4, <2>2 DEF PostMessage
  <2>3. QED
    BY <1>2, <1>3, <1>5, <1>7, <2>1, <2>2 DEF Next
<1>8. QED
  BY <1>6, <1>7

\* The type invariant holds for any messages and any bounds: attempts, posts and repeats
\* stay within theirs, and an id a message is known by is one the vendor has given (the
\* id in send and in normalizeStatus of the adapters).
THEOREM TrafficTypeCorrect == Spec => []TypeOK
<1>1. Init => BoundsOK
  BY TrafficAssumption DEF Init, BoundsOK
<1>2. TrafficInv /\ BoundsOK /\ [Next]_vars => BoundsOK'
  BY BoundsNext
<1>3. TrafficInv /\ BoundsOK => TypeOK
  <2>0. SUFFICES ASSUME TrafficInv, BoundsOK PROVE TypeOK
    OBVIOUS
  <2>1. TrafficShape /\ MessagesBacked /\ StoredOK /\ RowsOK /\ ReportsCount
    BY <2>0 DEF TrafficInv
  <2>2. ASSUME NEW m \in Msgs, msg[m].ext # <<>>
        PROVE  msg[m].ext \in KnownIds
    BY <2>1, <2>2 DEF MessagesBacked, Names, KnownIds
  <2>3. \A r \in stored : r.direction \in {"inbound", "outbound"}
    BY <2>1 DEF StoredOK, RowsOK, RowOf, Posting
  <2>4. told \in [Msgs -> 0..6]
    <3>1. ASSUME NEW m \in Msgs PROVE told[m] \in 0..6
      <4>1. told[m] \in Nat /\ Rank(msg[m].state) >= told[m]
        BY <2>1 DEF TrafficShape, ReportsCount
      <4>2. Rank(msg[m].state) \in {0, 1, 2, 4, 5, 6}
        BY RankNat
      <4>3. QED
        BY <4>1, <4>2
    <3>2. QED
      BY <2>1, <3>1 DEF TrafficShape
  <2>5. used \in [copies : 0..MaxCopies, posts : 0..MaxPosts, repeats : 0..MaxRepeats]
    BY <2>0, <2>1 DEF TrafficShape, BoundsOK
  <2>6. QED
    BY <2>0, <2>1, <2>2, <2>3, <2>4, <2>5 DEF TypeOK, TrafficShape, BoundsOK, CopyStates
<1>4. QED
  BY <1>1, <1>2, <1>3, TrafficInvariance, PTL DEF Spec
=============================================================================
