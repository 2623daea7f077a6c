----------------------------- MODULE SimBalance -----------------------------
(***************************************************************************)
(* The balance of a prepaid SIM: the daily SmsBalanceScheduler, the check  *)
(* on demand of BalanceService, and the settings form of the Channels      *)
(* page.  All three keep their results in Endpoint.configJson: each reads  *)
(* the whole object, waits (for the carrier, or for the operator), and     *)
(* writes the whole object back.  One line.                                *)
(***************************************************************************)
EXTENDS ChannelAdapters

CONSTANTS
  Funds,       \* amounts the SIM may have, in hryvnias; negative is a debt
  UssdCodes,   \* codes an operator may set
  Thresholds,  \* thresholds an operator may set
  MaxDays,     \* bound: daily runs
  MaxChecks,   \* bound: checks on demand and saved settings
  MaxChanges   \* bound: times the amount changes

ASSUME SimAssumption ==
  /\ {MaxDays, MaxChecks, MaxChanges} \subseteq Nat
  /\ Funds \subseteq Int /\ Thresholds \subseteq Nat

VARIABLES
  funds,     \* what the SIM has
  config,    \* configJson
  daily,     \* the scheduler's run
  check,     \* the check on demand
  page,      \* the configJson the Channels page has loaded
  owed,      \* history: a run found the balance low and no recovery was announced since
  lastRead,  \* history: what the last daily run that came to an end read
  had,       \* history: amounts the SIM had
  spent      \* what is used up of each bound

simVars == <<funds, config, daily, check, page, owed, lastRead, had, spent>>

\* A balance that was never read is undefined; one that could not be read is null.
Undefined == [defined |-> FALSE, parsed |-> FALSE, amount |-> 0]
Reading(r) == [defined |-> TRUE, parsed |-> r.parsed, amount |-> r.amount]
Asleep == [pc |-> "idle", config |-> [code |-> "", threshold |-> 0, balance |-> Undefined],
           code |-> "", result |-> NoReading(FALSE)]

SimInit ==
  /\ funds \in Funds
  /\ \E c \in UssdCodes, t \in Thresholds :
       config = [code |-> c, threshold |-> t, balance |-> Undefined]
  /\ daily = Asleep /\ check = Asleep
  /\ page = config
  /\ owed = FALSE /\ lastRead = "none"
  /\ had = {funds}
  /\ spent = [days |-> 0, checks |-> 0, changes |-> 0]

Use(what, bound) == spent[what] < bound /\ spent' = [spent EXCEPT ![what] = @ + 1]

\* The SIM is used or topped up.
FundsChange ==
  /\ Use("changes", MaxChanges)
  /\ funds' \in Funds \ {funds}
  /\ had' = had \cup {funds'}
  /\ UNCHANGED <<config, daily, check, page, owed, lastRead>>

\* What the carrier may answer to the code; NoReading(FALSE) when nothing comes.
Replies ==
  {CheckBalance([http |-> h, body |-> b],
                [readable |-> k, debt |-> funds < 0, figure |-> IF funds < 0 THEN 0 - funds ELSE funds]) :
     h \in {200, 500}, b \in {"OK", "ERROR"}, k \in BOOLEAN}

-----------------------------------------------------------------------------
(* The daily run.                                                            *)

\* Reads the endpoints; a line without a code is passed over.
DailyRead ==
  /\ daily.pc = "idle" /\ config.code # ""
  /\ Use("days", MaxDays)
  /\ daily' = [Asleep EXCEPT !.pc = "ussd", !.config = config]
  /\ UNCHANGED <<funds, config, check, page, owed, lastRead, had>>

\* A call that throws ends the line's turn.
DailyUssd ==
  /\ daily.pc = "ussd"
  /\ \/ \E r \in Replies : daily' = [daily EXCEPT !.pc = "record", !.result = r]
     \/ daily' = Asleep
  /\ UNCHANGED <<funds, config, check, page, owed, lastRead, had, spent>>

Low(r, threshold) == r.parsed /\ r.amount < threshold

\* record: what was read in the morning, with the new balance in it.
DailyRecord ==
  /\ daily.pc = "record"
  /\ config' = [daily.config EXCEPT !.balance = Reading(daily.result)]
  /\ daily' = [daily EXCEPT !.pc = "tell"]
  /\ owed' = (owed \/ Low(daily.result, daily.config.threshold))
  /\ lastRead' = "none"
  /\ UNCHANGED <<funds, check, page, had, spent>>

\* Mutant: a balance that could not be read was not low.
WasLowIfParsed(c) == c.balance.defined /\ c.balance.parsed /\ c.balance.amount < c.threshold

\* The last balance was low; null counts as zero.
WasLow(c) == c.balance.defined /\ c.balance.amount < c.threshold

\* The events sim.balance.low and sim.balance.recovered.
DailyTell ==
  /\ daily.pc = "tell"
  /\ LET r == daily.result
         threshold == daily.config.threshold
     IN  \/ ~r.parsed /\ UNCHANGED <<owed, lastRead>>
         \/ Low(r, threshold) /\ lastRead' = "low" /\ UNCHANGED owed
         \/ /\ r.parsed /\ r.amount >= threshold
            /\ owed' = (owed /\ ~WasLow(daily.config)) /\ lastRead' = "fine"
  /\ daily' = Asleep
  /\ UNCHANGED <<funds, config, check, page, had, spent>>

-----------------------------------------------------------------------------
(* The check on demand, and the form.                                        *)

\* The code of the request, of the line, or none: then it is refused.
CheckRead ==
  /\ check.pc = "idle"
  /\ \E code \in UssdCodes :
       /\ code # ""
       /\ check' = [Asleep EXCEPT !.pc = "ussd", !.config = config, !.code = code]
  /\ Use("checks", MaxChecks)
  /\ UNCHANGED <<funds, config, daily, page, owed, lastRead, had>>

CheckUssd ==
  /\ check.pc = "ussd"
  /\ \E r \in Replies :
       check' = IF r.ok THEN [check EXCEPT !.pc = "write", !.result = r] ELSE Asleep
  /\ UNCHANGED <<funds, config, daily, page, owed, lastRead, had, spent>>

\* The code that worked becomes the line's.  Nobody is told: the next daily run
\* compares with this balance.
CheckWrite ==
  /\ check.pc = "write"
  /\ config' = [check.config EXCEPT !.code = check.code, !.balance = Reading(check.result)]
  /\ check' = Asleep
  /\ owed' = FALSE
  /\ UNCHANGED <<funds, daily, page, lastRead, had, spent>>

\* fetchAccounts.
LoadPage ==
  /\ page # config
  /\ page' = config
  /\ UNCHANGED <<funds, config, daily, check, owed, lastRead, had, spent>>

\* saveBalanceSettings sends the loaded configJson with the two fields changed.
SaveSettings ==
  /\ Use("checks", MaxChecks)
  /\ \E c \in UssdCodes, t \in Thresholds :
       config' = [page EXCEPT !.code = c, !.threshold = t]
  /\ owed' = FALSE
  /\ UNCHANGED <<funds, daily, check, page, lastRead, had>>

SimNext ==
  \/ FundsChange
  \/ DailyRead \/ DailyUssd \/ DailyRecord \/ DailyTell
  \/ CheckRead \/ CheckUssd \/ CheckWrite
  \/ LoadPage \/ SaveSettings

SimSpec == SimInit /\ [][SimNext]_simVars

-----------------------------------------------------------------------------
\* The balance on the line is one the SIM really had, debts negative, although
\* three writers overwrite each other's configJson.
BalanceIsReal == config.balance.parsed => config.balance.amount \in had

\* Whoever was told of a low balance is told of its recovery by the next daily
\* run that can read one, however many could not in between: null counts as
\* zero, which is low as long as the threshold is positive.  A check on demand or
\* saved settings in between change what the run compares with.
RecoveryTold == lastRead = "fine" => ~owed

\* What the line shows and what people are told about its balance is so.
BalanceTold == BalanceIsReal /\ RecoveryTold
=============================================================================
