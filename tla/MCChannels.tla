----------------------------- MODULE MCChannels -----------------------------
(* An instance of ChannelTraffic, SimBalance and TestChat for TLC.  They     *)
(* share nothing but the adapter: a behaviour is about one of them.  The     *)
(* chat goes with one change of accounts or numbers by an operator.          *)
EXTENDS ChannelTraffic, SimBalance, TestChat, TLC

CONSTANTS m1, m2, i1, i2, i3

VARIABLE scene

\* Both messages go to the same number.
SameNumber == [m \in Msgs |-> "p"]

\* Two texts of one second, and one without a stamp from the endpoint's phone.
MCSaid ==
  [i \in Heard |->
     CASE i = i1 -> [from |-> "p", stamp |-> 1, text |-> "a", own |-> FALSE]
       [] i = i2 -> [from |-> "p", stamp |-> 1, text |-> "b", own |-> FALSE]
       [] i = i3 -> [from |-> "p", stamp |-> 0, text |-> "c", own |-> TRUE]]

MCFunds == {-5, 30}

MessageSymmetry == Permutations(Msgs)

\* Texts, frames from the phone and echoes come in beside one copy at most.  Only goip
\* makes the id out of text and stamp: for the others i2 is a second i1, and for goip it
\* and the one without a stamp arrive before anything is sent.
TextsApart ==
  \A p \in net' : p.content =>
    /\ used'.copies <= 1
    /\ adapter = "goip-vendor" => used'.copies = 0 \/ p.about = i1
    /\ adapter # "goip-vendor" => p.about # i2

\* Only one of the messages is tried again.
OneRetry == \E m \in Msgs : msg'[m].tries <= 1

ScenesInit ==
  /\ Init
  /\ SimInit
  /\ AccountsInit
  /\ ChatInit
  /\ scene \in {"traffic", "balance", "accounts", "chat"}
  /\ scene # "traffic" => adapter = "goip-vendor"
  /\ scene # "balance" => funds = 30 /\ config.threshold = 20 /\ config.code = "*111#"
  /\ scene # "accounts" => account[1].adapter = "gwmd"

ScenesNext ==
  \/ scene = "traffic" /\ Next /\ TextsApart /\ OneRetry /\ UNCHANGED <<simVars, adminVars, chatVars, scene>>
  \/ scene = "balance" /\ SimNext /\ UNCHANGED <<vars, adminVars, chatVars, scene>>
  \/ scene = "accounts" /\ AccountsNext /\ UNCHANGED <<vars, simVars, chatVars, scene>>
  \/ scene = "chat" /\ ChatNext /\ budget' \in {budget, [admin |-> 1, starts |-> 1]} /\ UNCHANGED <<vars, simVars, scene>>

ScenesSpec == ScenesInit /\ [][ScenesNext]_<<vars, simVars, adminVars, chatVars, scene>>
=============================================================================
