------------------------------ MODULE TestChat ------------------------------
(***************************************************************************)
(* The test chat of the admin UI: threads, the composer, and the request   *)
(* it sends, up to the endpoint that MessagesService.send picks for it.    *)
(* Composed with TransportAccounts.  The page works on what it last        *)
(* fetched: threads every five seconds, accounts when it likes.            *)
(*                                                                         *)
(* A draft is a number, 0 when the field is empty; so is an endpoint, 0    *)
(* for "auto".  A file is uploaded before the request is posted: see       *)
(* MediaStore.                                                             *)
(***************************************************************************)
EXTENDS TransportAccounts, Sequences

CONSTANTS
  Peers,       \* numbers people write from
  MaxDrafts,   \* bound: texts typed
  MaxRequests, \* bound: times Send is pressed
  MaxLost      \* bound: answers that do not arrive

ASSUME ChatAssumption == {MaxDrafts, MaxRequests, MaxLost} \subseteq Nat /\ "" \notin Peers

VARIABLES
  thread,  \* conversations
  tab,     \* state of the page
  request, \* requests it posted
  outbox,  \* messages that send has made
  typed    \* what is used up of each bound

chatVars == <<thread, tab, request, outbox, typed>>

NoThread == [ep |-> 0, peer |-> ""]
NoRequest == [pc |-> "none", acc |-> 0, ep |-> 0, to |-> "", draft |-> 0,
              of |-> NoThread, picked |-> FALSE, made |-> FALSE]

ChatInit ==
  /\ thread = [ep : {1, 2}, peer : Peers]
  /\ tab = [loaded |-> FALSE, active |-> {}, lines |-> {}, list |-> {}, selected |-> NoThread,
            composing |-> FALSE, to |-> "", ep |-> 0, channel |-> FALSE, draft |-> 0,
            picked |-> FALSE, pending |-> FALSE]
  /\ request = [i \in 1..MaxRequests |-> NoRequest]
  /\ outbox = <<>>
  /\ typed = [drafts |-> 0, requests |-> 0, lost |-> 0]

-----------------------------------------------------------------------------
(* What the page fetches.                                                    *)

\* The active accounts and their enabled numbers; a channel is picked by default.
FetchAccounts ==
  /\ LET active == {a \in AccountIds : account[a].state = "active"}
         lines == {l \in LineIds : number[l].state = "on" /\ number[l].acc \in active}
         fetched == [tab EXCEPT !.loaded = TRUE, !.active = active,
                                !.lines = {<<l, number[l].acc>> : l \in lines},
                                !.channel = tab.channel \/ lines # {}]
     IN  fetched # tab /\ tab' = fetched
  /\ UNCHANGED <<thread, request, outbox, typed>>

FetchThreads ==
  /\ tab.list # thread
  /\ tab' = [tab EXCEPT !.list = thread]
  /\ UNCHANGED <<thread, request, outbox, typed>>

-----------------------------------------------------------------------------
(* The composer.                                                             *)

\* Mutant: the number is left to the API.
TargetAuto(c) == [tab EXCEPT !.to = c.peer, !.channel = TRUE, !.ep = 0, !.picked = FALSE]

\* The effect of selectedId: peer, channel and number of the thread.
Target(c) == [tab EXCEPT !.to = c.peer, !.channel = TRUE, !.ep = c.ep, !.picked = FALSE]

\* What was typed stays; a thread that is open already is not targeted again.
OpenThread(c) ==
  /\ c \in tab.list
  /\ tab' = IF c = tab.selected THEN [tab EXCEPT !.composing = FALSE]
            ELSE [Target(c) EXCEPT !.composing = FALSE, !.selected = c]
  /\ UNCHANGED <<thread, request, outbox, typed>>

\* Number and channel stay as they are.
StartNewChat ==
  /\ tab.lines # {}
  /\ tab' = [tab EXCEPT !.selected = NoThread, !.composing = TRUE, !.to = "", !.draft = 0]
  /\ UNCHANGED <<thread, request, outbox, typed>>

ComposerShown == tab.composing \/ tab.selected \in tab.list

Type ==
  /\ ComposerShown /\ typed.drafts < MaxDrafts
  /\ typed' = [typed EXCEPT !.drafts = @ + 1]
  /\ tab' = [tab EXCEPT !.draft = typed.drafts + 1]
  /\ UNCHANGED <<thread, request, outbox>>

\* The operator chooses a recipient or a number.
PickTarget ==
  /\ ComposerShown
  /\ \/ \E p \in Peers \ {tab.to} : tab' = [tab EXCEPT !.to = p, !.picked = TRUE]
     \/ \E l \in ({0} \cup {x[1] : x \in tab.lines}) \ {tab.ep} :
          tab' = [tab EXCEPT !.ep = l, !.picked = TRUE]
  /\ UNCHANGED <<thread, request, outbox, typed>>

Newest(ids) == IF ids = {} THEN 0 ELSE CHOOSE a \in ids : \A b \in ids : b <= a
Oldest(ids) == CHOOSE a \in ids : \A b \in ids : a <= b

\* The account of the number, else the first active one of the channel, if any.
AccountOf(ep) ==
  IF \E x \in tab.lines : x[1] = ep THEN (CHOOSE x \in tab.lines : x[1] = ep)[2]
  ELSE Newest(tab.active)

\* Mutant: the button works while a request is on its way.
CanSendAgain == ComposerShown /\ tab.draft # 0 /\ tab.to # "" /\ tab.channel

CanSend == ComposerShown /\ tab.draft # 0 /\ tab.to # "" /\ tab.channel /\ ~tab.pending

\* send.mutate: what the fields hold now is what is posted later.
Submit ==
  /\ CanSend /\ typed.requests < MaxRequests
  /\ typed' = [typed EXCEPT !.requests = @ + 1]
  /\ request' = [request EXCEPT ![typed.requests + 1] =
       [pc |-> "posted", acc |-> AccountOf(tab.ep), ep |-> tab.ep, to |-> tab.to, draft |-> tab.draft,
        of |-> tab.selected, picked |-> tab.picked, made |-> FALSE]]
  /\ tab' = [tab EXCEPT !.pending = TRUE]
  /\ UNCHANGED <<thread, outbox>>

-----------------------------------------------------------------------------
(* send, and its answer.                                                     *)

\* The account that is taken when the request does not name both.
Candidates == {a \in AccountIds : /\ account[a].state = "active"
                                  /\ \E l \in LineIds : number[l] = [state |-> "on", acc |-> a]}

\* The endpoint of a request, or 0: then it is refused.  A number that is named
\* goes by its own flag, whatever the state of its account.
PickedLine(r) ==
  IF r.acc = 0 \/ r.ep = 0
  THEN IF Candidates = {} THEN 0
       ELSE Oldest({l \in LineIds : number[l] = [state |-> "on", acc |-> Newest(Candidates)]})
  ELSE IF number[r.ep] = [state |-> "on", acc |-> r.acc] THEN r.ep ELSE 0

\* The message and its thread.
HandleSend(i) ==
  /\ request[i].pc = "posted"
  /\ LET r == request[i]
         l == PickedLine(r)
     IN  \/ /\ l # 0
            /\ thread' = thread \cup {[ep |-> l, peer |-> r.to]}
            /\ outbox' = Append(outbox, [ep |-> l, to |-> r.to, request |-> i])
            /\ request' = [request EXCEPT ![i].pc = "handled", ![i].made = TRUE]
         \/ /\ l = 0
            /\ request' = [request EXCEPT ![i].pc = "handled"]
            /\ UNCHANGED <<thread, outbox>>
  /\ UNCHANGED <<tab, typed>>

\* onSuccess empties the composer, whatever it holds by now; onError leaves it.
Answered(i) ==
  /\ request[i].pc = "handled"
  /\ request' = [request EXCEPT ![i].pc = "done"]
  /\ \/ /\ request[i].made
        /\ tab' = [tab EXCEPT !.draft = 0, !.composing = FALSE, !.pending = FALSE]
        /\ UNCHANGED typed
     \/ /\ ~request[i].made
        /\ tab' = [tab EXCEPT !.pending = FALSE]
        /\ UNCHANGED typed
     \/ /\ request[i].made /\ typed.lost < MaxLost
        /\ typed' = [typed EXCEPT !.lost = @ + 1]
        /\ tab' = [tab EXCEPT !.pending = FALSE]
  /\ UNCHANGED <<thread, outbox>>

\* deleteEndpoint with force takes the threads of the number along.
RemoveEndpoint(l) ==
  /\ Spend("admin", MaxAdmin)
  /\ Present(l)
  /\ number' = [number EXCEPT ![l].state = "gone"]
  /\ thread' = {c \in thread : c.ep # l}
  /\ UNCHANGED <<account, seed, tab, request, outbox, typed>>

ChatNext ==
  \/ AccountsNext /\ UNCHANGED chatVars
  \/ \E l \in LineIds : RemoveEndpoint(l)
  \/ /\ \/ FetchAccounts \/ FetchThreads
        \/ \E c \in tab.list : OpenThread(c)
        \/ StartNewChat \/ Type \/ PickTarget \/ Submit
        \/ \E i \in 1..MaxRequests : HandleSend(i) \/ Answered(i)
     /\ UNCHANGED adminVars

ChatSpec == AccountsInit /\ ChatInit /\ [][ChatNext]_<<adminVars, chatVars>>

-----------------------------------------------------------------------------
\* A reply written in an open thread goes to its peer and from its number, or it
\* is refused, however stale the page and whatever operators change meanwhile,
\* unless the operator picked something else in the composer or the page knew of
\* no active account: then it leaves the account out and send picks any number.
RepliesFromThread ==
  \A n \in DOMAIN outbox :
    LET r == request[outbox[n].request]
    IN  r.of # NoThread /\ ~r.picked /\ r.acc # 0 =>
          [ep |-> outbox[n].ep, peer |-> outbox[n].to] = r.of

\* What was typed once is sent once, unless an answer was lost: the page sends no
\* Idempotency-Key, so pressing the button again makes a second message.
SentOnce ==
  typed.lost = 0 =>
    \A m, n \in DOMAIN outbox :
      request[outbox[m].request].draft = request[outbox[n].request].draft => m = n

\* What is typed in a thread goes where the page shows it going, once.
RepliesGoRight == RepliesFromThread /\ SentOnce
=============================================================================
