----------------------------- MODULE Clipboard -----------------------------
(***************************************************************************)
(* OSC 52: programs in panes ask to set or to read the user's clipboard.   *)
(* A request is dropped, forwarded to the attached clients, or held until  *)
(* the user has answered a prompt, of which the daemon shows one at a time.*)
(* The panes of several tabs; a prompt names a pane by its id, and ids are *)
(* unique within a tab only.                                               *)
(***************************************************************************)
EXTENDS Integers, Sequences, Functions

Nobody == <<0, 0>>    \* tabs count from 1

CONSTANTS
    Slots,       \* pairs <<tab, id>>: the panes
    QUEUE_MAX,   \* requests a pane's queue holds (8 in the code)
    MaxRequests  \* bound on the requests, copies and replaced panes

ASSUME ClipboardAssumption ==
    /\ QUEUE_MAX \in Nat /\ MaxRequests \in Nat
    /\ Slots \subseteq Nat \X Nat /\ Nobody \notin Slots

VARIABLES
    policy,      \* clipboard.osc52_set and osc52_get
    visible,     \* the tab on screen
    decision,    \* osc52_decision of each pane
    held,        \* osc52_pending_confirm of each pane
    ready,       \* osc52_pending of each pane
    prompt,      \* osc52_confirm: [id, queued] or NoPrompt
    clipPhase,   \* "read" or "keys"
    sent,        \* what the clients have just got
    agreed,      \* panes whose last answer, given to their own prompt, was yes
    mistaken,    \* panes that got the answer to another pane's prompt
    requests

clipVars == <<policy, visible, decision, held, ready, prompt, clipPhase, sent, agreed, mistaken, requests>>

NoPrompt == [id |-> -1, queued |-> <<>>]
Tabs == {s[1] : s \in Slots}

ClipInit ==
    /\ policy \in [set : {"allow", "confirm", "deny"}, get : {"allow", "deny"}]
    /\ visible = (CHOOSE t \in Tabs : \A u \in Tabs : t <= u)
    /\ decision = [s \in Slots |-> "pending"]
    /\ held = [s \in Slots |-> <<>>] /\ ready = [s \in Slots |-> <<>>]
    /\ prompt = NoPrompt /\ clipPhase = "read" /\ sent = {}
    /\ agreed = {} /\ mistaken = {} /\ requests = 0

-----------------------------------------------------------------------------
\* enqueue_osc
Enqueue(queue, r) == IF Len(queue) < QUEUE_MAX THEN Append(queue, r) ELSE queue

Effective(p, d) ==
    IF p = "deny" \/ d = "denied" THEN "deny" ELSE IF d = "allowed" THEN "allow" ELSE p

\* requeue_osc52_pending_confirm: what was taken goes back before what has come
\* since, as far as the queue holds it.
Requeued(taken, queue) ==
    LET all == taken \o queue
    IN  SubSeq(all, 1, IF Len(all) < QUEUE_MAX THEN Len(all) ELSE QUEUE_MAX)

\* handle_osc52: a request of pane s.  An ill-formed or oversized one is
\* dropped, which is the same as none.
Request(s, kind) ==
    LET r == [of |-> s, kind |-> kind]
        e == IF kind = "get" THEN policy.get ELSE Effective(policy.set, decision[s])
    IN  /\ ready' = IF e = "allow" THEN [ready EXCEPT ![s] = Enqueue(@, r)] ELSE ready
        /\ held' = IF e = "confirm" THEN [held EXCEPT ![s] = Enqueue(@, r)] ELSE held

\* The user copies from a pane: her own request is not subject to the policy.
Copy(s) ==
    /\ ready' = [ready EXCEPT ![s] = Append(@, [of |-> s, kind |-> "copy"])]
    /\ UNCHANGED held

Emit ==
    /\ clipPhase = "read" /\ requests < MaxRequests /\ requests' = requests + 1
    /\ \E s \in Slots, kind \in {"set", "get"} : Request(s, kind)
    /\ UNCHANGED <<policy, visible, decision, prompt, clipPhase, sent, agreed, mistaken>>

\* After the panes were read: those of the tab on screen hand over what is
\* ready, and the first one with a held request is asked about.
Forward ==
    LET here == {s \in Slots : s[1] = visible}
        asking == {s \in here : held[s] # <<>>}
        first == CHOOSE s \in asking : \A t \in asking : s[2] <= t[2]
    IN  /\ clipPhase = "read" /\ clipPhase' = "keys"
        /\ sent' = UNION {Range(ready[s]) : s \in here}
        /\ ready' = [s \in Slots |-> IF s \in here THEN <<>> ELSE ready[s]]
        /\ IF prompt # NoPrompt \/ asking = {} THEN UNCHANGED <<prompt, held>>
           ELSE /\ prompt' = [id |-> first[2], queued |-> held[first]]
                /\ held' = [held EXCEPT ![first] = <<>>]
        /\ UNCHANGED <<policy, visible, decision, agreed, mistaken, requests>>

\* The keys y, n and Esc; every other key is swallowed.  The answer goes to
\* the pane that has the id now; "asked" marks what the yes was about.
Answer(key) ==
    LET to == <<visible, prompt.id>>
        said == [i \in DOMAIN prompt.queued |-> [prompt.queued[i] EXCEPT !.kind = "asked"]]
        own == \A i \in DOMAIN prompt.queued : prompt.queued[i].of = to
    IN  /\ clipPhase = "keys" /\ prompt # NoPrompt /\ prompt' = NoPrompt
        /\ IF to \notin Slots THEN UNCHANGED <<decision, ready, held, agreed, mistaken>>
           ELSE /\ decision' = CASE key = "y" -> [decision EXCEPT ![to] = "allowed"]
                                 [] key = "n" -> [decision EXCEPT ![to] = "denied"]
                                 [] OTHER -> decision
                /\ ready' = IF key = "y" THEN [ready EXCEPT ![to] = @ \o said] ELSE ready
                /\ held' = IF key # "esc" THEN held
                           ELSE [held EXCEPT ![to] = Requeued(prompt.queued, @)]
                /\ agreed' = IF key = "y" /\ own THEN agreed \cup {to}
                             ELSE IF key = "n" THEN agreed \ {to} ELSE agreed
                /\ mistaken' = IF own THEN mistaken ELSE mistaken \cup {to}
        /\ sent' = {} /\ UNCHANGED <<policy, visible, clipPhase, requests>>

CopyText ==
    /\ clipPhase = "keys" /\ requests < MaxRequests /\ requests' = requests + 1
    /\ \E s \in Slots : s[1] = visible /\ Copy(s)
    /\ UNCHANGED <<policy, visible, decision, prompt, clipPhase, sent, agreed, mistaken>>

\* The batch is over; another tab may come on screen, by a click, a control
\* request or because all panes of this one are gone.
NextRound ==
    /\ clipPhase = "keys" /\ clipPhase' = "read" /\ visible' \in Tabs /\ sent' = {}
    /\ UNCHANGED <<policy, decision, held, ready, prompt, agreed, mistaken, requests>>

\* Requests of a program that is gone are nobody's.
Orphaned(q, s) == [i \in DOMAIN q |-> IF q[i].of = s THEN [q[i] EXCEPT !.of = Nobody] ELSE q[i]]

\* A new program's queues under the id of an old one's.
Renewed(s) ==
    /\ requests < MaxRequests /\ requests' = requests + 1
    /\ held' = [t \in Slots |-> IF t = s THEN <<>> ELSE Orphaned(held[t], s)]
    /\ ready' = [t \in Slots |-> IF t = s THEN <<>> ELSE Orphaned(ready[t], s)]
    /\ prompt' = [prompt EXCEPT !.queued = Orphaned(@, s)]
    /\ agreed' = agreed \ {s} /\ mistaken' = mistaken \ {s} /\ sent' = {}
    /\ UNCHANGED <<policy, visible, clipPhase>>

\* As Replace, but the new program inherits the answer given to the old one.
ReplaceInherits(s) == Renewed(s) /\ UNCHANGED decision

\* A pane is restarted under its id.
Replace(s) == Renewed(s) /\ decision' = [decision EXCEPT ![s] = "pending"]

\* A workspace is loaded: new panes everywhere, and the prompt is gone.
LoadWorkspace ==
    /\ clipPhase = "keys" /\ requests < MaxRequests /\ requests' = requests + 1
    /\ decision' = [s \in Slots |-> "pending"]
    /\ held' = [s \in Slots |-> <<>>] /\ ready' = [s \in Slots |-> <<>>]
    /\ prompt' = NoPrompt /\ agreed' = {} /\ mistaken' = {} /\ sent' = {}
    /\ UNCHANGED <<policy, visible, clipPhase>>

ClipNext ==
    \/ Emit \/ Forward \/ CopyText \/ NextRound \/ LoadWorkspace
    \/ \E key \in {"y", "n", "esc"} : Answer(key)
    \/ \E s \in Slots : Replace(s)

ClipSpec == ClipInit /\ [][ClipNext]_clipVars

-----------------------------------------------------------------------------
(* Properties *)

\* Clients only get clipboard requests the user has consented to: by her
\* configuration, by a yes to the request itself, or by a yes to a prompt for
\* this very pane that no later no has taken back, whatever was shown,
\* answered, restarted or put off in between.  Only a pane that was mistaken
\* for another, because its tab came on screen or its program was restarted
\* under an open prompt, escapes.
ClipboardConsent ==
    \A r \in sent : r.of \in Slots =>
        CASE r.kind = "set" -> \/ policy.set = "allow"
                               \/ policy.set = "confirm" /\ r.of \in agreed \cup mistaken
          [] r.kind = "get" -> policy.get = "allow"
          [] OTHER -> TRUE
=============================================================================
