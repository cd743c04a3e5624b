----------------------------- MODULE SignalFeed -----------------------------
(***************************************************************************)
(* The relayer's commands for the signal client: signal-seed prints what   *)
(* the client is deployed with, relay-signal submits the newest proof of   *)
(* the public feed (bridge/relayer/src/signal.ts, index.ts).  A step maps  *)
(* the feed and the client to their successors.                            *)
(*                                                                         *)
(* A consensus state is the epoch it finalizes.  The requestor asks for    *)
(* one proof after the other, each from where the last one ends; provers   *)
(* fulfil them in whatever order.                                          *)
(***************************************************************************)
EXTENDS Naturals, Sequences, FiniteSetsExt, FiniteSets

CONSTANTS Limit,            \* requests on a page of the indexer
          MAX_EPOCH_GAP

None == 1000

Start == [requests |-> <<>>,        \* oldest first: the states of each proof
          fulfilled |-> {},         \* the indices of those that have one
          seed |-> None,            \* what signal-seed printed last
          client |-> None]          \* the state of the deployed client

When(guard, next) == IF guard THEN {next} ELSE {}

-----------------------------------------------------------------------------
(* The feed                                                                *)

Epoch(s) == IF s.requests = <<>> THEN 0 ELSE s.requests[Len(s.requests)].post

\* The feed asks for the next step of finality: mostly an epoch or two.
ask(s, step) ==
    {[s EXCEPT !.requests = Append(@, [pre |-> Epoch(s), post |-> Epoch(s) + step])]}

fulfil(s, i) == When(i \notin s.fulfilled, [s EXCEPT !.fulfilled = @ \cup {i}])

\* The newest requests, as many as a page has.
fetchSignalRequests(s) ==
    {i \in DOMAIN s.requests : i > Len(s.requests) - Limit}

\* The newest of them that is fulfilled; none is an error.
HasProof(s) == fetchSignalRequests(s) \cap s.fulfilled # {}
fetchLatestSignalProof(s) == s.requests[Max(fetchSignalRequests(s) \cap s.fulfilled)]

-----------------------------------------------------------------------------
(* The commands, and the contract                                          *)

\* The state before the newest proof.
signalSeed(s) ==
    When(HasProof(s), [s EXCEPT !.seed = fetchLatestSignalProof(s).pre])

\* __constructor, by hand, with what was printed.
deploy(s) ==
    When(s.seed # None /\ s.client = None, [s EXCEPT !.client = s.seed])

receives(client, proof) ==
    /\ proof.pre = client
    /\ proof.post - proof.pre <= MAX_EPOCH_GAP

\* A proof that is refused changes nothing.
relaySignal(s) ==
    When(/\ s.client # None
         /\ HasProof(s)
         /\ receives(s.client, fetchLatestSignalProof(s)),
         [s EXCEPT !.client = fetchLatestSignalProof(s).post])

-----------------------------------------------------------------------------
(***************************************************************************)
(* How far the signal client follows the feed, over every sequence of the  *)
(* feed's and the operator's steps with at most MaxRequests requests.      *)
(* MCBridge assumes the statements.                                        *)
(***************************************************************************)

CONSTANTS MaxRequests,
          Steps             \* the epochs that a proof may span

Feed(s) ==
    UNION ({ask(s, step) : step \in IF Len(s.requests) < MaxRequests THEN Steps ELSE {}}
           \cup {fulfil(s, i) : i \in DOMAIN s.requests})

Operator(s) == signalSeed(s) \cup deploy(s) \cup relaySignal(s)

Any(s) == Feed(s) \cup Operator(s)

Closure(from, Successors(_)) ==
    LET Explored[n \in Nat] ==
            IF n = 0 THEN [all |-> from, new |-> from]
            ELSE LET before == Explored[n - 1]
                     new == UNION {Successors(s) : s \in before.new} \ before.all
                 IN  [all |-> before.all \cup new, new |-> new]
        \* two steps for each request, and the deployment with its relays
    IN  Explored[4 * MaxRequests + 4].all

States == Closure({Start}, Any)

Newest(s) == fetchLatestSignalProof(s)
Deployed(s) == s.client # None /\ HasProof(s)

\* No relay and no later proof moves the client again.
Stuck(s) == \A t \in Closure({s}, Any) : t.client = s.client

-----------------------------------------------------------------------------
\* Proofs are fulfilled in the order they were asked for, no more are waited
\* for than a page holds, none spans too many epochs, the client is deployed
\* for the newest, and each is relayed before the feed goes on: then the client
\* accepts the proof it was seeded for, and is never left behind.
FollowsAPromptRelayer ==
    LET FeedGoesOn(s) ==
            UNION ((IF /\ Len(s.requests) < MaxRequests
                       /\ Len(s.requests) < Cardinality(s.fulfilled) + Limit
                    THEN {ask(s, 1)} ELSE {})
                   \cup {fulfil(s, i) : i \in {j \in DOMAIN s.requests :
                                                  s.fulfilled = 1 .. j - 1}})
        DeployFresh(s) ==
            IF signalSeed(s) = {s} THEN deploy(s) ELSE {}
        Prompt(s) ==
            signalSeed(s) \cup DeployFresh(s) \cup relaySignal(s)
            \cup (IF relaySignal(s) = {} THEN FeedGoesOn(s) ELSE {})
    IN  \A s \in Closure({Start}, Prompt) :
            /\ Deployed(s) => s.client \in {Newest(s).pre, Newest(s).post}
            /\ \A t \in DeployFresh(s) : relaySignal(t) # {}

\* Only the newest proof is ever relayed (relay-signal takes no epoch), though
\* index.ts:211 asks for the epochs in order: once a newer one than the next is
\* fulfilled, the client is where it is for good, whatever is relayed after.
BehindIsForGood(states) ==
    \A s \in states : Deployed(s) /\ Newest(s).pre > s.client => Stuck(s)

\* It comes to that with a relay after every proof: they may be fulfilled out
\* of order, and
OutOfOrderStops(states) ==
    \E s \in states :
        /\ s.client # None /\ s.client = s.requests[Max(s.fulfilled)].post
        /\ \E i \in DOMAIN s.requests : \E t \in fulfil(s, i) : Newest(t).pre > t.client

\* a proof may span more epochs than the client accepts at once.
LongStepStops(states) ==
    \A s \in states :
        /\ Deployed(s) /\ Newest(s).pre = s.client
        /\ Newest(s).post - s.client > MAX_EPOCH_GAP
        => Stuck(s)

\* A proof that comes when its request is off the page is never seen: no relay
\* follows from it, and the next one leaves the client behind.
OffThePageStops(states) ==
    \E s \in states, i \in 1 .. MaxRequests :
        /\ s.client # None /\ s.fulfilled = 1 .. i - 1 /\ i \in DOMAIN s.requests
        /\ s.client = s.requests[i].pre /\ i \notin fetchSignalRequests(s)
        /\ \A t \in fulfil(s, i) : Stuck(t)

\* A client that was deployed with an older seed than the newest proof's never
\* moves at all: there is no window between signal-seed and the first
\* relay-signal in which a proof may come in.
SeedAges(states) ==
    \A s \in states :
        s.seed # None /\ HasProof(s) /\ s.seed < Newest(s).pre =>
            \A t \in deploy(s) : Stuck(t)
=============================================================================
