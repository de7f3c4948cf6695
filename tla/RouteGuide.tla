----------------------------- MODULE RouteGuide -----------------------------
(***************************************************************************)
(* The route guide of lab8/route_guide_server.py: a gRPC server whose      *)
(* calls run on a pool of threads and share one list, saved_routes.        *)
(* Appending to the list and taking its length are atomic each (the        *)
(* interpreter sees to that), but not together.                            *)
(*                                                                         *)
(* A route is a list of its own and is saved by reference; it is known by  *)
(* the call that records it.  GetFeature, ListFeatures and RouteChat leave *)
(* nothing behind and are calls that hold a thread until they end.         *)
(***************************************************************************)
EXTENDS Integers, Sequences, FiniteSets, SequencesExt

CONSTANTS
  Recorders, Readers, Others,  \* the calls of RecordRoute, of RouteRetrieve and the rest
  max_workers,
  MaxPoints,                   \* bound: points in a route
  Ids                          \* identifiers asked for

ASSUME GuideAssumption ==
  /\ max_workers \in Nat \ {0} /\ MaxPoints \in Nat /\ Ids \subseteq Int
  /\ Recorders \cap Readers = {} /\ Others \cap (Recorders \cup Readers) = {}

Calls == Recorders \cup Readers \cup Others

VARIABLES
  saved_routes,
  waiting,    \* calls the pool has no thread for yet
  call,       \* progress of each call
  route,      \* RecordRoute: the points received, as their number
  route_id,   \* RecordRoute: the identifier in its answer
  asked       \* RouteRetrieve: the identifier, the route found and the points
              \* streamed, as their number

guide_vars == <<saved_routes, waiting, call, route, route_id, asked>>

NoRoute == "none"

GuideInit ==
  /\ saved_routes = << >> /\ waiting = << >>
  /\ call = [c \in Calls |-> "unsent"]
  /\ route = [c \in Recorders |-> 0]
  /\ route_id = [c \in Recorders |-> -1]
  /\ asked \in [Readers -> [id : Ids, found : {NoRoute}, sent : {0}]]
-----------------------------------------------------------------------------
(* The pool: a call waits for a thread, which it keeps until it ends.      *)
Running == {c \in Calls : call[c] \in {"running", "streamed", "saved", "streaming"}}

Request(c) ==
  /\ call[c] = "unsent"
  /\ call' = [call EXCEPT ![c] = "waiting"] /\ waiting' = Append(waiting, c)
  /\ UNCHANGED <<saved_routes, route, route_id, asked>>

Dispatch ==
  /\ waiting # << >> /\ Cardinality(Running) < max_workers
  /\ call' = [call EXCEPT ![Head(waiting)] = "running"] /\ waiting' = Tail(waiting)
  /\ UNCHANGED <<saved_routes, route, route_id, asked>>

(* A call that only reads and echoes ends, or a client cancels.            *)
Ends(c, how) ==
  /\ call' = [call EXCEPT ![c] = how]
  /\ UNCHANGED <<saved_routes, waiting, route, route_id, asked>>

Cancel(c) == call[c] \in {"running", "streaming"} /\ Ends(c, "cancelled")

(* A call that is cancelled before it has a thread leaves the queue.       *)
CancelWaiting(c) ==
  /\ call' = [call EXCEPT ![c] = "cancelled"]
  /\ \E i \in DOMAIN waiting : waiting[i] = c /\ waiting' = RemoveAt(waiting, i)
  /\ UNCHANGED <<saved_routes, route, route_id, asked>>

OtherEnds(c) == c \in Others /\ call[c] = "running" /\ Ends(c, "done")

-----------------------------------------------------------------------------
(* RecordRoute: the points of the stream, one at a time.                   *)
ReceivePoint(c) ==
  /\ call[c] = "running" /\ route[c] < MaxPoints
  /\ route' = [route EXCEPT ![c] = @ + 1]
  /\ UNCHANGED <<saved_routes, waiting, call, route_id, asked>>

StreamEnds(c) == call[c] = "running" /\ Ends(c, "streamed")

(* Faulty: the list is saved first and filled as the points come in.       *)
SaveEmpty(c) ==
  /\ \/ /\ call[c] = "running" /\ \A i \in DOMAIN saved_routes : saved_routes[i] # c
        /\ saved_routes' = Append(saved_routes, c)
        /\ UNCHANGED call
     \/ /\ call[c] = "streamed" /\ call' = [call EXCEPT ![c] = "saved"]
        /\ UNCHANGED saved_routes
  /\ UNCHANGED <<waiting, route, route_id, asked>>

(* The list of points is complete when it is saved.                        *)
Save(c) ==
  /\ call[c] = "streamed"
  /\ saved_routes' = Append(saved_routes, c)
  /\ call' = [call EXCEPT ![c] = "saved"]
  /\ UNCHANGED <<waiting, route, route_id, asked>>

(* The identifier in the answer, the last index: the list may have grown   *)
(* since.                                                                  *)
Summarise(c) ==
  /\ call[c] = "saved"
  /\ route_id' = [route_id EXCEPT ![c] = Len(saved_routes) - 1]
  /\ call' = [call EXCEPT ![c] = "done"]
  /\ UNCHANGED <<saved_routes, waiting, route, asked>>

(* RouteRetrieve: an identifier out of range gives an empty stream.        *)
Lookup(c) ==
  /\ call[c] = "running"
  /\ IF 0 <= asked[c].id /\ asked[c].id < Len(saved_routes)
       THEN /\ asked' = [asked EXCEPT ![c].found = saved_routes[asked[c].id + 1]]
            /\ call' = [call EXCEPT ![c] = "streaming"]
       ELSE call' = [call EXCEPT ![c] = "done"] /\ UNCHANGED asked
  /\ UNCHANGED <<saved_routes, waiting, route, route_id>>

Yield(c) ==
  /\ call[c] = "streaming"
  /\ IF asked[c].sent < route[asked[c].found]
       THEN asked' = [asked EXCEPT ![c].sent = @ + 1] /\ UNCHANGED call
       ELSE call' = [call EXCEPT ![c] = "done"] /\ UNCHANGED asked
  /\ UNCHANGED <<saved_routes, waiting, route, route_id>>

RecordRoute(c) == ReceivePoint(c) \/ StreamEnds(c) \/ Save(c) \/ Summarise(c)

GuideNext ==
  \/ \E c \in Calls : Request(c) \/ Cancel(c) \/ CancelWaiting(c) \/ OtherEnds(c)
  \/ Dispatch
  \/ \E c \in Recorders : RecordRoute(c)
  \/ \E c \in Readers : Lookup(c) \/ Yield(c)

GuideSpec == GuideInit /\ [][GuideNext]_guide_vars

-----------------------------------------------------------------------------
(* "The server-assigned ID of the recorded route": the identifier in the   *)
(* answer denotes the route of the call that it answers.                   *)
IdOwn ==
  \A c \in Recorders : call[c] = "done" => saved_routes[route_id[c] + 1] = c

(* RouteRetrieve streams from the saved list itself, not from a copy, while *)
(* other calls record: a stream that has ended gave every point of its     *)
(* route, and the route has not grown since.                               *)
RetrievedWhole ==
  \A c \in Readers :
    call[c] = "done" /\ asked[c].found # NoRoute => asked[c].sent = route[asked[c].found]
=============================================================================
