---------------------------- MODULE TftpListener ----------------------------
(***************************************************************************)
(* The TFTP server as a whole (hw1/tftp_server.c): the listening process   *)
(* that forks a child for every request and hands out data ports, and the  *)
(* children, which share the ports and the directory.  What a child does   *)
(* packet by packet is in TftpRead and TftpWrite; here a transfer is one   *)
(* step that ends it, and the steps around it that touch shared state are  *)
(* kept apart: bind, access, fopen, fclose, remove.                        *)
(*                                                                         *)
(* Children are never waited for, so each keeps its process slot for ever: *)
(* MaxChildren is the process limit, and reaching it ends the listener.    *)
(***************************************************************************)
EXTENDS Integers, Sequences

CONSTANTS
  Files,        \* file names
  start_port, end_port,
  MaxChildren   \* processes the listener may have created, zombies included

ASSUME ListenerAssumption ==
  /\ start_port \in Nat /\ end_port \in Nat
  /\ MaxChildren \in Nat \ {0}

VARIABLES
  listening,  \* is the listening process alive?
  next_port,
  children,   \* one record per fork, in order: request, port and progress
  dir,        \* file name -> the file it denotes, 0 for none
  data        \* file -> the child whose upload it holds in full, 0 for none

vars == <<listening, next_port, children, dir, data>>

Child == 1 .. Len(children)

(* A file is named after the child that created it; Old was there before   *)
(* the server started.                                                     *)
Old == MaxChildren + 1
File == 1 .. Old

Requests == [op : {"RRQ", "WRQ"}, name : Files]

Alive == {"bound", "checked", "open"}     \* holds its data port
Ended == {"complete", "failed", "refused", "dropped"}

ChildRecord ==
  [op : {"RRQ", "WRQ"}, name : Files, port : Nat, pc : {"forked"} \cup Alive \cup Ended,
   file : 0 .. Old]

TypeOK ==
  /\ listening \in BOOLEAN
  /\ next_port = start_port + 1 \/ next_port \in start_port + 1 .. end_port
  /\ children \in Seq(ChildRecord) /\ Len(children) <= MaxChildren
  /\ dir \in [Files -> 0 .. Old]
  /\ data \in [File -> 0 .. Old]

Init ==
  /\ listening = TRUE
  /\ next_port = start_port + 1
  /\ children = << >>
  /\ dir \in [Files -> {0, Old}]
  /\ \A f, g \in Files : dir[f] = Old /\ dir[g] = Old => f = g
  /\ data = [i \in File |-> IF i = Old THEN Old ELSE 0]

-----------------------------------------------------------------------------
(* Faulty: the last port of the range is never handed out. *)
FollowingPortShort(p) == IF p + 1 >= end_port THEN start_port + 1 ELSE p + 1

(* The port of the next child; whether it is in use is not asked. *)
FollowingPort(p) == IF p + 1 > end_port THEN start_port + 1 ELSE p + 1

(* A request datagram arrives and Fork makes a child for it. *)
Listen(r) ==
  /\ listening /\ Len(children) < MaxChildren
  /\ children' = Append(children, [op |-> r.op, name |-> r.name, port |-> next_port,
                                   pc |-> "forked", file |-> 0])
  /\ next_port' = FollowingPort(next_port)
  /\ UNCHANGED <<listening, dir, data>>

(* Fork fails once the process limit is reached, and the wrapper exits. *)
ForkFails ==
  /\ listening /\ Len(children) = MaxChildren
  /\ listening' = FALSE
  /\ UNCHANGED <<next_port, children, dir, data>>

-----------------------------------------------------------------------------
(* The kernel's rule for bind: another socket has the port. *)
InUse(p) ==
  \/ listening /\ p = start_port
  \/ \E c \in Child : children[c].port = p /\ children[c].pc \in Alive

Move(c, pc) == children' = [children EXCEPT ![c].pc = pc]

Open(c, file) ==
  children' = [children EXCEPT ![c] = [op |-> @.op, name |-> @.name, port |-> @.port,
                                       pc |-> "open", file |-> file]]

Shared == <<listening, next_port>>

(* The child binds its data port.  If it is taken the Bind wrapper exits,  *)
(* and if it is past the range handle_request returns: no answer is sent.  *)
BindPort(c) ==
  /\ children[c].pc = "forked"
  /\ IF children[c].port <= end_port /\ ~InUse(children[c].port)
       THEN Move(c, "bound")
       ELSE Move(c, "dropped")
  /\ UNCHANGED <<Shared, dir, data>>

(* An ERROR packet instead of a transfer: not octet mode, or fopen fails.  *)
Refuse(c) ==
  /\ children[c].pc \in {"bound", "checked"}
  /\ Move(c, "refused")
  /\ UNCHANGED <<Shared, dir, data>>

(* Faulty: the answer of access is ignored. *)
CheckExistsIgnored(c) ==
  /\ children[c].pc = "bound" /\ children[c].op = "WRQ"
  /\ Move(c, "checked")
  /\ UNCHANGED <<Shared, dir, data>>

(* access(filename, F_OK) in handle_wrq. *)
CheckExists(c) ==
  /\ children[c].pc = "bound" /\ children[c].op = "WRQ"
  /\ IF dir[children[c].name] = 0 THEN Move(c, "checked") ELSE Move(c, "refused")
  /\ UNCHANGED <<Shared, dir, data>>

(* fopen(filename, "wb"): a new file, or the existing one cut to nothing.  *)
OpenForWriting(c) ==
  /\ children[c].pc = "checked"
  /\ LET name == children[c].name
         file == IF dir[name] = 0 THEN c ELSE dir[name]
     IN  /\ dir' = [dir EXCEPT ![name] = file]
         /\ data' = [data EXCEPT ![file] = 0]
         /\ Open(c, file)
  /\ UNCHANGED Shared

(* fopen(filename, "rb") in handle_rrq. *)
OpenForReading(c) ==
  /\ children[c].pc = "bound" /\ children[c].op = "RRQ"
  /\ IF dir[children[c].name] = 0
       THEN Move(c, "refused")
       ELSE Open(c, dir[children[c].name])
  /\ UNCHANGED <<Shared, dir, data>>

(* Nobody but c has opened the file c is writing. *)
Alone(c) ==
  \A d \in Child \ {c} : children[d].op = "WRQ" => children[d].file # children[c].file

(* The last block is in and fclose flushes the upload.  If another child   *)
(* has the same file open, or cut it meanwhile, the result may be neither. *)
Flush(c) ==
  \E whole \in IF Alone(c) THEN {c} ELSE {0, c} :
    data' = [data EXCEPT ![children[c].file] = whole]

(* fclose of an unfinished upload overwrites as much as had arrived, which *)
(* may be nothing.                                                         *)
FlushPart(c) == data' \in {data, [data EXCEPT ![children[c].file] = 0]}

(* Faulty: the clean-up for timeouts also runs after the last block. *)
UploadCompletesRemoves(c) ==
  /\ children[c].pc = "open" /\ children[c].op = "WRQ"
  /\ Flush(c)
  /\ dir' = [dir EXCEPT ![children[c].name] = 0]
  /\ Move(c, "complete")
  /\ UNCHANGED Shared

UploadCompletes(c) ==
  /\ children[c].pc = "open" /\ children[c].op = "WRQ"
  /\ Flush(c)
  /\ Move(c, "complete")
  /\ UNCHANGED <<Shared, dir>>

(* The retries are used up: fclose, then remove by name. *)
UploadTimesOut(c) ==
  /\ children[c].pc = "open" /\ children[c].op = "WRQ"
  /\ FlushPart(c)
  /\ dir' = [dir EXCEPT ![children[c].name] = 0]
  /\ Move(c, "failed")
  /\ UNCHANGED Shared

(* A protocol error or a failing recv: what was written stays under the    *)
(* name.                                                                   *)
UploadBreaks(c) ==
  /\ children[c].pc = "open" /\ children[c].op = "WRQ"
  /\ FlushPart(c)
  /\ Move(c, "failed")
  /\ UNCHANGED <<Shared, dir>>

DownloadEnds(c) ==
  /\ children[c].pc = "open" /\ children[c].op = "RRQ"
  /\ \E outcome \in {"complete", "failed"} : Move(c, outcome)
  /\ UNCHANGED <<Shared, dir, data>>

ChildNext(c) ==
  \/ BindPort(c) \/ Refuse(c) \/ CheckExists(c) \/ OpenForWriting(c) \/ OpenForReading(c)
  \/ UploadCompletes(c) \/ UploadTimesOut(c) \/ UploadBreaks(c) \/ DownloadEnds(c)

Next == (\E r \in Requests : Listen(r)) \/ ForkFails \/ \E c \in Child : ChildNext(c)

Spec == Init /\ [][Next]_vars

-----------------------------------------------------------------------------
(* A request is dropped without an answer only if the transfer of another  *)
(* that came at least a whole round of the ports earlier or later is still *)
(* running: Round transfers in a row never get in each other's way, in     *)
(* whatever order their children come to bind.                             *)
Round == end_port - start_port

DropNeedsRival ==
  [][\A c \in Child :
       /\ children[c].pc = "forked" /\ children'[c].pc = "dropped"
       /\ start_port < end_port
       => \E d \in Child :
            /\ children[d].pc \in Alive
            /\ d + Round <= c \/ c + Round <= d]_vars

(* A file that was there before the server started is still there, as it   *)
(* was, after any requests in any order.                                   *)
OldFilesKept ==
  [][\A name \in Files : dir[name] = Old => dir'[name] = Old /\ data'[Old] = Old]_vars

Intact(c) == dir[children[c].name] # 0 /\ data[dir[children[c].name]] = c

Completed == {c \in Child : children[c].op = "WRQ" /\ children[c].pc = "complete"}

(* A completed upload can only be damaged or removed after two children    *)
(* have had one file open for writing; uploads of different names, and     *)
(* uploads and downloads, never harm each other.                           *)
LossNeedsSharedFile ==
  \A c \in Completed : Intact(c) \/
    \E d, e \in Child : /\ d # e /\ children[d].op = "WRQ" /\ children[e].op = "WRQ"
                        /\ children[d].name = children[c].name
                        /\ children[d].file # 0 /\ children[d].file = children[e].file

(* A completed upload is there, whole, from then on.                       *)
CompletedSurvives == \A c \in Completed : Intact(c)
=============================================================================
