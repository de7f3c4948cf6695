------------------------- MODULE TftpListenerProofs -------------------------
(***************************************************************************)
(* Ports and files of concurrent children, for any number of children,     *)
(* names and data ports.                                                   *)
(*                                                                         *)
(* Files first: a file is created by one child (Creates), a name denotes   *)
(* a file that was created for it, and a child that got past the check     *)
(* never meets an old file, since new names never come to denote one.      *)
(* While no two children have had one file of a name open for writing      *)
(* (Twice), the name denotes the file of whichever upload is open or       *)
(* complete (UploadsSound): to open a second file the name must have been  *)
(* free, and only the child that had it open can have freed it.            *)
(***************************************************************************)
EXTENDS TftpListener, SequenceTheorems, TLAPS

Writer(c) == children[c].op = "WRQ"

Creates(k, name) == k \in Child /\ Writer(k) /\ children[k].file = k /\ children[k].name = name

Twice(name) ==
  \E d, e \in Child : /\ d # e /\ Writer(d) /\ Writer(e) /\ children[d].name = name
                      /\ children[d].file # 0 /\ children[d].file = children[e].file

FilesSound ==
  \A c \in Child :
    /\ children[c].file # 0 => children[c].pc \in {"open"} \cup Ended
    /\ children[c].pc = "checked" => Writer(c)
    /\ Writer(c) /\ children[c].pc \in {"open", "complete"} => children[c].file # 0
    /\ Writer(c) /\ children[c].file # 0 => Creates(children[c].file, children[c].name)

NamesSound == \A name \in Files : dir[name] \notin {0, Old} => Creates(dir[name], name)

OldSound ==
  /\ data[Old] = Old
  /\ \A c \in Child : Writer(c) /\ children[c].pc \in {"checked", "open"} => dir[children[c].name] # Old

UploadsSound ==
  \A c \in Child : Writer(c) /\ children[c].pc \in {"open", "complete"} =>
    \/ /\ dir[children[c].name] = children[c].file
       /\ children[c].pc = "complete" => data[children[c].file] = c
    \/ Twice(children[c].name)

Facts == FilesSound /\ NamesSound /\ OldSound /\ UploadsSound

PortsAbove == next_port > start_port /\ \A c \in Child : children[c].port > start_port

Pcs == {"forked"} \cup Alive \cup Ended

-----------------------------------------------------------------------------
LEMMA FieldTypes ==
  ASSUME TypeOK, NEW c \in Child
  PROVE  /\ children[c].op \in {"RRQ", "WRQ"} /\ children[c].name \in Files
         /\ children[c].port \in Nat /\ children[c].pc \in Pcs
         /\ children[c].file \in 0 .. Old /\ c \in File /\ c \in 0 .. Old /\ c # Old
         /\ c \in Nat \ {0}
<1>1. children[c] \in ChildRecord
  BY DEF TypeOK, Child
<1>2. MaxChildren \in Nat /\ c \in 1 .. MaxChildren /\ Old = MaxChildren + 1
  BY ListenerAssumption DEF Old, Child, TypeOK
<1>3. /\ children[c].op \in {"RRQ", "WRQ"} /\ children[c].name \in Files
      /\ children[c].port \in Nat /\ children[c].file \in 0 .. Old
      /\ children[c].pc \in Pcs
  BY <1>1, Zenon DEF ChildRecord, Pcs
<1>4. c \in File /\ c \in 0 .. Old /\ c # Old /\ c \in Nat \ {0}
  BY <1>2 DEF File
<1> QED
  BY <1>3, <1>4

(* What the two ways to change a child's record leave as it was.           *)
Kept(c) ==
  /\ children' \in Seq(ChildRecord) /\ Len(children') = Len(children)
  /\ \A d \in Child \ {c} : children'[d] = children[d]
  /\ children'[c].op = children[c].op /\ children'[c].name = children[c].name
  /\ children'[c].port = children[c].port

LEMMA MoveEffect ==
  ASSUME TypeOK, NEW c \in Child, NEW pc \in Pcs, Move(c, pc)
  PROVE  Kept(c) /\ children'[c].pc = pc /\ children'[c].file = children[c].file
<1>1. children \in Seq(ChildRecord) /\ children[c] \in ChildRecord
  BY DEF TypeOK, Child
<1>2. children' = [children EXCEPT ![c] = [children[c] EXCEPT !.pc = pc]]
  BY DEF Move
<1>3. /\ [children[c] EXCEPT !.pc = pc] \in ChildRecord
      /\ [children[c] EXCEPT !.pc = pc].op = children[c].op
      /\ [children[c] EXCEPT !.pc = pc].name = children[c].name
      /\ [children[c] EXCEPT !.pc = pc].port = children[c].port
      /\ [children[c] EXCEPT !.pc = pc].file = children[c].file
      /\ [children[c] EXCEPT !.pc = pc].pc = pc
  BY <1>1 DEF ChildRecord, Pcs
<1> DEFINE after == [children[c] EXCEPT !.pc = pc]
<1> HIDE DEF after, ChildRecord
<1>4. children' = [children EXCEPT ![c] = after] /\ after \in ChildRecord
  BY <1>2, <1>3 DEF after
<1>5. children' \in Seq(ChildRecord) /\ Len(children') = Len(children) /\ children'[c] = after
      /\ \A d \in Child \ {c} : children'[d] = children[d]
  BY <1>1, <1>4 DEF Child
<1> QED
  BY <1>3, <1>5 DEF Kept, after

LEMMA OpenEffect ==
  ASSUME TypeOK, NEW c \in Child, NEW file \in 0 .. Old, Open(c, file)
  PROVE  Kept(c) /\ children'[c].pc = "open" /\ children'[c].file = file
<1> DEFINE after == [op |-> children[c].op, name |-> children[c].name, port |-> children[c].port,
                     pc |-> "open", file |-> file]
<1>1. children \in Seq(ChildRecord) /\ children[c] \in ChildRecord
  BY DEF TypeOK, Child
<1>2. after \in ChildRecord
  BY <1>1 DEF ChildRecord, Alive
<1>3. children' = [children EXCEPT ![c] = after]
  BY DEF Open
<1>4. /\ after.op = children[c].op /\ after.name = children[c].name /\ after.port = children[c].port
      /\ after.pc = "open" /\ after.file = file
  OBVIOUS
<1> HIDE DEF after, ChildRecord
<1>5. children' \in Seq(ChildRecord) /\ Len(children') = Len(children) /\ children'[c] = after
      /\ \A d \in Child \ {c} : children'[d] = children[d]
  BY <1>1, <1>2, <1>3 DEF Child
<1> QED
  BY <1>4, <1>5 DEF Kept

(* A child that has got its file keeps it, so facts about creators and     *)
(* shared files stay true.                                                 *)
LEMMA FactsStay ==
  ASSUME TypeOK, NEW c \in Child, Kept(c),
         children'[c].file = children[c].file \/ children[c].file = 0
  PROVE  /\ Child' = Child /\ \A d \in Child : Writer(d)' <=> Writer(d)
         /\ \A d \in Child : children'[d].name = children[d].name
         /\ \A k \in Nat, name \in Files : k # 0 /\ Creates(k, name) => Creates(k, name)'
         /\ \A name \in Files : Twice(name) => Twice(name)'
<1>1. Child' = Child
  BY DEF Kept, Child
<1>2. \A d \in Child : (Writer(d)' <=> Writer(d)) /\ children'[d].name = children[d].name
  BY DEF Kept, Writer
<1>3. \A d \in Child : children[d].file # 0 => children'[d].file = children[d].file
  BY DEF Kept
<1> QED
  BY <1>1, <1>2, <1>3 DEF Creates, Twice

-----------------------------------------------------------------------------
LEMMA TypesInit == Init => TypeOK /\ PortsAbove
<1> SUFFICES ASSUME Init PROVE TypeOK /\ PortsAbove
  OBVIOUS
<1>1. MaxChildren \in Nat \ {0} /\ start_port \in Nat /\ Old \in Nat
  BY ListenerAssumption DEF Old
<1>2. children \in Seq(ChildRecord) /\ Len(children) = 0
  BY DEF Init
<1>3. Child = {}
  BY <1>2 DEF Child
<1>4. data \in [File -> 0 .. Old]
  BY <1>1 DEF Init, File
<1>5. dir \in [Files -> 0 .. Old]
  BY <1>1 DEF Init
<1>6. listening \in BOOLEAN /\ next_port = start_port + 1
  BY DEF Init
<1> QED
  BY <1>1, <1>2, <1>3, <1>4, <1>5, <1>6 DEF TypeOK, PortsAbove

LEMMA ListenEffect ==
  ASSUME TypeOK, NEW r \in Requests, Listen(r)
  PROVE  /\ children' \in Seq(ChildRecord) /\ Len(children') = Len(children) + 1
         /\ \A d \in Child : children'[d] = children[d]
         /\ children'[Len(children) + 1].op = r.op /\ children'[Len(children) + 1].name = r.name
         /\ children'[Len(children) + 1].port = next_port
         /\ children'[Len(children) + 1].pc = "forked" /\ children'[Len(children) + 1].file = 0
         /\ Child' = Child \cup {Len(children) + 1}
<1> DEFINE new == [op |-> r.op, name |-> r.name, port |-> next_port, pc |-> "forked", file |-> 0]
<1>1. next_port \in Nat /\ Old \in Nat
  BY ListenerAssumption DEF TypeOK, Old
<1>2. new \in ChildRecord
  BY <1>1 DEF ChildRecord, Requests
<1>3. children \in Seq(ChildRecord) /\ children' = Append(children, new)
  BY DEF TypeOK, Listen
<1>5. new.op = r.op /\ new.name = r.name /\ new.port = next_port /\ new.pc = "forked" /\ new.file = 0
  OBVIOUS
<1> HIDE DEF new, ChildRecord
<1>4. /\ children' \in Seq(ChildRecord) /\ Len(children') = Len(children) + 1
      /\ \A d \in 1 .. Len(children) : children'[d] = children[d]
      /\ children'[Len(children) + 1] = new
  BY <1>2, <1>3
<1> QED
  BY <1>3, <1>4, <1>5 DEF Child

(* Every step of a child changes its own record only, keeps its request    *)
(* and its port, and starts to hold the port only if nobody else does.     *)
LEMMA ChildKept ==
  ASSUME TypeOK, NEW c \in Child, ChildNext(c)
  PROVE  /\ Kept(c)
         /\ children'[c].pc \in Alive => children[c].pc \in Alive \/ ~InUse(children[c].port)
<1>1. children[c].file \in 0 .. Old /\ dir \in [Files -> 0 .. Old] /\ children[c].name \in Files
  BY FieldTypes DEF TypeOK
<1>2. Old \in Nat /\ c \in 0 .. Old
  BY ListenerAssumption, FieldTypes DEF Old
<1>3. ASSUME NEW pc \in Pcs, Move(c, pc), pc \in Alive => children[c].pc \in Alive \/ ~InUse(children[c].port)
      PROVE  Kept(c) /\ (children'[c].pc \in Alive => children[c].pc \in Alive \/ ~InUse(children[c].port))
  BY <1>3, MoveEffect
<1>4. ASSUME NEW file \in 0 .. Old, Open(c, file), children[c].pc \in Alive
      PROVE  Kept(c) /\ (children'[c].pc \in Alive => children[c].pc \in Alive \/ ~InUse(children[c].port))
  BY <1>4, OpenEffect
<1>5. CASE BindPort(c)
  BY <1>5, <1>3 DEF BindPort, Pcs, Alive, Ended
<1>6. CASE Refuse(c)
  BY <1>6, <1>3 DEF Refuse, Pcs, Alive, Ended
<1>7. CASE CheckExists(c)
  BY <1>7, <1>3 DEF CheckExists, Pcs, Alive, Ended
<1>8. CASE OpenForWriting(c)
  BY <1>8, <1>1, <1>2, <1>4 DEF OpenForWriting, Alive
<1>9. CASE OpenForReading(c)
  BY <1>9, <1>1, <1>3, <1>4 DEF OpenForReading, Pcs, Alive, Ended
<1>10. CASE UploadCompletes(c)
  BY <1>10, <1>3 DEF UploadCompletes, Pcs, Alive, Ended
<1>11. CASE UploadTimesOut(c)
  BY <1>11, <1>3 DEF UploadTimesOut, Pcs, Alive, Ended
<1>12. CASE UploadBreaks(c)
  BY <1>12, <1>3 DEF UploadBreaks, Pcs, Alive, Ended
<1>13. CASE DownloadEnds(c)
  BY <1>13, <1>3 DEF DownloadEnds, Pcs, Alive, Ended
<1> QED
  BY <1>5, <1>6, <1>7, <1>8, <1>9, <1>10, <1>11, <1>12, <1>13 DEF ChildNext

LEMMA TypesStep == TypeOK /\ PortsAbove /\ [Next]_vars => TypeOK' /\ PortsAbove'
<1> SUFFICES ASSUME TypeOK, PortsAbove, [Next]_vars PROVE TypeOK' /\ PortsAbove'
  OBVIOUS
<1>1. MaxChildren \in Nat \ {0} /\ start_port \in Nat /\ end_port \in Nat /\ Old \in Nat
  BY ListenerAssumption DEF Old
<1>2. CASE UNCHANGED vars
  BY <1>2 DEF vars, TypeOK, PortsAbove, Child
<1>3. CASE ForkFails
  BY <1>3 DEF ForkFails, TypeOK, PortsAbove, Child
<1>4. ASSUME NEW r \in Requests, Listen(r) PROVE TypeOK' /\ PortsAbove'
  <2>1. next_port' = start_port + 1 \/ next_port' \in start_port + 1 .. end_port
    BY <1>1, <1>4 DEF TypeOK, Listen, FollowingPort
  <2>2. Len(children') <= MaxChildren
    BY <1>1, <1>4, ListenEffect DEF Listen, TypeOK
  <2>3. listening' \in BOOLEAN /\ dir' = dir /\ data' = data
    BY <1>4 DEF Listen, TypeOK
  <2>4. TypeOK'
    BY <1>4, <2>1, <2>2, <2>3, ListenEffect DEF TypeOK, File, Old
  <2> QED
    <3>1. next_port' > start_port /\ next_port \in Nat /\ next_port > start_port
      BY <1>1, <2>1 DEF TypeOK, PortsAbove
    <3>2. \A d \in Child' : children'[d].port > start_port
      BY <1>4, <3>1, ListenEffect DEF PortsAbove
    <3> QED
      BY <2>4, <3>1, <3>2 DEF PortsAbove
<1>5. ASSUME NEW c \in Child, ChildNext(c) PROVE TypeOK' /\ PortsAbove'
  <2>1. Kept(c) /\ Child' = Child
    BY <1>5, ChildKept DEF Kept, Child
  <2>2. UNCHANGED Shared
    BY <1>5 DEF ChildNext, BindPort, Refuse, CheckExists, OpenForWriting, OpenForReading, UploadCompletes,
                UploadTimesOut, UploadBreaks, DownloadEnds
  <2>3. /\ children[c].file \in 0 .. Old /\ children[c].name \in Files
        /\ c \in 0 .. Old /\ 0 \in 0 .. Old /\ dir[children[c].name] \in 0 .. Old
    BY <1>1, FieldTypes DEF TypeOK
  <2>4. dir' \in [Files -> 0 .. Old]
    BY <1>5, <2>3 DEF TypeOK, ChildNext, BindPort, Refuse, CheckExists, OpenForWriting, OpenForReading,
                      UploadCompletes, UploadTimesOut, UploadBreaks, DownloadEnds
  <2>5. data' \in [File -> 0 .. Old]
    BY <1>5, <2>3 DEF TypeOK, ChildNext, BindPort, Refuse, CheckExists, OpenForWriting, OpenForReading,
                      UploadCompletes, UploadTimesOut, UploadBreaks, DownloadEnds, Flush, FlushPart
  <2>6. TypeOK'
    BY <2>1, <2>2, <2>4, <2>5 DEF TypeOK, Kept, Shared, File, Old
  <2> QED
    BY <2>1, <2>2, <2>6 DEF PortsAbove, Kept, Shared
<1> QED
  BY <1>2, <1>3, <1>4, <1>5 DEF Next

(* Type correctness of the listener, and no child ever gets the listening  *)
(* port, wherever the range ends.                                          *)
THEOREM ListenerTypes == Spec => [](TypeOK /\ PortsAbove)
BY TypesInit, TypesStep, PTL DEF Spec

-----------------------------------------------------------------------------
(* A full range of ports is handed out before any port comes up again.     *)
Rotates ==
  /\ next_port \in start_port + 1 .. end_port
  /\ \A c \in Child :
       /\ children[c].port \in start_port + 1 .. end_port
       /\ Len(children) + 1 - c <= Round =>
            \/ next_port = children[c].port + (Len(children) + 1 - c)
            \/ next_port = children[c].port + (Len(children) + 1 - c) - Round
  /\ \A c, d \in Child : c < d /\ d < c + Round => children[c].port # children[d].port

LEMMA RotatesListen ==
  ASSUME TypeOK, Rotates, start_port < end_port, NEW r \in Requests, Listen(r)
  PROVE  Rotates'
<1> DEFINE n == Len(children) + 1
<1>1. start_port \in Nat /\ end_port \in Nat /\ Len(children) \in Nat /\ Round = end_port - start_port
  BY ListenerAssumption DEF TypeOK, Round
<1>2. /\ Len(children') = n /\ Child' = Child \cup {n} /\ children'[n].port = next_port
      /\ \A c \in Child : children'[c].port = children[c].port
  BY ListenEffect
<1>3. next_port' = (IF next_port = end_port THEN start_port + 1 ELSE next_port + 1)
      /\ next_port \in start_port + 1 .. end_port
  BY <1>1 DEF Rotates, Listen, FollowingPort
<1>4. \/ next_port' = next_port + 1
      \/ next_port = end_port /\ next_port' = next_port + 1 - Round
  BY <1>1, <1>3
<1>5. Child = 1 .. Len(children) /\ Child' = 1 .. n
  BY <1>2 DEF Child
<1>6. ASSUME NEW c \in Child, n + 1 - c <= Round
      PROVE  \/ next_port' = children[c].port + (n + 1 - c)
             \/ next_port' = children[c].port + (n + 1 - c) - Round
  <2>1. children[c].port \in start_port + 1 .. end_port
    BY DEF Rotates
  <2>2. \/ next_port = children[c].port + (n - c)
        \/ next_port = children[c].port + (n - c) - Round
    BY <1>1, <1>5, <1>6 DEF Rotates
  <2>3. PICK k \in Nat : k = n - c /\ k + 1 <= Round
    BY <1>1, <1>5, <1>6
  <2>4. PICK p \in Nat : p = children[c].port /\ p \in start_port + 1 .. end_port
    BY <1>1, <2>1
  <2>5. next_port = p + k \/ next_port = p + k - Round
    BY <2>2, <2>3, <2>4
  <2>6. next_port' = p + (k + 1) \/ next_port' = p + (k + 1) - Round
    <3>1. Round \in Int /\ next_port \in Int /\ (next_port = end_port => next_port = p + k)
      BY <1>1, <1>3, <2>3, <2>4, <2>5
    <3>2. k \in Int /\ p \in Int
      BY <2>3, <2>4
    <3>3. CASE next_port = p + k
      BY <1>4, <3>1, <3>2, <3>3
    <3>4. CASE next_port = p + k - Round /\ next_port' = next_port + 1
      BY <3>1, <3>2, <3>4
    <3> QED
      BY <1>4, <2>5, <3>1, <3>3, <3>4
  <2>7. n + 1 - c = k + 1
    BY <1>1, <1>5, <2>3
  <2> QED
    BY <2>4, <2>6, <2>7
<1>7. ASSUME NEW c \in Child, n < c + Round PROVE children[c].port # next_port
  <2>1. \/ next_port = children[c].port + (n - c)
        \/ next_port = children[c].port + (n - c) - Round
    BY <1>1, <1>5, <1>7 DEF Rotates
  <2>2. children[c].port \in Int
    BY <1>1 DEF Rotates
  <2> QED
    BY <1>1, <1>5, <1>7, <2>1, <2>2
<1>8. ASSUME NEW c \in Child'
      PROVE  /\ children'[c].port \in start_port + 1 .. end_port
             /\ n + 1 - c <= Round =>
                  \/ next_port' = children'[c].port + (n + 1 - c)
                  \/ next_port' = children'[c].port + (n + 1 - c) - Round
  <2>1. CASE c \in Child
    BY <1>2, <1>6, <2>1 DEF Rotates
  <2>2. CASE c = n
    BY <1>1, <1>2, <1>3, <1>4, <2>2
  <2> QED
    BY <1>2, <2>1, <2>2
<1>9. ASSUME NEW c \in Child', NEW d \in Child', c < d, d < c + Round
      PROVE  children'[c].port # children'[d].port
  <2>1. c \in Child
    BY <1>1, <1>5, <1>9
  <2>2. CASE d \in Child
    BY <1>2, <1>9, <2>1, <2>2 DEF Rotates
  <2>3. CASE d = n
    BY <1>2, <1>7, <1>9, <2>1, <2>3
  <2> QED
    BY <1>2, <2>2, <2>3
<1>10. next_port' \in start_port + 1 .. end_port
  BY <1>1, <1>3
<1> QED
  BY <1>1, <1>2, <1>8, <1>9, <1>10 DEF Rotates, Round

(* The steps of the children change neither ports nor next_port.           *)
LEMMA RotatesQuiet ==
  ASSUME TypeOK, Rotates, NEW c \in Child, ChildNext(c)
  PROVE  Rotates'
<1>1. Kept(c) /\ Child' = Child /\ Len(children') = Len(children)
  BY ChildKept DEF Kept, Child
<1>2. \A d \in Child : children'[d].port = children[d].port
  BY <1>1 DEF Kept
<1>3. next_port' = next_port
  BY DEF ChildNext, BindPort, Refuse, CheckExists, OpenForWriting, OpenForReading, UploadCompletes,
         UploadTimesOut, UploadBreaks, DownloadEnds, Shared
<1>4. Round' = Round
  BY DEF Round
<1>5. \A d \in Child : children'[d].port \in start_port + 1 .. end_port
  BY <1>2 DEF Rotates
<1>6. ASSUME NEW d \in Child, Len(children) + 1 - d <= Round
      PROVE  \/ next_port' = children'[d].port + (Len(children) + 1 - d)
             \/ next_port' = children'[d].port + (Len(children) + 1 - d) - Round
  BY <1>2, <1>3, <1>6 DEF Rotates
<1>7. ASSUME NEW d \in Child, NEW e \in Child, d < e, e < d + Round
      PROVE  children'[d].port # children'[e].port
  BY <1>2, <1>7 DEF Rotates
<1>8. next_port' \in start_port + 1 .. end_port
  BY <1>3 DEF Rotates
<1> QED
  BY <1>1, <1>4, <1>5, <1>6, <1>7, <1>8 DEF Rotates

LEMMA RotatesAlways == Spec => [](start_port < end_port => Rotates)
<1>1. Init => (start_port < end_port => Rotates)
  <2> SUFFICES ASSUME Init, start_port < end_port PROVE Rotates
    OBVIOUS
  <2>1. Child = {} /\ next_port = start_port + 1
    BY DEF Init, Child
  <2> QED
    BY <2>1, ListenerAssumption DEF Rotates
<1>2. TypeOK /\ (start_port < end_port => Rotates) /\ [Next]_vars => (start_port < end_port => Rotates)'
  <2> SUFFICES ASSUME TypeOK, Rotates, start_port < end_port, [Next]_vars PROVE Rotates'
    OBVIOUS
  <2>1. CASE UNCHANGED vars \/ ForkFails
    BY <2>1 DEF vars, ForkFails, Rotates, Child, Round
  <2>2. ASSUME NEW r \in Requests, Listen(r) PROVE Rotates'
    BY <2>2, RotatesListen
  <2>3. ASSUME NEW c \in Child, ChildNext(c) PROVE Rotates'
    BY <2>3, RotatesQuiet
  <2> QED
    BY <2>1, <2>2, <2>3 DEF Next
<1> QED
  BY <1>1, <1>2, ListenerTypes, PTL DEF Spec

(* Only a bind that fails drops a request.                                 *)
LEMMA DropIsBind ==
  ASSUME TypeOK, NEW e \in Child, ChildNext(e), NEW c \in Child,
         children[c].pc = "forked", children'[c].pc = "dropped"
  PROVE  c = e /\ ~(children[c].port <= end_port /\ ~InUse(children[c].port))
<1>1. c = e
  <2>1. \A d \in Child \ {e} : children'[d] = children[d]
    BY ChildKept DEF Kept
  <2> QED
    BY <2>1
<1>2. BindPort(c)
  <2>1. ASSUME NEW pc \in Pcs, Move(c, pc) PROVE pc = "dropped"
    BY <2>1, MoveEffect
  <2>2. ASSUME NEW file \in 0 .. Old, Open(c, file) PROVE FALSE
    BY <2>2, OpenEffect
  <2>3. /\ "refused" \in Pcs /\ "checked" \in Pcs /\ "complete" \in Pcs /\ "failed" \in Pcs
    BY DEF Pcs, Alive, Ended
  <2>4. c \in 0 .. Old /\ children[c].name \in Files /\ dir \in [Files -> 0 .. Old]
    BY FieldTypes DEF TypeOK
  <2> QED
    BY <1>1, <2>1, <2>2, <2>3, <2>4 DEF ChildNext, Refuse, CheckExists, OpenForWriting, OpenForReading,
       UploadCompletes, UploadTimesOut, UploadBreaks, DownloadEnds
<1>3. ~Move(c, "bound")
  BY MoveEffect DEF Pcs, Alive
<1> QED
  BY <1>1, <1>2, <1>3 DEF BindPort

LEMMA DropStep ==
  ASSUME TypeOK, PortsAbove, Rotates, [Next]_vars, start_port < end_port, NEW c \in Child,
         children[c].pc = "forked", children'[c].pc = "dropped"
  PROVE  \E d \in Child : children[d].pc \in Alive /\ (d + Round <= c \/ c + Round <= d)
<1>1. PICK e \in Child : ChildNext(e)
  <2>1. CASE UNCHANGED vars \/ ForkFails
    BY <2>1 DEF vars, ForkFails
  <2>2. ASSUME NEW r \in Requests, Listen(r) PROVE FALSE
    BY <2>2, ListenEffect
  <2> QED
    BY <2>1, <2>2 DEF Next
<1>2. ~(children[c].port <= end_port /\ ~InUse(children[c].port))
  BY <1>1, DropIsBind
<1>3. /\ start_port \in Nat /\ end_port \in Nat /\ Round \in Int
      /\ children[c].port \in start_port + 1 .. end_port
  BY ListenerAssumption DEF Rotates, Round
<1>4. PICK d \in Child : children[d].port = children[c].port /\ children[d].pc \in Alive
  BY <1>2, <1>3 DEF InUse
<1>5. c # d
  BY <1>4 DEF Alive
<1>6. c \in Nat /\ d \in Nat
  BY DEF Child
<1>7. ~(c < d /\ d < c + Round) /\ ~(d < c /\ c < d + Round)
  BY <1>4 DEF Rotates
<1> QED
  BY <1>3, <1>4, <1>5, <1>6, <1>7

(* Whatever the range of data ports and however often it wraps: who gets   *)
(* no answer because bind failed (handle_request) was turned away by a     *)
(* transfer that began a whole round of the ports before it or after it.   *)
THEOREM ListenerDrops == Spec => DropNeedsRival
<1>1. TypeOK /\ PortsAbove /\ (start_port < end_port => Rotates) /\ [Next]_vars =>
        [\A c \in Child :
           /\ children[c].pc = "forked" /\ children'[c].pc = "dropped"
           /\ start_port < end_port
           => \E d \in Child :
                /\ children[d].pc \in Alive
                /\ d + Round <= c \/ c + Round <= d]_vars
  BY DropStep
<1> QED
  BY <1>1, ListenerTypes, RotatesAlways, PTL DEF Spec, DropNeedsRival

-----------------------------------------------------------------------------
(* A request: the new child has done nothing yet.                          *)
LEMMA ListenKeepsFacts ==
  ASSUME TypeOK, Facts, NEW r \in Requests, Listen(r)
  PROVE  Facts'
<1> DEFINE n == Len(children) + 1
<1>1. /\ n \notin Child /\ Child' = Child \cup {n}
      /\ \A d \in Child : children'[d] = children[d]
      /\ children'[n].pc = "forked" /\ children'[n].file = 0
  BY ListenEffect DEF Child, TypeOK
<1>2. dir' = dir /\ data' = data
  BY DEF Listen
<1> HIDE DEF n
<1>3. \A d \in Child : Writer(d)' <=> Writer(d)
  BY <1>1 DEF Writer
<1>4. \A k, name : Creates(k, name) => Creates(k, name)'
  BY <1>1, <1>3 DEF Creates
<1>5. \A name : Twice(name) => Twice(name)'
  BY <1>1, <1>3 DEF Twice
<1>6. FilesSound'
  BY <1>1, <1>3, <1>4 DEF Facts, FilesSound, Ended
<1>7. NamesSound'
  BY <1>2, <1>4 DEF Facts, NamesSound
<1>8. OldSound'
  BY <1>1, <1>2, <1>3 DEF Facts, OldSound
<1>9. UploadsSound'
  BY <1>1, <1>2, <1>3, <1>5 DEF Facts, UploadsSound
<1> QED
  BY <1>6, <1>7, <1>8, <1>9 DEF Facts

(* A step of a child that neither opens nor closes an upload.              *)
LEMMA QuietKeepsFacts ==
  ASSUME TypeOK, Facts, NEW c \in Child, Kept(c), dir' = dir, data' = data,
         children'[c].file = children[c].file \/ children[c].file = 0,
         children'[c].file # 0 => children'[c].pc \in {"open"} \cup Ended,
         Writer(c) => children'[c].file = children[c].file,
         Writer(c) => children'[c].pc \notin {"open", "complete"},
         children'[c].pc = "checked" => Writer(c) /\ dir[children[c].name] # Old
  PROVE  Facts'
<1>1. /\ Child' = Child /\ \A d \in Child : Writer(d)' <=> Writer(d)
      /\ \A d \in Child : children'[d].name = children[d].name
      /\ \A k \in Nat, name \in Files : k # 0 /\ Creates(k, name) => Creates(k, name)'
      /\ \A name \in Files : Twice(name) => Twice(name)'
  BY FactsStay
<1>2. \A d \in Child \ {c} : children'[d] = children[d]
  BY DEF Kept
<1>3. \A d \in Child : children[d].file \in Nat /\ children[d].name \in Files
  BY FieldTypes
<1>4. FilesSound'
  BY <1>1, <1>2, <1>3 DEF Facts, FilesSound
<1>5. NamesSound'
  <2>1. \A name \in Files : dir[name] \in Nat
    BY ListenerAssumption DEF TypeOK, Old
  <2> QED
    BY <1>1, <2>1 DEF Facts, NamesSound
<1>6. OldSound'
  <2>1. Writer(c) /\ children'[c].pc \in {"checked", "open"} => dir[children[c].name] # Old
    OBVIOUS
  <2> QED
    BY <1>1, <1>2, <2>1 DEF Facts, OldSound
<1>7. UploadsSound'
  BY <1>1, <1>2, <1>3 DEF Facts, UploadsSound
<1> QED
  BY <1>4, <1>5, <1>6, <1>7 DEF Facts

(* fopen for writing: a free name gets a file of its own; under a name     *)
(* that is taken, the child that created its file is another writer.       *)
LEMMA OpenForWritingKeepsFacts ==
  ASSUME TypeOK, Facts, NEW c \in Child, OpenForWriting(c)
  PROVE  Facts'
<1> PICK name \in Files : name = children[c].name
  BY FieldTypes
<1> PICK file \in 0 .. Old : file = IF dir[name] = 0 THEN c ELSE dir[name]
  BY FieldTypes DEF TypeOK
<1>1. /\ dir[name] \in 0 .. Old /\ Old \in Nat /\ c \in 0 .. Old /\ c # Old
      /\ c # 0 /\ c \in Nat
  BY FieldTypes, ListenerAssumption DEF TypeOK, Old
<1>2. children[c].pc = "checked" /\ Writer(c) /\ children[c].file = 0 /\ dir[name] # Old
  BY DEF OpenForWriting, Facts, FilesSound, OldSound, Ended
<1>3. /\ dir' = [dir EXCEPT ![name] = file] /\ data' = [data EXCEPT ![file] = 0]
      /\ Open(c, file)
  BY DEF OpenForWriting
<1>4. file \in 0 .. Old /\ file # 0 /\ file # Old /\ file \in Nat
  BY <1>1, <1>2
<1>5. dir[name] # 0 => file # c /\ Creates(file, name)
  BY <1>1, <1>2 DEF Facts, NamesSound, Creates
<1>6. dir[name] = 0 => file = c
  OBVIOUS
<1>7. Kept(c) /\ children'[c].pc = "open" /\ children'[c].file = file
  BY <1>3, <1>4, OpenEffect
<1>8. /\ Child' = Child /\ \A d \in Child : Writer(d)' <=> Writer(d)
      /\ \A d \in Child : children'[d].name = children[d].name
      /\ \A k \in Nat, f \in Files : k # 0 /\ Creates(k, f) => Creates(k, f)'
      /\ \A f \in Files : Twice(f) => Twice(f)'
  BY <1>2, <1>7, FactsStay
<1>9. \A d \in Child \ {c} : children'[d] = children[d]
  BY <1>7 DEF Kept
<1>10. \A d \in Child : children[d].file \in Nat /\ children[d].name \in Files
  BY FieldTypes
<1>11. Creates(file, name)'
  BY <1>2, <1>4, <1>5, <1>6, <1>7, <1>8, <1>1 DEF Creates
<1>12. dir'[name] = file /\ \A f \in Files \ {name} : dir'[f] = dir[f]
  BY <1>1, <1>3 DEF TypeOK
<1>13. \A i \in File \ {file} : data'[i] = data[i]
  BY <1>3 DEF TypeOK
<1>14. FilesSound'
  BY <1>1, <1>2, <1>4, <1>7, <1>8, <1>9, <1>10, <1>11 DEF Facts, FilesSound
<1>15. NamesSound'
  <2>1. \A f \in Files : dir[f] \in Nat
    BY ListenerAssumption DEF TypeOK, Old
  <2> QED
    BY <1>8, <1>11, <1>12, <2>1 DEF Facts, NamesSound
<1>16. OldSound'
  <2>1. data'[Old] = Old
    BY <1>1, <1>4, <1>13, ListenerAssumption DEF Facts, OldSound, File, Old
  <2>2. \A d \in Child : Writer(d) /\ children'[d].pc \in {"checked", "open"} => dir'[children[d].name] # Old
    BY <1>2, <1>4, <1>9, <1>10, <1>12 DEF Facts, OldSound
  <2> QED
    BY <1>8, <2>1, <2>2 DEF OldSound
<1>17. UploadsSound'
  <2>1. dir[name] # 0 => Twice(name)'
    BY <1>1, <1>2, <1>4, <1>5, <1>7, <1>8, <1>9 DEF Creates, Twice
  <2>2. ASSUME NEW d \in Child \ {c}, Writer(d), children[d].pc \in {"open", "complete"}
        PROVE  \/ /\ dir'[children[d].name] = children[d].file
                  /\ children[d].pc = "complete" => data'[children[d].file] = d
               \/ Twice(children[d].name)'
    <3>1. CASE children[d].name = name
      <4>1. CASE dir[name] # 0
        BY <1>8, <2>1, <3>1, <4>1
      <4>2. CASE dir[name] = 0
        BY <1>8, <1>10, <2>2, <3>1, <4>2 DEF Facts, UploadsSound, FilesSound
      <4> QED
        BY <4>1, <4>2
    <3>2. CASE children[d].name # name
      <4> PICK mine \in Nat : mine = children[d].file
        BY <1>10
      <4>1. children[d].name = children[mine].name /\ mine \in Child
        BY <2>2 DEF Facts, FilesSound, Creates
      <4>2. mine # file /\ mine \in File
        BY <1>11, <1>8, <3>2, <4>1, FieldTypes DEF Creates
      <4>3. dir'[children[d].name] = dir[children[d].name] /\ data'[children[d].file] = data[children[d].file]
        BY <1>10, <1>12, <1>13, <3>2, <4>2
      <4> QED
        BY <1>8, <1>10, <2>2, <4>3 DEF Facts, UploadsSound
    <3> QED
      BY <3>1, <3>2
  <2>3. dir'[children[c].name] = children'[c].file
    BY <1>7, <1>12
  <2> QED
    BY <1>7, <1>8, <1>9, <2>2, <2>3 DEF UploadsSound
<1> QED
  BY <1>14, <1>15, <1>16, <1>17 DEF Facts

(* fclose, with or without the remove: a file or a name can only be        *)
(* changed under another upload if both had it open.                       *)
LEMMA CloseKeepsFacts ==
  ASSUME TypeOK, Facts, NEW c \in Child, UploadCompletes(c) \/ UploadTimesOut(c) \/ UploadBreaks(c)
  PROVE  Facts'
<1> PICK name \in Files : name = children[c].name
  BY FieldTypes
<1> PICK file \in 0 .. Old : file = children[c].file
  BY FieldTypes
<1>1. /\ c # Old /\ c # 0 /\ c \in Nat /\ Old \in Nat \ {0} /\ Old \in File
      /\ children[c].pc = "open" /\ Writer(c)
  BY FieldTypes, ListenerAssumption
     DEF UploadCompletes, UploadTimesOut, UploadBreaks, Writer, Old, File
<1>2. file # 0 /\ Creates(file, name)
  BY <1>1 DEF Facts, FilesSound
<1>3. file \in File /\ file # Old
  BY <1>2, FieldTypes DEF Creates
<1>4. /\ Kept(c) /\ children'[c].file = children[c].file
      /\ children'[c].pc \in {"complete", "failed"}
  BY MoveEffect DEF UploadCompletes, UploadTimesOut, UploadBreaks, Pcs, Ended
<1>5. /\ \A i \in File \ {file} : data'[i] = data[i]
      /\ children'[c].pc = "complete" => data'[file] = c \/ ~Alone(c)
  BY <1>3, MoveEffect
     DEF UploadCompletes, UploadTimesOut, UploadBreaks, Flush, FlushPart, TypeOK, Pcs, Ended
<1>6. /\ \A f \in Files \ {name} : dir'[f] = dir[f]
      /\ dir'[name] = dir[name] \/ (dir'[name] = 0 /\ children'[c].pc = "failed")
  BY MoveEffect DEF UploadCompletes, UploadTimesOut, UploadBreaks, TypeOK, Pcs, Ended
<1>7. /\ Child' = Child /\ \A d \in Child : Writer(d)' <=> Writer(d)
      /\ \A d \in Child : children'[d].name = children[d].name
      /\ \A k \in Nat, f \in Files : k # 0 /\ Creates(k, f) => Creates(k, f)'
      /\ \A f \in Files : Twice(f) => Twice(f)'
  BY <1>4, FactsStay
<1>8. \A d \in Child \ {c} : children'[d] = children[d]
  BY <1>4 DEF Kept
<1>9. \A d \in Child : children[d].file \in Nat /\ children[d].name \in Files
  BY FieldTypes
<1>10. FilesSound'
  BY <1>1, <1>2, <1>4, <1>7, <1>8, <1>9 DEF Facts, FilesSound, Ended
<1>11. NamesSound'
  <2>1. \A f \in Files : dir[f] \in Nat
    BY ListenerAssumption DEF TypeOK, Old
  <2> QED
    BY <1>6, <1>7, <2>1 DEF Facts, NamesSound
<1>12. OldSound'
  <2>1. data'[Old] = Old
    BY <1>1, <1>3, <1>5 DEF Facts, OldSound
  <2>2. \A d \in Child : Writer(d) /\ children'[d].pc \in {"checked", "open"} => dir'[children[d].name] # Old
    BY <1>1, <1>4, <1>6, <1>8, <1>9 DEF Facts, OldSound
  <2> QED
    BY <1>7, <2>1, <2>2 DEF OldSound
<1>13. UploadsSound'
  <2>1. ASSUME NEW d \in Child \ {c}, Writer(d), children[d].file = file
        PROVE  Twice(name) /\ Twice(children[d].name)
    <3>1. children[d].name = name
      BY <1>2, <1>9, <2>1 DEF Facts, FilesSound, Creates
    <3> QED
      BY <1>1, <1>2, <2>1, <3>1 DEF Twice
  <2>2. ASSUME NEW d \in Child \ {c}, Writer(d), children[d].pc \in {"open", "complete"}
        PROVE  \/ /\ dir'[children[d].name] = children[d].file
                  /\ children[d].pc = "complete" => data'[children[d].file] = d
               \/ Twice(children[d].name)'
    <3>1. CASE children[d].file = file
      BY <1>7, <1>9, <2>1, <2>2, <3>1
    <3>2. CASE children[d].file # file
      <4>1. children[d].file \in File
        BY <2>2, <1>9, FieldTypes DEF Facts, FilesSound, Creates
      <4>2. data'[children[d].file] = data[children[d].file]
        BY <1>5, <3>2, <4>1
      <4>3. CASE Twice(children[d].name)
        BY <1>7, <1>9, <4>3
      <4>4. CASE ~Twice(children[d].name)
        <5>1. /\ dir[children[d].name] = children[d].file
              /\ children[d].pc = "complete" => data[children[d].file] = d
          BY <2>2, <4>4 DEF Facts, UploadsSound
        <5>2. children[d].name # name
          BY <1>1, <3>2, <4>4, <5>1 DEF Facts, UploadsSound
        <5> QED
          BY <1>6, <1>9, <4>2, <5>1, <5>2
      <4> QED
        BY <4>3, <4>4
    <3> QED
      BY <3>1, <3>2
  <2>3. ASSUME children'[c].pc = "complete"
        PROVE  (dir'[name] = file /\ data'[file] = c) \/ Twice(name)'
    <3>1. CASE Twice(name)
      BY <1>7, <3>1
    <3>2. CASE ~Twice(name)
      <4>1. dir[name] = file
        BY <1>1, <3>2 DEF Facts, UploadsSound
      <4>2. Alone(c)
        BY <2>1, <3>2 DEF Alone, Writer
      <4> QED
        BY <1>5, <1>6, <2>3, <4>1, <4>2
    <3> QED
      BY <3>1, <3>2
  <2> QED
    BY <1>4, <1>7, <1>8, <2>2, <2>3 DEF UploadsSound
<1> QED
  BY <1>10, <1>11, <1>12, <1>13 DEF Facts

LEMMA FactsStep == TypeOK /\ Facts /\ [Next]_vars => Facts'
<1> SUFFICES ASSUME TypeOK, Facts, [Next]_vars PROVE Facts'
  OBVIOUS
<1>1. CASE UNCHANGED <<children, dir, data>>
  BY <1>1 DEF Facts, FilesSound, NamesSound, OldSound, UploadsSound, Creates, Twice, Writer, Child
<1>2. ASSUME NEW r \in Requests, Listen(r) PROVE Facts'
  BY <1>2, ListenKeepsFacts
<1>3. ASSUME NEW c \in Child, ChildNext(c) PROVE Facts'
  <2>1. children[c].file \in Nat
    BY FieldTypes
  <2>2. ASSUME NEW pc \in Pcs \ {"open"}, Move(c, pc), dir' = dir, data' = data,
               children[c].file # 0 => pc \in Ended, Writer(c) => pc # "complete",
               pc = "checked" => Writer(c) /\ dir[children[c].name] # Old
        PROVE  Facts'
    BY <2>2, MoveEffect, QuietKeepsFacts
  <2>3. children[c].pc \in {"forked", "bound", "checked"} => children[c].file = 0
    BY DEF Facts, FilesSound, Ended
  <2>4. CASE BindPort(c)
    BY <2>2, <2>3, <2>4 DEF BindPort, Pcs, Alive, Ended
  <2>5. CASE Refuse(c)
    BY <2>2, <2>3, <2>5 DEF Refuse, Pcs, Alive, Ended
  <2>6. CASE CheckExists(c)
    BY <2>2, <2>3, <2>6, ListenerAssumption DEF CheckExists, Pcs, Alive, Ended, Writer, Old
  <2>7. CASE OpenForWriting(c)
    BY <2>7, OpenForWritingKeepsFacts
  <2>8. CASE OpenForReading(c)
    <3>1. ~Writer(c) /\ children[c].file = 0 /\ dir[children[c].name] \in 0 .. Old
      BY <2>3, <2>8, FieldTypes DEF OpenForReading, Writer, TypeOK
    <3>2. CASE dir[children[c].name] = 0
      BY <2>2, <2>8, <3>1, <3>2 DEF OpenForReading, Pcs, Alive, Ended
    <3>3. CASE dir[children[c].name] # 0
      <4>1. Kept(c) /\ children'[c].pc = "open"
        BY <2>8, <3>1, <3>3, OpenEffect DEF OpenForReading
      <4> QED
        BY <2>8, <3>1, <4>1, QuietKeepsFacts DEF OpenForReading
    <3> QED
      BY <3>2, <3>3
  <2>9. CASE DownloadEnds(c)
    BY <2>2, <2>9 DEF DownloadEnds, Pcs, Alive, Ended, Writer
  <2> QED
    BY <1>3, <2>4, <2>5, <2>6, <2>7, <2>8, <2>9, CloseKeepsFacts DEF ChildNext
<1> QED
  BY <1>1, <1>2, <1>3 DEF Next, vars, ForkFails

LEMMA FactsInit == Init => Facts
<1> SUFFICES ASSUME Init PROVE Facts
  OBVIOUS
<1>1. Child = {}
  BY DEF Init, Child
<1>2. data[Old] = Old /\ \A name \in Files : dir[name] \in {0, Old}
  BY ListenerAssumption DEF Init, File, Old
<1> QED
  BY <1>1, <1>2 DEF Facts, FilesSound, NamesSound, OldSound, UploadsSound

LEMMA ListenerFacts == Spec => [](TypeOK /\ Facts)
BY ListenerTypes, FactsInit, FactsStep, PTL DEF Spec

-----------------------------------------------------------------------------
(* However many requests for one name arrive together, a file that was     *)
(* there before the server started is neither replaced, written nor        *)
(* removed: the check before fopen is enough for that (handle_wrq).        *)
THEOREM ListenerOldFiles == Spec => OldFilesKept
<1>1. ASSUME TypeOK, Facts, Facts', [Next]_vars, NEW name \in Files, dir[name] = Old
      PROVE  dir'[name] = Old /\ data'[Old] = Old
  <2>1. data'[Old] = Old
    BY <1>1 DEF Facts, OldSound
  <2>2. CASE dir' = dir
    BY <1>1, <2>1, <2>2
  <2>3. ASSUME NEW c \in Child, OpenForWriting(c) \/ UploadTimesOut(c)
        PROVE  dir'[name] = Old
    <3>1. children[c].name # name
      <4>1. CASE OpenForWriting(c)
        BY <1>1, <4>1 DEF OpenForWriting, Facts, OldSound, FilesSound
      <4>2. CASE UploadTimesOut(c)
        BY <1>1, <4>2 DEF UploadTimesOut, Facts, OldSound, Writer
      <4> QED
        BY <2>3, <4>1, <4>2
    <3> QED
      BY <1>1, <2>3, <3>1 DEF OpenForWriting, UploadTimesOut, TypeOK
  <2> QED
    BY <1>1, <2>1, <2>2, <2>3
       DEF Next, vars, Listen, ForkFails, ChildNext, BindPort, Refuse, CheckExists, OpenForReading,
           UploadCompletes, UploadBreaks, DownloadEnds
<1>2. TypeOK /\ Facts /\ Facts' /\ [Next]_vars
        => \A name \in Files : dir[name] = Old => dir'[name] = Old /\ data'[Old] = Old
  BY <1>1
<1>3. TypeOK /\ Facts /\ Facts' /\ [Next]_vars
        => [\A name \in Files : dir[name] = Old => dir'[name] = Old /\ data'[Old] = Old]_vars
  BY <1>2
<1> QED
  BY <1>3, ListenerFacts, PTL DEF Spec, OldFilesKept

(* A completed upload is there, whole, unless two children have had one    *)
(* file of its name open for writing: neither downloads, nor uploads of    *)
(* other names, nor any timing of time-outs can harm it.                   *)
THEOREM ListenerLoss == Spec => []LossNeedsSharedFile
<1>1. ASSUME TypeOK, Facts, NEW c \in Completed
      PROVE  Intact(c) \/ Twice(children[c].name)
  <2>1. c \in Child /\ Writer(c) /\ children[c].pc = "complete"
    BY <1>1 DEF Completed, Writer
  <2>2. children[c].file # 0
    BY <1>1, <2>1 DEF Facts, FilesSound
  <2> QED
    BY <1>1, <2>1, <2>2 DEF Facts, UploadsSound, Intact
<1>2. TypeOK /\ Facts => LossNeedsSharedFile
  BY <1>1 DEF LossNeedsSharedFile, Twice, Writer
<1> QED
  BY <1>2, ListenerFacts, PTL
=============================================================================
