---------------------------- MODULE SessionsProofs ----------------------------
(***************************************************************************)
(* Proofs about sessions, for any commands, names, VMs, daemons and        *)
(* failures, whichever commands share a session: every command stays where *)
(* its code can be; every VM that is not spoilt is accounted for, has one  *)
(* session and its daemon is recorded, and its record is removed only when *)
(* it is gone.                                                             *)
(***************************************************************************)
EXTENDS Sessions, TLAPS

-----------------------------------------------------------------------------
(* The inductive invariant *)

Setting == {"assign", "record", "spawn", "publish"}
Tearing == {"kill", "release", "drop", "keep"}
Using   == {"connect", "mark", "final", "prune", "forget"}
Named   == {"new", "run", "attach", "stop", "exec", "console"}

CmdType == [op : Command \cup {"none"}, pc : PC, name : Name \cup {"none"},
            s : Record \cup {NoRecord}, local : SUBSET (Name \X VM)]

\* Where the commands can be, and what they carry.
PlacedAt(op, pc) ==
  \/ op = "new" /\ pc \in Setting \cup Tearing
  \/ op = "run" /\ pc \in Setting \cup Tearing \cup Using
  \/ op = "attach" /\ pc \in {"find", "claim", "control", "spawn", "publish", "undo", "unclaim"}
  \/ op = "stop" /\ pc \in {"clear"} \cup Tearing
  \/ op = "release" /\ pc \in {"orphan", "release"}
  \/ op = "sync" /\ pc \in {"list", "prune", "forget"}
  \/ op \in {"exec", "console"} /\ pc \in Using
Placed(k) == k = Idle \/ PlacedAt(k.op, k.pc)

Carries(k) ==
  /\ k.op \in Named => k.name \in Name /\ k.local \subseteq {<<k.name, k.s.vm>>}
                       /\ (k.pc = "assign" => k.s = NoRecord)
                       /\ (k.pc # "assign" => k.s \in Record)
                       /\ (k.pc \in {"spawn", "find", "claim", "control", "record"}
                             => k.s.pid = None)
  /\ k.op = "release" => k.name = "none" /\ k.local = {} /\ k.s \in Record
  /\ k.op = "sync" => k.s = NoRecord /\ (k.pc = "forget" => k.name \in Name)

ShapeInv ==
  /\ \A c \in Slot : Placed(cmd[c]) /\ Carries(cmd[c]) /\ S(c).vm <= made
  /\ \A n \in Name : store[n].vm <= made

\* Nothing has the number of a VM to come.
FreshInv ==
  /\ \A c \in Slot : \A e \in cmd[c].local : e[2] <= made
  /\ \A p \in Pid : daemon[p] # NoDaemon => daemon[p].vm <= made

\* The places at which the record is the command's own.
Owning == {"spawn", "publish", "clear", "connect", "mark", "final", "control", "undo", "unclaim"}

\* What the store has for the session of a command.
FitsNamed(k, r, living, sound) ==
  /\ r.vm = k.s.vm \/ r.vm \notin sound
  /\ k.s.vm \in sound /\ (k.op = "stop" \/ k.pc \in Owning) => r.vm = k.s.vm
  /\ k.s.vm \in sound /\ k.pc \in {"find", "claim"} => r.vm # k.s.vm
  /\ k.pc = "drop" => k.s.vm \notin living
  /\ k.pc \in {"prune", "forget"} => k.s.vm \notin sound
FitsSync(k, st, living, sound) ==
  /\ \A e \in k.local :
       (st[e[1]].vm = e[2] \/ st[e[1]].vm \notin sound) /\ (k.pc # "list" => e[2] \notin living)
  /\ k.pc = "forget" => st[k.name].vm \notin sound
Fits(k, st, living, sound) ==
  /\ k.op \in Named => FitsNamed(k, st[k.name], living, sound)
  /\ k.op = "sync" => FitsSync(k, st, living, sound)

\* A VM that lives has one session, and who creates it gives it its own.
Mine(c) ==
  Creates(c) /\ S(c).vm \in Sound => \A n \in Name : store[n].vm = S(c).vm => n = Me(c)
VMInv ==
  /\ Met \subseteq spoilt
  /\ \A c \in Slot : Fits(cmd[c], store, vms, Sound) /\ Mine(c)
  /\ OneSessionPerVM

\* A VM without a session is known, or its creator holds it.
Accounted ==
  \A v \in Sound : v \in known \/ Claimed(v) \/ \E c \in Slot : Creates(c) /\ S(c).vm = v
Attaches(k) == k.op = "attach" => k.s.vm \in known \/ k.s.vm \notin Sound
KnownInv == Accounted /\ \A c \in Slot : Attaches(cmd[c])

\* The daemons: one that the record does not name, c will name or end.
Mends(c, p) ==
  /\ Me(c) = daemon[p].name /\ S(c).vm = daemon[p].vm /\ S(c).pid = p
  /\ \/ Creates(c) /\ cmd[c].pc \in {"publish", "kill"}
     \/ Op(c) = "attach" /\ cmd[c].pc \in {"publish", "undo"}
Watches(c) ==
  Op(c) \in Named /\ ~At(c, "find") =>
    \A p \in Pid : daemon[p] # NoDaemon /\ daemon[p].name = Me(c) /\ daemon[p].vm = S(c).vm =>
      \/ S(c).vm \in spoilt
      \/ ~At(c, "unclaim") /\ (p = S(c).pid \/ \E d \in Slot : Mends(d, p))
Minded(p) ==
  daemon[p] # NoDaemon =>
    /\ daemon[p].vm \in Sound => Serves(p)
    /\ Serves(p) =>
         \/ daemon[p].vm \in spoilt \/ store[daemon[p].name].pid = p
         \/ \E c \in Slot : Mends(c, p)
DaemonInv == (\A c \in Slot : Watches(c)) /\ (\A p \in Pid : Minded(p))

SessionsInv == TypeOK /\ ShapeInv /\ FreshInv /\ VMInv /\ KnownInv /\ DaemonInv
-----------------------------------------------------------------------------
(* Constants, records and the idle command *)

LEMMA Constants ==
  /\ MaxVMs \in Nat /\ MaxPids \in Nat /\ MaxTrouble \in Nat
  /\ "none" \notin Name /\ Command \subseteq AllCommands
  /\ VM \subseteq Nat \ {0} /\ Pid \subseteq Nat \ {0} /\ None = 0
  /\ NoRecord \notin Record /\ NoRecord.vm = None /\ NoRecord.pid = None
BY SessionsAssumption DEF VM, Pid, None, NoRecord, Record

LEMMA Records ==
  /\ \A r \in Record : r.vm \in VM /\ r.vm # None /\ r.pid \in Pid \cup {None} /\ r # NoRecord
  /\ \A r \in Record \cup {NoRecord} : /\ r.vm \in VM \cup {None} /\ r.pid \in Pid \cup {None}
                                       /\ r.vm \in Nat /\ r.pid \in Nat
                                       /\ (r.vm = None <=> r = NoRecord)
<1>1. \A r \in Record : r.vm \in VM /\ r.vm # None /\ r.pid \in Pid \cup {None} /\ r # NoRecord
  BY Constants DEF Record, NoRecord
<1>2. ASSUME NEW r \in Record \cup {NoRecord}
      PROVE  /\ r.vm \in VM \cup {None} /\ r.pid \in Pid \cup {None}
             /\ r.vm \in Nat /\ r.pid \in Nat /\ (r.vm = None <=> r = NoRecord)
  <2>1. CASE r = NoRecord
    BY <2>1, Constants
  <2>2. CASE r \in Record
    <3>1. r.vm \in VM /\ r.pid \in Pid \cup {None} /\ r.vm # None /\ r # NoRecord
      BY <1>1, <2>2
    <3>2. r.vm \in Nat
      BY <3>1, Constants
    <3>3. r.pid \in Nat
      <4>1. None \in Nat /\ Pid \subseteq Nat
        BY Constants
      <4> QED
        BY <3>1, <4>1
    <3> QED
      BY <3>1, <3>2, <3>3
  <2> QED
    BY <2>1, <2>2
<1> QED
  BY <1>1, <1>2

LEMMA IdleIs ==
  /\ Idle \in CmdType /\ Idle.op = "none" /\ Idle.pc = "idle" /\ Idle.name = "none"
  /\ Idle.s = NoRecord /\ Idle.local = {} /\ Placed(Idle) /\ Carries(Idle)
<1>1. /\ Idle.op = "none" /\ Idle.pc = "idle" /\ Idle.name = "none"
      /\ Idle.s = NoRecord /\ Idle.local = {}
  BY DEF Idle
<1>2. Idle \in CmdType
  BY DEF Idle, CmdType, PC
<1> QED
  BY <1>1, <1>2 DEF Placed, PlacedAt, Carries, Named
-----------------------------------------------------------------------------
(* Types *)

TypeInv == TypeOK /\ ShapeInv

LEMMA Held ==
  ASSUME TypeInv, NEW c \in Slot
  PROVE  /\ cmd[c] \in CmdType /\ Placed(cmd[c]) /\ Carries(cmd[c])
         /\ S(c) \in Record \cup {NoRecord} /\ S(c).vm \in Nat /\ S(c).vm <= made
         /\ cmd \in [Slot -> CmdType]
         /\ cmd[c].pc # "idle" => PlacedAt(Op(c), cmd[c].pc)
<1>1. cmd \in [Slot -> CmdType] /\ Placed(cmd[c]) /\ Carries(cmd[c]) /\ S(c).vm <= made
  BY DEF TypeInv, ShapeInv, TypeOK, CmdType
<1>2. cmd[c] \in CmdType /\ S(c) \in Record \cup {NoRecord}
  BY <1>1 DEF CmdType, S
<1>3. cmd[c].pc # "idle" => PlacedAt(Op(c), cmd[c].pc)
  BY <1>1, IdleIs DEF Placed, Op
<1> QED
  BY <1>1, <1>2, <1>3, Records

\* What TypeOK says of the rest of the state.
LEMMA State ==
  ASSUME TypeInv
  PROVE  /\ vms \subseteq 1..made /\ made \in 0..MaxVMs /\ made \in Nat /\ known \subseteq 1..made
         /\ store \in [Name -> Record \cup {NoRecord}] /\ \A n \in Name : store[n].vm <= made
         /\ daemon \in [Pid -> [name : Name, vm : VM, misses : 0..1] \cup {NoDaemon}]
         /\ spawned \in 0..MaxPids /\ trouble \in 0..MaxTrouble /\ spoilt \subseteq VM
         /\ (Trouble => trouble' \in 0..MaxTrouble) /\ (UNCHANGED trouble => trouble' \in 0..MaxTrouble)
<1>1. TypeOK /\ MaxTrouble \in Nat /\ MaxVMs \in Nat
  BY Constants DEF TypeInv, ShapeInv
<1>2. trouble \in 0..MaxTrouble
  BY <1>1 DEF TypeOK
<1>3. Trouble => trouble' \in 0..MaxTrouble
  BY <1>1, <1>2 DEF Trouble
<1> QED
  BY <1>1, <1>2, <1>3 DEF TypeOK, TypeInv, ShapeInv

LEMMA TypeStep ==
  ASSUME TypeInv, NEW c \in Slot, NEW k \in CmdType, cmd' = [cmd EXCEPT ![c] = k],
         Placed(k), Carries(k), k.s.vm <= made',
         made <= made', made' \in 0..MaxVMs, vms' \subseteq 1..made', known' \subseteq 1..made',
         store' \in [Name -> Record \cup {NoRecord}], \A n \in Name : store'[n].vm <= made',
         daemon' \in [Pid -> [name : Name, vm : VM, misses : 0..1] \cup {NoDaemon}],
         spawned' \in 0..MaxPids, trouble' \in 0..MaxTrouble, spoilt' \subseteq VM
  PROVE  TypeInv'
<1>1. cmd' \in [Slot -> CmdType] /\ cmd'[c] = k /\ \A d \in Slot \ {c} : cmd'[d] = cmd[d]
  BY Held
<1>2. TypeOK'
  BY <1>1 DEF TypeOK, CmdType
<1>3. ASSUME NEW d \in Slot
      PROVE  Placed(cmd'[d]) /\ Carries(cmd'[d]) /\ cmd'[d].s.vm <= made'
  <2>1. CASE d = c
    BY <1>1, <2>1
  <2>2. CASE d # c
    <3>1. cmd'[d] = cmd[d] /\ Placed(cmd[d]) /\ Carries(cmd[d])
          /\ cmd[d].s.vm <= made /\ cmd[d].s.vm \in Nat
      BY <1>1, <2>2, Held DEF S
    <3>2. made \in Nat /\ made' \in Nat
      BY State, Constants
    <3> QED
      BY <3>1, <3>2
  <2> QED
    BY <2>1, <2>2
<1> QED
  BY <1>2, <1>3 DEF TypeInv, ShapeInv, S

\* The command of Goes.
LEMMA Turn ==
  ASSUME TypeInv, NEW c \in Slot, NEW q \in PC, NEW s \in Record \cup {NoRecord}, Goes(c, q, s)
  PROVE  \E k \in CmdType : /\ cmd' = [cmd EXCEPT ![c] = k]
                            /\ \/ q = "idle" /\ k = Idle
                               \/ /\ q # "idle" /\ k.op = Op(c) /\ k.pc = q /\ k.name = Me(c)
                                  /\ k.s = s /\ k.local = cmd[c].local
<1>1. PICK j \in CmdType : j = cmd[c]
  BY Held
<1>2. CASE q = "idle"
  BY <1>2, IdleIs DEF Goes
<1>3. CASE q # "idle"
  <2>1. PICK k : k = [j EXCEPT !.pc = q, !.s = s]
    OBVIOUS
  <2>2. k \in CmdType /\ k.op = j.op /\ k.pc = q /\ k.name = j.name /\ k.s = s
        /\ k.local = j.local
    BY <2>1 DEF CmdType
  <2>3. cmd' = [cmd EXCEPT ![c] = k]
    BY <1>1, <1>3, <2>1, Held DEF Goes
  <2> QED
    BY <1>1, <1>3, <2>2, <2>3 DEF Op, Me
<1> QED
  BY <1>2, <1>3

\* Where a command may go next, with the record s.
May(c, q, s) ==
  \/ q = "idle"
  \/ /\ PlacedAt(Op(c), q) /\ q # "assign" /\ cmd[c].pc # "assign" /\ s.vm = S(c).vm
     /\ q \in {"spawn", "find", "claim", "control", "record"} => s.pid = None
     /\ q # "forget"

LEMMA TypeGoes ==
  ASSUME TypeInv, NEW c \in Slot, NEW q \in PC, NEW s \in Record \cup {NoRecord}, Goes(c, q, s),
         May(c, q, s), UNCHANGED made, vms' \subseteq vms, known' \subseteq 1..made,
         store' \in [Name -> Record \cup {NoRecord}], \A n \in Name : store'[n].vm <= made,
         daemon' \in [Pid -> [name : Name, vm : VM, misses : 0..1] \cup {NoDaemon}],
         spawned' \in 0..MaxPids, trouble' \in 0..MaxTrouble, spoilt' \subseteq VM
  PROVE  TypeInv'
<1>1. PICK k \in CmdType : /\ cmd' = [cmd EXCEPT ![c] = k]
                           /\ \/ q = "idle" /\ k = Idle
                              \/ /\ q # "idle" /\ k.op = Op(c) /\ k.pc = q /\ k.name = Me(c)
                                 /\ k.s = s /\ k.local = cmd[c].local
  BY Turn
<1>2. Placed(k) /\ Carries(k) /\ k.s.vm <= made
  <2>1. CASE q = "idle"
    <3>1. 0 <= made
      BY State
    <3> QED
      BY <1>1, <2>1, <3>1, IdleIs, Constants
  <2>2. CASE q # "idle"
    <3>1. /\ PlacedAt(Op(c), q) /\ q # "assign" /\ cmd[c].pc # "assign" /\ s.vm = S(c).vm
          /\ q \in {"spawn", "find", "claim", "control", "record"} => s.pid = None
          /\ q # "forget"
      BY <2>2 DEF May
    <3>2. Placed(k) /\ k.s.vm <= made
      BY <1>1, <2>2, <3>1, Held DEF Placed
    <3>3. (s \in Record <=> S(c) \in Record) /\ (S(c) = NoRecord => s = NoRecord)
      BY <3>1, Records, Held, Constants
    <3>4. Carries(cmd[c])
      BY Held
    <3>5. Carries(k)
      BY <1>1, <2>2, <3>1, <3>3, <3>4 DEF Carries, Op, Me, S
    <3> QED
      BY <3>2, <3>5
  <2> QED
    BY <2>1, <2>2
<1>3. made <= made' /\ made' \in 0..MaxVMs /\ vms' \subseteq 1..made' /\ known' \subseteq 1..made'
  BY State
<1> QED
  BY <1>1, <1>2, <1>3, TypeStep

LEMMA TypeStores ==
  ASSUME TypeInv, NEW c \in Slot, NEW r \in Record \cup {NoRecord}, r.vm <= made,
         Me(c) \in Name, NEW ok \in PC, NEW failed \in PC, Stores(c, Me(c), r, ok, failed),
         May(c, ok, S(c)), May(c, failed, S(c)),
         UNCHANGED <<vms, made, daemons>>, spoilt' \subseteq VM, known' \subseteq 1..made
  PROVE  TypeInv'
<1>1. PICK s \in Record \cup {NoRecord} : s = S(c)
  BY Held
<1>2. PICK q \in PC : q \in {ok, failed} /\ Goes(c, q, s)
  BY <1>1 DEF Stores
<1>3. May(c, q, s)
  BY <1>1, <1>2
<1>4. store' \in [Name -> Record \cup {NoRecord}] /\ \A n \in Name : store'[n].vm <= made
  BY State DEF Stores
<1>5. trouble' \in 0..MaxTrouble
  BY State DEF Stores
<1>6. /\ daemon' \in [Pid -> [name : Name, vm : VM, misses : 0..1] \cup {NoDaemon}]
      /\ spawned' \in 0..MaxPids /\ spoilt' \subseteq VM /\ vms' \subseteq vms
  BY State DEF daemons
<1> QED
  BY <1>2, <1>3, <1>4, <1>5, <1>6, TypeGoes

\* A command that moves on, and changes nothing but trouble.
LEMMA TypePasses ==
  ASSUME TypeInv, NEW c \in Slot, NEW q \in PC, NEW s \in Record \cup {NoRecord}, Goes(c, q, s),
         May(c, q, s), UNCHANGED <<vms, made, known, store, daemons>>,
         trouble' \in 0..MaxTrouble, spoilt' \subseteq VM
  PROVE  TypeInv'
<1>1. /\ known' \subseteq 1..made /\ store' \in [Name -> Record \cup {NoRecord}]
      /\ \A n \in Name : store'[n].vm <= made
      /\ daemon' \in [Pid -> [name : Name, vm : VM, misses : 0..1] \cup {NoDaemon}]
      /\ spawned' \in 0..MaxPids
  BY State DEF daemons
<1> QED
  BY <1>1, TypeGoes

\* Which commands may be at a place.
LEMMA Ops ==
  ASSUME TypeInv, NEW c \in Slot
  PROVE  /\ cmd[c].pc \in {"assign", "record"} => Op(c) \in {"new", "run"}
         /\ cmd[c].pc \in {"spawn", "publish"} => Op(c) \in {"new", "run", "attach"}
         /\ cmd[c].pc \in {"kill", "drop", "keep"} => Op(c) \in {"new", "run", "stop"}
         /\ cmd[c].pc = "clear" => Op(c) = "stop"
         /\ cmd[c].pc = "release" => Op(c) \in {"new", "run", "stop", "release"}
         /\ cmd[c].pc = "orphan" => Op(c) = "release"
         /\ cmd[c].pc = "list" => Op(c) = "sync"
         /\ cmd[c].pc \in {"prune", "forget"} => Op(c) \in {"run", "exec", "console", "sync"}
         /\ cmd[c].pc \in {"connect", "mark", "final"} => Op(c) \in {"run", "exec", "console"}
         /\ cmd[c].pc \in {"find", "claim", "control", "undo", "unclaim"} => Op(c) = "attach"
         /\ cmd[c].pc = "idle" => cmd[c] = Idle
<1>1. cmd[c] = Idle \/ PlacedAt(Op(c), cmd[c].pc)
  BY Held DEF Placed, Op
<1>2. CASE cmd[c] = Idle
  BY <1>2, IdleIs
<1>3. CASE PlacedAt(Op(c), cmd[c].pc)
  BY <1>3 DEF PlacedAt, Setting, Tearing, Using
<1> QED
  BY <1>1, <1>2, <1>3

\* The session of a command that has one.
LEMMA Has ==
  ASSUME TypeInv, NEW c \in Slot, Op(c) \in Named
  PROVE  /\ Me(c) \in Name /\ (cmd[c].pc # "assign" => S(c) \in Record)
         /\ cmd[c].pc = "assign" => S(c) = NoRecord
         /\ cmd[c].pc \in {"spawn", "find", "claim", "control", "record"} => S(c).pid = None
         /\ cmd[c].local \subseteq {<<Me(c), S(c).vm>>}
<1>1. Carries(cmd[c])
  BY Held
<1> QED
  BY <1>1 DEF Carries, Me, S, Op

LEMMA TypeAdds ==
  ASSUME TypeInv, NEW c \in Slot, Op(c) \in Named, NEW ok \in PC, NEW failed \in PC,
         Adds(c, ok, failed), May(c, ok, S(c)), May(c, failed, S(c)),
         UNCHANGED <<vms, made, daemons>>, spoilt' \subseteq VM, known' \subseteq 1..made
  PROVE  TypeInv'
<1>1. PICK s \in Record \cup {NoRecord} : s = S(c) /\ s.vm <= made
  BY Held
<1>2. Stores(c, Me(c), s, ok, failed)
  BY <1>1 DEF Adds
<1> QED
  BY <1>1, <1>2, Has, TypeStores

Fresh(op, pc, n, s) == [op |-> op, pc |-> pc, name |-> n, s |-> s, local |-> {}]

LEMMA FreshIs ==
  ASSUME NEW op \in Command, NEW pc \in PC, NEW n \in Name \cup {"none"},
         NEW s \in Record \cup {NoRecord}, NEW k, k = Fresh(op, pc, n, s)
  PROVE  k \in CmdType /\ k.op = op /\ k.pc = pc /\ k.name = n /\ k.s = s /\ k.local = {}
BY DEF Fresh, CmdType

\* A command that begins with what it has read.
LEMMA TypeBegins ==
  ASSUME TypeInv, NEW c \in Slot, NEW op, NEW pc \in PC, NEW n \in Name \cup {"none"},
         NEW s \in Record \cup {NoRecord}, Begins(c, op, pc, n, s), PlacedAt(op, pc), s.vm <= made,
         op \in Named => /\ n \in Name /\ pc # "forget"
                         /\ pc = "assign" => s = NoRecord
                         /\ pc # "assign" => s \in Record
                         /\ pc \in {"spawn", "find", "claim", "control", "record"} => s.pid = None,
         op = "release" => n = "none" /\ s \in Record, op # "sync",
         UNCHANGED <<vms, made, known, store, daemons, trouble>>, spoilt' \subseteq VM
  PROVE  TypeInv'
<1>1. op \in Command
  BY DEF Begins
<1>2. PICK k : k = Fresh(op, pc, n, s)
  OBVIOUS
<1>3. k \in CmdType /\ k.op = op /\ k.pc = pc /\ k.name = n /\ k.s = s /\ k.local = {}
  BY <1>1, <1>2, FreshIs
<1>4. PICK j : j = [Idle EXCEPT !.op = op, !.pc = pc, !.name = n, !.s = s]
  OBVIOUS
<1>5. j = [op |-> op, pc |-> pc, name |-> n, s |-> s, local |-> {}]
  BY <1>4 DEF Idle
<1>6. cmd' = [cmd EXCEPT ![c] = k]
  BY <1>2, <1>4, <1>5 DEF Begins, Fresh
<1>7. Placed(k) /\ Carries(k)
  BY <1>3 DEF Placed, Carries
<1>8. /\ made <= made' /\ made' \in 0..MaxVMs /\ vms' \subseteq 1..made' /\ known' \subseteq 1..made'
      /\ store' \in [Name -> Record \cup {NoRecord}] /\ \A m \in Name : store'[m].vm <= made'
      /\ daemon' \in [Pid -> [name : Name, vm : VM, misses : 0..1] \cup {NoDaemon}]
      /\ spawned' \in 0..MaxPids /\ trouble' \in 0..MaxTrouble /\ spoilt' \subseteq VM
  BY State DEF daemons
<1> QED
  BY <1>3, <1>6, <1>7, <1>8, TypeStep

\* Records of what the store has, and of a VM without a daemon.
LEMMA TypeRecords ==
  ASSUME TypeInv
  PROVE  /\ \A n \in Name : /\ store[n] \in Record \cup {NoRecord} /\ store[n].vm <= made
                            /\ (Tracked(n) => store[n] \in Record)
         /\ \A v \in 1..made : LET s == [vm |-> v, pid |-> None] IN
              s \in Record /\ s.vm = v /\ s.vm <= made /\ s.pid = None
         /\ NoRecord.vm <= made
<1>1. ASSUME NEW v \in 1..made PROVE [vm |-> v, pid |-> None] \in Record
  <2>1. v \in 1..MaxVMs
    BY State, Constants
  <2> QED
    BY <2>1 DEF Record, VM
<1>2. 0 <= made /\ \A v \in 1..made : v <= made
  BY State
<1> QED
  BY <1>1, <1>2, State, Constants DEF Tracked

LEMMA TypeLooks ==
  ASSUME TypeInv, NEW c \in Slot, spoilt' \subseteq VM,
         \/ NewLooks(c) \/ StopReads(c) \/ UseReads(c) \/ AttachLooks(c) \/ ReleaseLooks(c)
  PROVE  TypeInv'
<1> USE DEF server
<1>1. CASE NewLooks(c)
  <2>1. PICK n \in Name, op \in {"new", "run"} : Begins(c, op, "assign", n, NoRecord)
    BY <1>1 DEF NewLooks
  <2>2. PlacedAt(op, "assign") /\ "assign" \in PC /\ NoRecord.vm <= made
    BY TypeRecords DEF PlacedAt, Setting, PC
  <2>3. UNCHANGED <<vms, made, known, store, daemons, trouble>>
    BY <1>1 DEF NewLooks
  <2> QED
    BY <2>1, <2>2, <2>3, TypeBegins
<1>2. CASE StopReads(c)
  <2>1. PICK n \in Name :
          Tracked(n)
          /\ Begins(c, "stop", IF store[n].pid = None THEN "release" ELSE "kill", n, store[n])
    BY <1>2 DEF StopReads
  <2>2. PICK pc \in PC : /\ pc = (IF store[n].pid = None THEN "release" ELSE "kill")
                         /\ PlacedAt("stop", pc) /\ pc \in {"release", "kill"}
    BY DEF PlacedAt, Tearing, PC
  <2>3. PICK s \in Record \cup {NoRecord} : s = store[n] /\ s \in Record /\ s.vm <= made
    BY <2>1, TypeRecords
  <2>4. Begins(c, "stop", pc, n, s)
    BY <2>1, <2>2, <2>3
  <2>5. UNCHANGED <<vms, made, known, store, daemons, trouble>>
    BY <1>2 DEF StopReads
  <2> QED
    BY <2>2, <2>3, <2>4, <2>5, TypeBegins
<1>3. CASE UseReads(c)
  <2>1. PICK n \in Name : /\ Tracked(n)
                          /\ \/ Begins(c, "exec", "connect", n, store[n])
                             \/ Begins(c, "console", "mark", n, store[n])
    BY <1>3 DEF UseReads
  <2>2. PICK s \in Record \cup {NoRecord} : s = store[n] /\ s \in Record /\ s.vm <= made
    BY <2>1, TypeRecords
  <2>3. PICK op \in {"exec", "console"}, pc \in {"connect", "mark"} : Begins(c, op, pc, n, s)
    BY <2>1, <2>2
  <2>4. PlacedAt(op, pc) /\ pc \in PC
    BY DEF PlacedAt, Using, PC
  <2>5. UNCHANGED <<vms, made, known, store, daemons, trouble>>
    BY <1>3 DEF UseReads
  <2> QED
    BY <2>2, <2>3, <2>4, <2>5, TypeBegins
<1>4. CASE AttachLooks(c)
  <2>1. PICK n \in Name, v \in 1..made : Begins(c, "attach", "find", n, [vm |-> v, pid |-> None])
    BY <1>4 DEF AttachLooks
  <2>2. PICK s \in Record \cup {NoRecord} : /\ s = [vm |-> v, pid |-> None]
                                            /\ s \in Record /\ s.vm <= made /\ s.pid = None
    BY TypeRecords
  <2>3. Begins(c, "attach", "find", n, s) /\ PlacedAt("attach", "find") /\ "find" \in PC
    BY <2>1, <2>2 DEF PlacedAt, PC
  <2>4. UNCHANGED <<vms, made, known, store, daemons, trouble>>
    BY <1>4 DEF AttachLooks
  <2> QED
    BY <2>2, <2>3, <2>4, TypeBegins
<1>5. CASE ReleaseLooks(c)
  <2>1. PICK v \in 1..made : Begins(c, "release", "orphan", "none", [vm |-> v, pid |-> None])
    BY <1>5 DEF ReleaseLooks
  <2>2. PICK s \in Record \cup {NoRecord} : /\ s = [vm |-> v, pid |-> None]
                                            /\ s \in Record /\ s.vm <= made /\ s.pid = None
    BY TypeRecords
  <2>3. /\ Begins(c, "release", "orphan", "none", s) /\ PlacedAt("release", "orphan")
        /\ "orphan" \in PC /\ "release" \notin Named
    BY <2>1, <2>2 DEF PlacedAt, PC, Named
  <2>4. UNCHANGED <<vms, made, known, store, daemons, trouble>>
    BY <1>5 DEF ReleaseLooks
  <2> QED
    BY <2>2, <2>3, <2>4, TypeBegins
<1> QED
  BY <1>1, <1>2, <1>3, <1>4, <1>5

LEMMA TypeAssigns ==
  ASSUME TypeInv, NEW c \in Slot, NewAssigns(c) \/ NewIsUnheard(c), spoilt' \subseteq VM
  PROVE  TypeInv'
<1>1. cmd[c].pc = "assign" /\ UNCHANGED <<store, daemons>>
  BY DEF NewAssigns, NewIsUnheard, At
<1>2. Op(c) \in {"new", "run"} /\ Op(c) \in Named /\ cmd[c].local \subseteq {<<Me(c), S(c).vm>>}
      /\ Me(c) \in Name /\ S(c) = NoRecord
  BY <1>1, Ops, Has DEF Named
<1>3. cmd[c].local = {}
  <2>1. cmd[c].local \subseteq Name \X VM
    BY Held DEF CmdType
  <2>2. <<Me(c), None>> \notin Name \X VM
    BY Constants
  <2> QED
    BY <1>2, <2>1, <2>2, Constants
<1>4. ASSUME NEW k \in CmdType, cmd' = [cmd EXCEPT ![c] = k], Placed(k), Carries(k),
             k.s.vm <= made', NewVM \/ UNCHANGED server, known' \subseteq 1..made',
             trouble' \in 0..MaxTrouble
      PROVE  TypeInv'
  <2>1. /\ made <= made' /\ made' \in 0..MaxVMs /\ vms' \subseteq 1..made'
        /\ \A n \in Name : store[n].vm <= made'
    <3>1. \A n \in Name : store[n].vm \in Nat /\ store[n].vm <= made
      BY State, Records
    <3>2. made \in Nat /\ made \in 0..MaxVMs /\ MaxVMs \in Nat /\ vms \subseteq 1..made
      BY State, Constants
    <3>3. CASE NewVM
      <4>1. made < MaxVMs /\ made' = made + 1 /\ vms' = vms \cup {made + 1}
        BY <3>3 DEF NewVM
      <4>2. made <= made' /\ made' \in 0..MaxVMs /\ 1..made \subseteq 1..made'
            /\ made + 1 \in 1..made'
        BY <3>2, <4>1
      <4>3. \A n \in Name : store[n].vm <= made'
        BY <3>1, <3>2, <4>1
      <4> QED
        BY <3>2, <4>1, <4>2, <4>3
    <3>4. CASE UNCHANGED server
      BY <3>1, <3>2, <3>4 DEF server
    <3> QED
      BY <1>4, <3>3, <3>4
  <2>2. /\ store' \in [Name -> Record \cup {NoRecord}] /\ \A n \in Name : store'[n].vm <= made'
        /\ daemon' \in [Pid -> [name : Name, vm : VM, misses : 0..1] \cup {NoDaemon}]
        /\ spawned' \in 0..MaxPids /\ spoilt' \subseteq VM
    BY <1>1, <2>1, State DEF daemons
  <2> QED
    BY <1>4, <2>1, <2>2, TypeStep
<1>5. CASE /\ NewVM /\ Goes(c, "record", [vm |-> made + 1, pid |-> None])
           /\ UNCHANGED <<known, trouble>>
  <2>1. made + 1 \in VM /\ made' = made + 1 /\ made \in Nat
    BY <1>5, State, Constants DEF NewVM, VM
  <2>2. PICK s \in Record \cup {NoRecord} :
          s = [vm |-> made + 1, pid |-> None] /\ s \in Record /\ s.vm = made + 1 /\ s.pid = None
    <3>1. PICK v \in VM : v = made + 1
      BY <2>1
    <3>2. [vm |-> v, pid |-> None] \in Record
      BY DEF Record
    <3> QED
      BY <3>1, <3>2
  <2>3. PICK q \in PC : q = "record"
    BY DEF PC
  <2>4. Goes(c, q, s)
    BY <1>5, <2>2, <2>3
  <2>5. PICK k \in CmdType : /\ cmd' = [cmd EXCEPT ![c] = k]
                             /\ k.op = Op(c) /\ k.pc = q /\ k.name = Me(c)
                             /\ k.s = s /\ k.local = cmd[c].local
    BY <2>3, <2>4, Turn
  <2>6. Placed(k) /\ Carries(k)
    BY <1>2, <1>3, <2>2, <2>3, <2>5 DEF Placed, PlacedAt, Setting, Carries, Named
  <2>7. k.s.vm <= made' /\ known' \subseteq 1..made' /\ trouble' \in 0..MaxTrouble
    BY <1>5, <2>1, <2>2, <2>5, State
  <2> QED
    BY <1>4, <1>5, <2>5, <2>6, <2>7
<1>6. CASE /\ (NewVM /\ known' \subseteq known \cup {made + 1}) \/ UNCHANGED server
           /\ Trouble /\ Goes(c, "idle", NoRecord)
  <2>1. PICK k \in CmdType : k = Idle
    BY IdleIs
  <2>2. cmd' = [cmd EXCEPT ![c] = k]
    BY <1>6, <2>1 DEF Goes
  <2>3. k.s.vm = 0 /\ Placed(k) /\ Carries(k)
    BY <2>1, IdleIs, Constants
  <2>4. 0 <= made' /\ known' \subseteq 1..made' /\ trouble' \in 0..MaxTrouble
    BY <1>6, State DEF NewVM, server
  <2> QED
    BY <1>4, <1>6, <2>2, <2>3, <2>4
<1> QED
  BY <1>5, <1>6 DEF NewAssigns, NewIsUnheard

LEMMA TypeWrites ==
  ASSUME TypeInv, NEW c \in Slot, spoilt' \subseteq VM,
         \/ NewRecords(c) \/ StopClears(c) \/ Keeps(c)
         \/ ExecMarks(c) \/ RunMarks(c) \/ ReplMarks(c) \/ ConsoleMarks(c)
         \/ UseCallsBack(c) \/ UseEnds(c)
  PROVE  TypeInv'
<1>1. known' \subseteq 1..made
  <2>1. ASSUME Keeps(c) PROVE S(c).vm \in 1..made
    <3>1. S(c) \in Record /\ S(c).vm <= made
      BY <2>1, Ops, Has, Held DEF Keeps, At, Named
    <3> QED
      BY <3>1, Records, Constants
  <2>2. ~Keeps(c) => known' = known
    BY DEF NewRecords, StopClears, ExecMarks, RunMarks, ReplMarks, ConsoleMarks, Marks,
           UseCallsBack, UseEnds, server
  <2>3. known' \in {known, known \cup {S(c).vm}} \/ ~Keeps(c)
    BY DEF Keeps
  <2> QED
    BY <2>1, <2>2, <2>3, State
<1>2. UNCHANGED <<vms, made, daemons>>
  BY DEF NewRecords, StopClears, Keeps, ExecMarks, RunMarks, ReplMarks, ConsoleMarks, Marks,
         UseCallsBack, UseEnds, server
<1>3. ASSUME NEW ok, NEW failed, Adds(c, ok, failed), {ok, failed} \subseteq PC, Op(c) \in Named,
             cmd[c].pc # "assign", {"assign", "find", "claim", "control", "record", "forget"}
                                     \cap {ok, failed} = {},
             \A q \in {ok, failed} : q = "idle" \/ PlacedAt(Op(c), q),
             ok = "spawn" => S(c).pid = None, failed # "spawn"
      PROVE  TypeInv'
  <2>1. May(c, ok, S(c)) /\ May(c, failed, S(c))
    BY <1>3 DEF May
  <2>2. ok \in PC /\ failed \in PC
    BY <1>3
  <2> QED
    BY <1>1, <1>2, <1>3, <2>1, <2>2, TypeAdds
<1> USE DEF At, PC, PlacedAt, Setting, Tearing, Using, Named
<1>4. CASE NewRecords(c)
  <2>1. Op(c) \in {"new", "run"} /\ cmd[c].pc = "record" /\ Adds(c, "spawn", "kill")
        /\ S(c).pid = None
    BY <1>4, Ops, Has DEF NewRecords
  <2> QED
    BY <1>3, <2>1
<1>5. CASE StopClears(c)
  <2>1. Op(c) = "stop" /\ cmd[c].pc = "clear" /\ Adds(c, "release", "release")
    BY <1>5, Ops DEF StopClears
  <2> QED
    BY <1>3, <2>1
<1>6. CASE Keeps(c)
  <2>1. Op(c) \in {"new", "run", "stop"} /\ cmd[c].pc = "keep" /\ Adds(c, "idle", "idle")
    BY <1>6, Ops DEF Keeps
  <2> QED
    BY <1>3, <2>1
<1>7. CASE ExecMarks(c) \/ RunMarks(c) \/ ReplMarks(c) \/ ConsoleMarks(c)
  <2>1. PICK ok \in {"mark", "final", "connect"}, failed \in {"final", "idle"} :
          /\ cmd[c].pc = "mark" /\ Op(c) \in {"exec", "run", "console"} /\ Adds(c, ok, failed)
    BY <1>7 DEF ExecMarks, RunMarks, ReplMarks, ConsoleMarks, Marks
  <2> QED
    BY <1>3, <2>1
<1>8. CASE UseCallsBack(c)
  <2>1. /\ Op(c) \in {"exec", "run"} /\ cmd[c].pc = "connect"
        /\ Adds(c, "connect", Unguarded(c)) /\ Unguarded(c) \in {"idle", "final"}
    BY <1>8, Ops DEF UseCallsBack, Unguarded
  <2> QED
    BY <1>3, <2>1
<1>9. CASE UseEnds(c)
  <2>1. PICK q \in {"idle", "kill"} : /\ cmd[c].pc = "final" /\ Adds(c, q, q)
                                      /\ q = "kill" => Op(c) = "run"
    BY <1>9 DEF UseEnds
  <2>2. Op(c) \in {"run", "exec", "console"}
    BY <2>1, Ops
  <2> QED
    BY <1>3, <2>1, <2>2
<1> QED
  BY <1>4, <1>5, <1>6, <1>7, <1>8, <1>9

\* The commands that write, or only look on, and that remove a record.
LEMMA TypePublishes ==
  ASSUME TypeInv, NEW c \in Slot, spoilt' \subseteq VM,
         NewPublishes(c) \/ AttachClaims(c) \/ AttachConnects(c) \/ AttachPublishes(c)
  PROVE  TypeInv'
<1>1. UNCHANGED <<vms, made, known, daemons>> /\ known' \subseteq 1..made
  BY State DEF NewPublishes, AttachClaims, AttachConnects, AttachPublishes, server
<1>2. PICK s \in Record \cup {NoRecord} : s = S(c) /\ s.vm <= made
  BY Held
<1>3. Op(c) \in {"new", "run", "attach"} /\ Op(c) \in Named /\ Me(c) \in Name
  <2>1. Op(c) \in {"new", "run", "attach"}
    BY Ops DEF NewPublishes, AttachClaims, AttachConnects, AttachPublishes, At, Creates
  <2> QED
    BY <2>1, Has DEF Named
<1>4. trouble' \in 0..MaxTrouble \/ ~(Trouble \/ UNCHANGED trouble)
  BY State
<1>5. spoilt' \subseteq VM
  BY State
<1>6. ASSUME NEW q \in PC, Goes(c, q, S(c)), May(c, q, S(c)), Trouble \/ UNCHANGED trouble,
             UNCHANGED store
      PROVE  TypeInv'
  BY <1>1, <1>2, <1>4, <1>5, <1>6, TypePasses
<1> USE DEF At, PC, May, PlacedAt, Setting, Tearing, Using, Named
<1>7. CASE NewPublishes(c)
  <2>1. Op(c) \in {"new", "run"} /\ cmd[c].pc = "publish" /\ Ready(c) \in {"idle", "connect"}
        /\ (Ready(c) = "connect" => Op(c) = "run")
    BY <1>7 DEF NewPublishes, Creates, Ready
  <2>2. May(c, Ready(c), S(c)) /\ May(c, "kill", S(c)) /\ Ready(c) \in PC /\ "kill" \in PC
    BY <2>1
  <2>3. CASE Adds(c, Ready(c), "kill")
    BY <1>1, <1>3, <2>2, <2>3, TypeAdds
  <2>4. CASE Trouble /\ store' = [store EXCEPT ![Me(c)] = S(c)] /\ Goes(c, "kill", S(c))
    <3>1. store' \in [Name -> Record \cup {NoRecord}] /\ \A n \in Name : store'[n].vm <= made
      BY <1>2, <1>3, <2>4, State
    <3>2. /\ daemon' \in [Pid -> [name : Name, vm : VM, misses : 0..1] \cup {NoDaemon}]
          /\ spawned' \in 0..MaxPids /\ trouble' \in 0..MaxTrouble
          /\ vms' \subseteq vms /\ UNCHANGED made
      BY <1>1, <2>4, State DEF daemons
    <3> QED
      BY <1>1, <1>2, <1>5, <2>2, <2>4, <3>1, <3>2, TypeGoes
  <2> QED
    BY <1>7, <2>3, <2>4 DEF NewPublishes
<1>8. CASE AttachClaims(c)
  <2>1. Op(c) = "attach" /\ cmd[c].pc = "claim" /\ S(c).pid = None
    BY <1>8, Ops, Has DEF AttachClaims
  <2>2. May(c, "control", S(c)) /\ May(c, "idle", S(c)) /\ "control" \in PC /\ "idle" \in PC
    BY <2>1
  <2>3. CASE Adds(c, "control", "idle")
    BY <1>1, <1>3, <2>2, <2>3, TypeAdds
  <2>4. CASE Goes(c, "idle", S(c)) /\ UNCHANGED <<store, trouble>>
    BY <1>6, <2>2, <2>4
  <2> QED
    BY <1>8, <2>3, <2>4 DEF AttachClaims
<1>9. CASE AttachConnects(c)
  <2>1. Op(c) = "attach" /\ cmd[c].pc = "control" /\ S(c).pid = None
    BY <1>9, Ops, Has DEF AttachConnects
  <2>2. /\ May(c, "control", S(c)) /\ May(c, "undo", S(c)) /\ May(c, "spawn", S(c))
        /\ "control" \in PC /\ "undo" \in PC /\ "spawn" \in PC
    BY <2>1
  <2>3. CASE Adds(c, "control", "undo")
    BY <1>1, <1>3, <2>2, <2>3, TypeAdds
  <2>4. CASE Goes(c, "spawn", S(c)) /\ UNCHANGED <<store, trouble>>
    BY <1>6, <2>2, <2>4
  <2>5. CASE Trouble /\ Goes(c, "undo", S(c)) /\ UNCHANGED store
    BY <1>6, <2>2, <2>5
  <2> QED
    BY <1>9, <2>3, <2>4, <2>5 DEF AttachConnects
<1>10. CASE AttachPublishes(c)
  <2>1. Op(c) = "attach" /\ cmd[c].pc = "publish"
    BY <1>10 DEF AttachPublishes
  <2>2. May(c, "idle", S(c)) /\ May(c, "undo", S(c)) /\ "idle" \in PC /\ "undo" \in PC
    BY <2>1
  <2>3. CASE Adds(c, "idle", "undo")
    BY <1>1, <1>3, <2>2, <2>3, TypeAdds
  <2>4. CASE Goes(c, "undo", S(c)) /\ UNCHANGED <<store, trouble>>
    BY <1>6, <2>2, <2>4
  <2> QED
    BY <1>10, <2>3, <2>4 DEF AttachPublishes
<1> QED
  BY <1>7, <1>8, <1>9, <1>10

LEMMA TypeRemoves ==
  ASSUME TypeInv, NEW c \in Slot, spoilt' \subseteq VM, Drops(c) \/ AttachUnclaims(c) \/ PruneForgets(c)
  PROVE  TypeInv'
<1>1. UNCHANGED <<vms, made, known, daemons>> /\ known' \subseteq 1..made
  BY State DEF Drops, AttachUnclaims, PruneForgets, server
<1>2. Me(c) \in Name
  <2>1. CASE Op(c) \in Named
    BY <2>1, Has
  <2>2. CASE Op(c) = "sync" /\ cmd[c].pc = "forget"
    BY <2>2, Held DEF Carries, Op, Me
  <2>3. (Op(c) = "sync" /\ cmd[c].pc = "forget") \/ Op(c) \in Named
    BY Ops DEF Drops, AttachUnclaims, PruneForgets, At, Named
  <2> QED
    BY <2>1, <2>2, <2>3
<1>3. PICK r \in Record \cup {NoRecord} : r = NoRecord /\ r.vm <= made
  BY TypeRecords
<1>4. ASSUME NEW ok \in PC, NEW failed \in PC, Stores(c, Me(c), NoRecord, ok, failed),
             May(c, ok, S(c)), May(c, failed, S(c))
      PROVE  TypeInv'
  BY <1>1, <1>2, <1>3, <1>4, TypeStores
<1> USE DEF At, PC, May, PlacedAt, Setting, Tearing, Using, Named
<1>5. May(c, "idle", S(c)) /\ "idle" \in PC
  OBVIOUS
<1>6. CASE Drops(c)
  BY <1>4, <1>5, <1>6 DEF Drops
<1>7. CASE AttachUnclaims(c)
  <2>1. CASE Stores(c, Me(c), NoRecord, "idle", "idle")
    BY <1>4, <1>5, <2>1
  <2>2. CASE Goes(c, "idle", S(c)) /\ UNCHANGED <<store, trouble>>
    <3>1. PICK s \in Record \cup {NoRecord} : s = S(c)
      BY Held
    <3>2. trouble' \in 0..MaxTrouble /\ spoilt' \subseteq VM
      BY <2>2, State
    <3> QED
      BY <1>1, <1>5, <2>2, <3>1, <3>2, TypePasses
  <2> QED
    BY <1>7, <2>1, <2>2 DEF AttachUnclaims
<1>8. CASE PruneForgets(c)
  <2>1. Op(c) \in {"run", "exec", "console", "sync"} /\ cmd[c].pc = "forget"
    BY <1>8, Ops DEF PruneForgets
  <2>2. PICK ok \in {"final", "idle", "prune"}, failed \in {"final", "idle"} :
          /\ Stores(c, Me(c), NoRecord, ok, failed)
          /\ "final" \in {ok, failed} => Op(c) \in {"console", "run"}
    BY <1>8 DEF PruneForgets
  <2>3. May(c, ok, S(c)) /\ May(c, failed, S(c)) /\ ok \in PC /\ failed \in PC
    BY <2>1, <2>2
  <2> QED
    BY <1>4, <2>2, <2>3
<1> QED
  BY <1>6, <1>7, <1>8

\* A step that leaves the record of its command as it is.
LEMMA TypePlain ==
  ASSUME TypeInv, NEW c \in Slot, spoilt' \subseteq VM,
         \/ UseConnects(c) \/ UseFails(c) \/ AttachFinds(c) \/ ReleaseLists(c) \/ Releases(c)
         \/ AttachUndoes(c)
  PROVE  TypeInv'
<1>1. PICK s \in Record \cup {NoRecord} : s = S(c)
  BY Held
<1>2. /\ spoilt' \subseteq VM /\ UNCHANGED <<made, known, store, spawned>>
      /\ vms' \subseteq vms /\ known' \subseteq 1..made /\ spawned' \in 0..MaxPids
      /\ store' \in [Name -> Record \cup {NoRecord}] /\ \A n \in Name : store'[n].vm <= made
  <2>1. /\ UNCHANGED <<made, known, store, spawned>> /\ vms' \subseteq vms
    BY DEF UseConnects, UseFails, AttachFinds, ReleaseLists, Releases, AttachUndoes, Unassigned,
           server, daemons
  <2> QED
    BY <2>1, State
<1>3. trouble' \in 0..MaxTrouble
  BY State DEF UseConnects, UseFails, AttachFinds, ReleaseLists, Releases, AttachUndoes, Unassigned
<1>4. daemon' \in [Pid -> [name : Name, vm : VM, misses : 0..1] \cup {NoDaemon}]
  <2>1. UNCHANGED daemon \/ Kill(S(c).pid)
    BY DEF UseConnects, UseFails, AttachFinds, ReleaseLists, Releases, AttachUndoes, daemons
  <2> QED
    BY <2>1, State DEF Kill
<1> USE DEF At, PC, May, PlacedAt, Setting, Tearing, Using, Named
<1>5. \E q \in PC : Goes(c, q, S(c)) /\ May(c, q, S(c))
  <2>1. CASE UseConnects(c) \/ UseFails(c)
    <3>1. Op(c) \in {"run", "exec", "console"} /\ cmd[c].pc = "connect"
      BY <2>1, Ops DEF UseConnects, UseFails
    <3>2. PICK q \in {"final", "mark", "idle"} : Goes(c, q, S(c))
      BY <2>1 DEF UseConnects, UseFails, Unguarded
    <3> QED
      BY <3>1, <3>2
  <2>2. CASE AttachFinds(c)
    <3>1. Op(c) = "attach" /\ cmd[c].pc = "find" /\ S(c).pid = None
      BY <2>2, Ops, Has DEF AttachFinds
    <3>2. PICK q \in {"claim", "idle"} : Goes(c, q, S(c))
      BY <2>2 DEF AttachFinds
    <3> QED
      BY <3>1, <3>2
  <2>3. CASE ReleaseLists(c)
    <3>1. Op(c) = "release" /\ cmd[c].pc = "orphan"
      BY <2>3, Ops DEF ReleaseLists
    <3>2. PICK q \in {"release", "idle"} : Goes(c, q, S(c))
      BY <2>3 DEF ReleaseLists
    <3> QED
      BY <3>1, <3>2
  <2>4. CASE Releases(c)
    <3>1. Op(c) \in {"new", "run", "stop", "release"} /\ cmd[c].pc = "release"
      BY <2>4, Ops DEF Releases
    <3>2. PICK q \in {"drop", "keep", "idle"} :
            Goes(c, q, S(c)) /\ (q # "idle" => Op(c) # "release")
      BY <2>4 DEF Releases, Unassigned
    <3> QED
      BY <3>1, <3>2
  <2>5. CASE AttachUndoes(c)
    <3>1. Op(c) = "attach" /\ cmd[c].pc = "undo" /\ Goes(c, "unclaim", S(c))
      BY <2>5, Ops DEF AttachUndoes
    <3> QED
      BY <3>1
  <2> QED
    BY <2>1, <2>2, <2>3, <2>4, <2>5
<1> QED
  BY <1>1, <1>2, <1>3, <1>4, <1>5, TypeGoes

\* The daemons: their process ids, and what they serve.
LEMMA TypeProcesses ==
  ASSUME TypeInv, NEW c \in Slot, spoilt' \subseteq VM, KillsDaemon(c) \/ NewSpawns(c) \/ AttachSpawns(c)
  PROVE  TypeInv'
<1>1. /\ UNCHANGED <<vms, made, known, store>> /\ spoilt' \subseteq VM
      /\ vms' \subseteq vms /\ known' \subseteq 1..made
      /\ store' \in [Name -> Record \cup {NoRecord}] /\ \A n \in Name : store'[n].vm <= made
  <2>1. UNCHANGED <<vms, made, known, store>>
    BY DEF KillsDaemon, NewSpawns, AttachSpawns, Spawns, server
  <2> QED
    BY <2>1, State
<1>2. Op(c) \in {"new", "run", "stop", "attach"} /\ Op(c) \in Named
  BY Ops DEF KillsDaemon, NewSpawns, AttachSpawns, Spawns, Creates, At, Named
<1>3. cmd[c].pc # "assign" /\ Me(c) \in Name /\ S(c) \in Record
  BY <1>2, Has DEF KillsDaemon, NewSpawns, AttachSpawns, Spawns, At
<1>4. S(c).vm \in VM /\ S(c).pid \in Pid \cup {None}
  BY <1>3, Records
<1>5. ASSUME NEW p \in Pid \cup {None}
      PROVE  \E s \in Record \cup {NoRecord} :
               s = [S(c) EXCEPT !.pid = p] /\ s.vm = S(c).vm /\ s.pid = p
  <2>1. PICK r \in Record : r = S(c)
    BY <1>3
  <2>2. [r EXCEPT !.pid = p] \in Record
    BY DEF Record
  <2>3. [r EXCEPT !.pid = p].vm = r.vm /\ [r EXCEPT !.pid = p].pid = p
    BY DEF Record
  <2> QED
    BY <2>1, <2>2, <2>3
<1> USE DEF PC, May, PlacedAt, Setting, Tearing, Using
<1>6. CASE KillsDaemon(c)
  <2>1. Op(c) \in {"new", "run", "stop"} /\ cmd[c].pc = "kill"
    BY <1>6, Ops DEF KillsDaemon, At
  <2>2. PICK s \in Record \cup {NoRecord} :
          s = [S(c) EXCEPT !.pid = None] /\ s.vm = S(c).vm /\ s.pid = None
    BY <1>5
  <2>3. PICK q \in {"clear", "release"} : Goes(c, q, s) /\ (q = "clear" <=> Op(c) = "stop")
    BY <1>6, <2>2 DEF KillsDaemon
  <2>4. q \in PC /\ May(c, q, s)
    BY <2>1, <2>2, <2>3
  <2>5. /\ daemon' \in [Pid -> [name : Name, vm : VM, misses : 0..1] \cup {NoDaemon}]
        /\ spawned' \in 0..MaxPids /\ trouble' \in 0..MaxTrouble
    BY <1>6, State DEF KillsDaemon, Kill
  <2> QED
    BY <1>1, <2>3, <2>4, <2>5, TypeGoes
<1>7. CASE \/ Spawns(c, "kill") /\ Op(c) \in {"new", "run"}
           \/ Spawns(c, "undo") /\ Op(c) = "attach"
  <2>1. cmd[c].pc = "spawn"
    BY <1>7 DEF Spawns, At
  <2>2. CASE /\ spawned < MaxPids /\ spawned' = spawned + 1
             /\ daemon' = [daemon EXCEPT ![spawned + 1] =
                             [name |-> Me(c), vm |-> S(c).vm, misses |-> 0]]
             /\ Goes(c, "publish", [S(c) EXCEPT !.pid = spawned + 1])
             /\ UNCHANGED trouble
    <3>1. spawned + 1 \in Pid /\ spawned' \in 0..MaxPids /\ trouble' \in 0..MaxTrouble
      BY <2>2, State, Constants DEF Pid
    <3>2. PICK s \in Record \cup {NoRecord} :
            s = [S(c) EXCEPT !.pid = spawned + 1] /\ s.vm = S(c).vm /\ s.pid = spawned + 1
      BY <1>5, <3>1
    <3>3. PICK d \in [name : Name, vm : VM, misses : 0..1] :
            d = [name |-> Me(c), vm |-> S(c).vm, misses |-> 0]
      <4>1. PICK n \in Name, v \in VM : n = Me(c) /\ v = S(c).vm
        BY <1>3, <1>4
      <4>2. [name |-> n, vm |-> v, misses |-> 0] \in [name : Name, vm : VM, misses : 0..1]
        OBVIOUS
      <4> QED
        BY <4>1, <4>2
    <3>4. daemon' \in [Pid -> [name : Name, vm : VM, misses : 0..1] \cup {NoDaemon}]
      BY <2>2, <3>3, State
    <3>5. Goes(c, "publish", s) /\ "publish" \in PC /\ May(c, "publish", s)
      BY <1>7, <2>1, <2>2, <3>2
    <3> QED
      BY <1>1, <3>1, <3>4, <3>5, TypeGoes
  <2>3. ASSUME NEW q \in {"kill", "undo"}, Goes(c, q, S(c)), Trouble, UNCHANGED daemons,
               q = "kill" <=> Op(c) \in {"new", "run"}, q = "undo" <=> Op(c) = "attach"
        PROVE  TypeInv'
    <3>1. q \in PC /\ May(c, q, S(c))
      BY <2>1, <2>3
    <3>2. PICK s \in Record \cup {NoRecord} : s = S(c)
      BY <1>3
    <3>3. trouble' \in 0..MaxTrouble
      BY <2>3, State
    <3>4. UNCHANGED spawned
      BY <1>7, <2>3 DEF daemons
    <3> QED
      BY <1>1, <2>3, <3>1, <3>2, <3>3, TypePasses DEF daemons
  <2> QED
    BY <1>7, <2>2, <2>3 DEF Spawns
<1> QED
  BY <1>6, <1>7 DEF NewSpawns, AttachSpawns, Creates

LEMMA TypeSyncs ==
  ASSUME TypeInv, NEW c \in Slot, spoilt' \subseteq VM, SyncReads(c) \/ SyncLists(c) \/ PruneKills(c)
  PROVE  TypeInv'
<1>1. /\ UNCHANGED <<vms, made, known, store, spawned>> /\ spoilt' \subseteq VM
      /\ made <= made' /\ made' \in 0..MaxVMs /\ vms' \subseteq 1..made' /\ known' \subseteq 1..made'
      /\ store' \in [Name -> Record \cup {NoRecord}] /\ \A n \in Name : store'[n].vm <= made'
      /\ spawned' \in 0..MaxPids
  <2>1. UNCHANGED <<vms, made, known, store, spawned>>
    BY DEF SyncReads, SyncLists, PruneKills, server, daemons
  <2> QED
    BY <2>1, State
<1>2. daemon' \in [Pid -> [name : Name, vm : VM, misses : 0..1] \cup {NoDaemon}]
  <2>1. UNCHANGED daemon \/ \E p : Kill(p)
    BY DEF SyncReads, SyncLists, PruneKills, daemons
  <2> QED
    BY <2>1, State DEF Kill
<1>3. trouble' \in 0..MaxTrouble
  BY State DEF SyncReads, SyncLists, PruneKills
<1>4. ASSUME NEW k \in CmdType, cmd' = [cmd EXCEPT ![c] = k], Placed(k), Carries(k), k.s.vm <= made
      PROVE  TypeInv'
  BY <1>1, <1>2, <1>3, <1>4, TypeStep
<1>5. CASE SyncReads(c)
  <2>1. PICK l : l = {<<n, store[n].vm>> : n \in {m \in Name : Tracked(m)}}
    OBVIOUS
  <2>2. l \in SUBSET (Name \X VM)
    <3>1. \A n \in Name : Tracked(n) => store[n].vm \in VM
      BY TypeRecords, Records
    <3> QED
      BY <2>1, <3>1
  <2>3. PICK k : k = [op |-> "sync", pc |-> "list", name |-> "none", s |-> NoRecord, local |-> l]
    OBVIOUS
  <2>4. k \in CmdType /\ k.op = "sync" /\ k.pc = "list" /\ k.s = NoRecord
    BY <1>5, <2>2, <2>3 DEF SyncReads, CmdType, PC
  <2>5. cmd' = [cmd EXCEPT ![c] = k]
    <3>1. PICK j : j = [Idle EXCEPT !.op = "sync", !.pc = "list", !.local = l]
      OBVIOUS
    <3>2. j = [op |-> "sync", pc |-> "list", name |-> "none", s |-> NoRecord, local |-> l]
      BY <3>1 DEF Idle
    <3> QED
      BY <1>5, <2>1, <2>3, <3>1, <3>2 DEF SyncReads
  <2>6. Placed(k) /\ Carries(k) /\ k.s.vm <= made
    BY <2>4, TypeRecords DEF Placed, PlacedAt, Carries, Named
  <2> QED
    BY <1>4, <2>4, <2>5, <2>6
<1>6. PICK j \in CmdType : /\ j = cmd[c] /\ Carries(j) /\ j.s.vm <= made
                           /\ cmd \in [Slot -> CmdType]
  BY Held DEF S
<1>7. CASE SyncLists(c)
  <2>1. j.op = "sync" /\ j.s = NoRecord
    BY <1>6, <1>7, Ops DEF SyncLists, At, Carries, Op
  <2>2. CASE cmd' = [cmd EXCEPT ![c] = Idle]
    BY <1>4, <2>2, IdleIs, TypeRecords
  <2>3. CASE cmd' = [cmd EXCEPT ![c] = [@ EXCEPT !.pc = "prune", !.local = Stale(cmd[c].local)]]
    <3>1. PICK k : k = [j EXCEPT !.pc = "prune", !.local = Stale(j.local)]
      OBVIOUS
    <3>2. k \in CmdType /\ k.op = j.op /\ k.pc = "prune" /\ k.s = j.s
      BY <3>1 DEF CmdType, PC, Stale
    <3>3. cmd' = [cmd EXCEPT ![c] = k]
      BY <1>6, <2>3, <3>1
    <3>4. Placed(k) /\ Carries(k)
      BY <2>1, <3>2 DEF Placed, PlacedAt, Carries, Named
    <3> QED
      BY <1>4, <1>6, <3>2, <3>3, <3>4
  <2> QED
    BY <1>7, <2>2, <2>3 DEF SyncLists, Goes
<1>8. CASE PruneKills(c)
  <2>1. PICK e \in j.local :
          cmd' = [cmd EXCEPT ![c].pc = "forget", ![c].name = e[1], ![c].local = @ \ {e}]
    BY <1>6, <1>8 DEF PruneKills
  <2>2. j.op \in {"run", "exec", "console", "sync"} /\ j.pc = "prune" /\ e \in Name \X VM
    BY <1>6, <1>8, Ops DEF PruneKills, At, Op, CmdType
  <2>3. PICK k : k = [j EXCEPT !.pc = "forget", !.name = e[1], !.local = @ \ {e}]
    OBVIOUS
  <2>4. e[1] \in Name /\ j.local \ {e} \in SUBSET (Name \X VM)
    BY <2>2 DEF CmdType
  <2>5. /\ k \in CmdType /\ k.op = j.op /\ k.pc = "forget" /\ k.name = e[1] /\ k.s = j.s
        /\ k.local = j.local \ {e}
    BY <2>3, <2>4 DEF CmdType, PC
  <2>6. cmd' = [cmd EXCEPT ![c] = k]
    BY <1>6, <2>1, <2>3 DEF CmdType
  <2>7. j.op \in Named => e = <<j.name, j.s.vm>> /\ e[1] = j.name
    BY <1>6 DEF Carries
  <2>8. Placed(k) /\ Carries(k)
    BY <1>6, <2>2, <2>4, <2>5, <2>7 DEF Placed, PlacedAt, Using, Carries, Named
  <2> QED
    BY <1>4, <1>6, <2>5, <2>6, <2>8
<1> QED
  BY <1>5, <1>7, <1>8

LEMMA TypeEnds ==
  ASSUME TypeInv, NEW c \in Slot, spoilt' \subseteq VM,
         Dies(c) \/ UseIsLost(c) \/ UseMisreads(c)
  PROVE  TypeInv'
<1>1. UNCHANGED <<vms, made, known, store, daemons>> /\ (Dies(c) \/ Loses(c))
  BY DEF Dies, UseIsLost, UseMisreads, Loses, server
<1>2. trouble' \in 0..MaxTrouble /\ spoilt' \subseteq VM
  BY State DEF Dies, UseIsLost, UseMisreads
<1>3. CASE Dies(c)
  <2>1. PICK s \in Record \cup {NoRecord} : s = NoRecord
    OBVIOUS
  <2>2. Goes(c, "idle", s) /\ "idle" \in PC /\ May(c, "idle", s)
    BY <1>3, <2>1 DEF Dies, PC, May
  <2> QED
    BY <1>1, <1>2, <2>2, TypePasses
<1>4. CASE Loses(c)
  <2>1. PICK j \in CmdType : /\ j = cmd[c] /\ Carries(j) /\ j.s.vm <= made
                             /\ j.op \in {"run", "exec", "console"} /\ j.pc = "connect"
                             /\ cmd \in [Slot -> CmdType]
    BY <1>4, Held, Ops DEF Loses, At, Op, S
  <2>2. j.name \in Name /\ j.s \in Record /\ j.s.vm \in VM
    BY <2>1, Records DEF Carries, Named
  <2>3. PICK k : k = [j EXCEPT !.pc = "prune", !.local = {<<j.name, j.s.vm>>}]
    OBVIOUS
  <2>4. /\ k \in CmdType /\ k.op = j.op /\ k.pc = "prune" /\ k.name = j.name /\ k.s = j.s
        /\ k.local = {<<j.name, j.s.vm>>}
    <3>1. PICK l \in SUBSET (Name \X VM) : l = {<<j.name, j.s.vm>>}
      <4>1. PICK n \in Name, v \in VM : n = j.name /\ v = j.s.vm
        BY <2>2
      <4>2. {<<n, v>>} \in SUBSET (Name \X VM)
        OBVIOUS
      <4> QED
        BY <4>1, <4>2
    <3> QED
      BY <2>3, <3>1 DEF CmdType, PC
  <2>5. cmd' = [cmd EXCEPT ![c] = k]
    BY <1>4, <2>1, <2>3 DEF Loses, Me, S, CmdType
  <2>6. Placed(k) /\ Carries(k)
    BY <2>1, <2>2, <2>4 DEF Placed, PlacedAt, Using, Carries, Named
  <2>7. /\ made <= made' /\ made' \in 0..MaxVMs /\ vms' \subseteq 1..made'
        /\ known' \subseteq 1..made' /\ store' \in [Name -> Record \cup {NoRecord}]
        /\ \A n \in Name : store'[n].vm <= made'
        /\ daemon' \in [Pid -> [name : Name, vm : VM, misses : 0..1] \cup {NoDaemon}]
        /\ spawned' \in 0..MaxPids /\ k.s.vm <= made'
    BY <1>1, <2>1, <2>4, State DEF daemons
  <2> QED
    BY <1>2, <2>4, <2>5, <2>6, <2>7, TypeStep
<1> QED
  BY <1>1, <1>3, <1>4

\* The steps that are no command's.
LEMMA TypeAround ==
  ASSUME TypeInv, spoilt' \subseteq VM,
         \/ Opens \/ Vanishes \/ UNCHANGED vars
         \/ \E p \in Pid : Daemon(p)
  PROVE  TypeInv'
<1>1. UNCHANGED <<cmd, store, spawned>>
  BY DEF Opens, Vanishes, Daemon, DaemonEnds, DaemonPings, daemons, vars
<1>2. trouble' \in 0..MaxTrouble
  BY State DEF Opens, Vanishes, Daemon, DaemonEnds, DaemonPings, vars
<1>3. daemon' \in [Pid -> [name : Name, vm : VM, misses : 0..1] \cup {NoDaemon}]
  <2>1. CASE UNCHANGED daemon
    BY <2>1, State
  <2>2. ASSUME NEW p \in Pid, DaemonEnds(p)
        PROVE  daemon' \in [Pid -> [name : Name, vm : VM, misses : 0..1] \cup {NoDaemon}]
    BY <2>2, State DEF DaemonEnds, Kill
  <2>3. ASSUME NEW p \in Pid, DaemonPings(p)
        PROVE  daemon' \in [Pid -> [name : Name, vm : VM, misses : 0..1] \cup {NoDaemon}]
    <3>1. PICK d \in [name : Name, vm : VM, misses : 0..1] : d = daemon[p]
      BY <2>3, State DEF DaemonPings
    <3>2. [d EXCEPT !.misses = 0] \in [name : Name, vm : VM, misses : 0..1]
      OBVIOUS
    <3>3. ~(d.misses >= 1) => [name |-> d.name, vm |-> d.vm, misses |-> d.misses + 1]
                                \in [name : Name, vm : VM, misses : 0..1]
      OBVIOUS
    <3>4. daemon' = [daemon EXCEPT ![p] = [d EXCEPT !.misses = 0]]
          \/ daemon' = [daemon EXCEPT ![p] = NoDaemon]
          \/ /\ ~(d.misses >= 1)
             /\ daemon' = [daemon EXCEPT ![p] = [name |-> d.name, vm |-> d.vm,
                                                 misses |-> d.misses + 1]]
      BY <2>3, <3>1, State DEF DaemonPings, DaemonMisses
    <3> QED
      BY <3>2, <3>3, <3>4, State
  <2> QED
    BY <2>1, <2>2, <2>3 DEF Opens, Vanishes, Daemon, daemons, vars
<1>4. /\ made <= made' /\ made' \in 0..MaxVMs /\ vms' \subseteq 1..made' /\ known' \subseteq 1..made'
      /\ made' \in Nat
  <2>1. CASE Opens
    <3>1. made < MaxVMs /\ made' = made + 1 /\ vms' = vms \cup {made + 1}
          /\ known' = known \cup {made + 1}
      BY <2>1 DEF Opens, NewVM
    <3>2. made \in Nat /\ MaxVMs \in Nat /\ vms \subseteq 1..made /\ known \subseteq 1..made
      BY State, Constants
    <3>3. 1..made \subseteq 1..made' /\ made + 1 \in 1..made' /\ made <= made' /\ made' \in 0..MaxVMs
      BY <3>1, <3>2
    <3> QED
      BY <3>1, <3>2, <3>3
  <2>2. CASE vms' \subseteq vms /\ UNCHANGED <<made, known>>
    BY <2>2, State
  <2> QED
    BY <2>1, <2>2 DEF Vanishes, Daemon, DaemonEnds, DaemonPings, server, vars
<1>5. TypeOK'
  BY <1>1, <1>2, <1>3, <1>4, State DEF TypeInv, ShapeInv, TypeOK
<1>6. \A n \in Name : store'[n].vm <= made'
  <2>1. \A n \in Name : store[n].vm \in Nat /\ store[n].vm <= made
    BY State, Records
  <2> QED
    BY <1>1, <1>4, <2>1, State
<1>7. ASSUME NEW c \in Slot
      PROVE  Placed(cmd'[c]) /\ Carries(cmd'[c]) /\ cmd'[c].s.vm <= made'
  BY <1>1, <1>4, Held, State DEF S
<1> QED
  BY <1>5, <1>6, <1>7 DEF TypeInv, ShapeInv, S

LEMMA TypeInit == Init => TypeInv
<1> SUFFICES ASSUME Init PROVE TypeInv
  OBVIOUS
<1>1. \A c \in Slot : cmd[c] = Idle
  BY DEF Init
<1>2. TypeOK
  <2>1. cmd \in [Slot -> CmdType]
    BY IdleIs DEF Init
  <2>2. /\ vms \subseteq 1..made /\ made \in 0..MaxVMs /\ known \subseteq 1..made
        /\ spawned \in 0..MaxPids /\ trouble \in 0..MaxTrouble /\ spoilt \subseteq VM
    <3>1. 0 \in 0..MaxVMs /\ 0 \in 0..MaxPids /\ 0 \in 0..MaxTrouble
      BY Constants
    <3>2. /\ vms = {} /\ made = 0 /\ known = {} /\ spawned = 0 /\ trouble = 0 /\ spoilt = {}
      BY DEF Init
    <3> QED
      BY <3>1, <3>2
  <2>3. store \in [Name -> Record \cup {NoRecord}]
    BY DEF Init
  <2>4. daemon \in [Pid -> [name : Name, vm : VM, misses : 0..1] \cup {NoDaemon}]
    BY DEF Init
  <2>5. cmd \in [Slot -> [op : Command \cup {"none"}, pc : PC, name : Name \cup {"none"},
                         s : Record \cup {NoRecord}, local : SUBSET (Name \X VM)]]
    BY <2>1 DEF CmdType
  <2> QED
    BY <2>2, <2>3, <2>4, <2>5 DEF TypeOK
<1>3. \A n \in Name : store[n].vm <= made
  <2>1. NoRecord.vm = 0 /\ made = 0
    BY Constants DEF Init
  <2>2. \A n \in Name : store[n] = NoRecord
    BY DEF Init
  <2>3. NoRecord.vm <= made
    BY <2>1
  <2> QED
    BY <2>2, <2>3
<1>4. \A c \in Slot : Placed(cmd[c]) /\ Carries(cmd[c]) /\ S(c).vm <= made
  <2>1. NoRecord.vm <= made
    BY Constants DEF Init
  <2> QED
    BY <1>1, <2>1, IdleIs DEF S
<1> QED
  BY <1>2, <1>3, <1>4 DEF TypeInv, ShapeInv

LEMMA TypeNext == TypeInv /\ [Next]_vars => TypeInv'
<1> SUFFICES ASSUME TypeInv, [Next]_vars PROVE TypeInv'
  OBVIOUS
<1>1. (\E a : Spoils(a)) => spoilt' \subseteq VM
  BY State DEF Spoils, Met
<1>2. ASSUME NEW c \in Slot, Works(c), spoilt' \subseteq VM PROVE TypeInv'
  <2>1. CASE New(c)
    BY <1>2, <2>1, TypeLooks, TypeAssigns, TypeWrites, TypeProcesses, TypePublishes DEF New
  <2>2. CASE Stop(c)
    BY <1>2, <2>2, TypeLooks, TypeWrites, TypeProcesses, TypePlain, TypeRemoves DEF Stop, RollsBack
  <2>3. CASE Sync(c)
    BY <1>2, <2>3, TypeSyncs, TypeRemoves DEF Sync
  <2>4. CASE Use(c)
    BY <1>2, <2>4, TypeLooks, TypeWrites, TypePlain, TypeEnds DEF Use, Exec
  <2>5. CASE Attach(c)
    BY <1>2, <2>5, TypeLooks, TypePlain, TypePublishes, TypeProcesses, TypeRemoves DEF Attach
  <2> QED
    BY <1>2, <2>1, <2>2, <2>3, <2>4, <2>5 DEF Works
<1>3. ASSUME NEW c \in Slot, NewIsUnheard(c) \/ UseMisreads(c) \/ Dies(c), spoilt' \subseteq VM
      PROVE  TypeInv'
  BY <1>3, TypeAssigns, TypeEnds
<1>4. CASE ((Opens \/ Vanishes) /\ spoilt' \subseteq VM) \/ UNCHANGED vars
  BY <1>4, State, TypeAround DEF vars
<1>5. ASSUME NEW p \in Pid, Daemon(p), spoilt' \subseteq VM PROVE TypeInv'
  BY <1>5, TypeAround
<1> QED
  BY <1>1, <1>2, <1>3, <1>4, <1>5 DEF Next

\* Whatever fails, meets or is misread, every command is where its code can
\* be, and carries a session record there that is whole.
THEOREM TypeCorrect == Spec => []TypeOK
<1>1. TypeInv => TypeOK
  BY DEF TypeInv, ShapeInv
<1> QED
  BY <1>1, TypeInit, TypeNext, PTL DEF Spec
-----------------------------------------------------------------------------
(* What the invariant says of a command, of two, and of a VM *)

LEMMA Typed ==
  ASSUME SessionsInv
  PROVE  TypeInv /\ FreshInv /\ VMInv /\ KnownInv /\ DaemonInv
BY DEF SessionsInv, TypeInv

LEMMA SoundIs ==
  ASSUME SessionsInv
  PROVE  /\ Sound \subseteq vms /\ Sound \subseteq VM /\ None \notin Sound /\ NoRecord.vm \notin Sound
         /\ \A v \in Sound : v \in 1..made /\ v \notin spoilt
<1>1. vms \subseteq 1..made /\ made \in 0..MaxVMs
  BY Typed, State
<1>2. 1..made \subseteq VM /\ 0 \notin 1..made
  BY <1>1, Constants DEF VM
<1> QED
  BY <1>1, <1>2, Constants DEF Sound

\* Two commands that meet have spoilt VMs.
LEMMA MeetIs ==
  ASSUME SessionsInv, NEW c \in Slot, NEW d \in Slot, c # d, Meets(c, d) \/ Meets(d, c)
  PROVE  /\ S(c).vm \notin Sound /\ (S(c).vm # None => S(c).vm \in spoilt)
         /\ S(d).vm \notin Sound /\ (S(d).vm # None => S(d).vm \in spoilt)
<1>1. Met \subseteq spoilt
  BY Typed DEF VMInv
<1>2. \A v \in VM : v \in {S(c).vm, S(d).vm} => v \in Met
  BY DEF Met
<1>3. S(c).vm \in VM \cup {None} /\ S(d).vm \in VM \cup {None}
  BY Typed, Held, Records
<1> QED
  BY <1>1, <1>2, <1>3, SoundIs

\* Two commands of one session agree on its VM, or theirs are spoilt.
LEMMA Shared ==
  ASSUME SessionsInv, NEW c \in Slot, NEW d \in Slot, c # d, Me(c) = Me(d), Me(c) \in Name
  PROVE  \/ S(c).vm = S(d).vm /\ ~SetsUp(c) /\ ~SetsUp(d)
         \/ /\ S(c).vm \notin Sound /\ (S(c).vm # None => S(c).vm \in spoilt)
            /\ S(d).vm \notin Sound /\ (S(d).vm # None => S(d).vm \in spoilt)
<1>1. CASE S(c).vm # S(d).vm \/ SetsUp(c) \/ SetsUp(d)
  <2>1. Meets(c, d) \/ Meets(d, c)
    BY <1>1 DEF Meets
  <2> QED
    BY <2>1, MeetIs
<1> QED
  BY <1>1

LEMMA FitsLess ==
  ASSUME NEW k, NEW r, NEW l, NEW s, NEW l2, NEW s2, l2 \subseteq l, s2 \subseteq s,
         FitsNamed(k, r, l, s)
  PROVE  FitsNamed(k, r, l2, s2)
BY DEF FitsNamed
-----------------------------------------------------------------------------
(* A step of a command that goes on: it may write or remove its record, end   *)
(* daemons, and see VMs go                                                    *)

Moves(c, k) ==
  /\ cmd' = [cmd EXCEPT ![c] = k] /\ UNCHANGED made
  /\ vms' \subseteq vms /\ known \subseteq known' /\ spoilt \subseteq spoilt' /\ Met' \subseteq spoilt'
  /\ k.op \in {"none", Op(c)} /\ (k.op \in Named => k.name = Me(c) /\ k.s.vm = S(c).vm)
  /\ \A e \in k.local : e[2] <= made

Puts(c) ==
  /\ Op(c) \in Named /\ S(c) \in Record /\ ~At(c, "find")
  /\ store' = [store EXCEPT ![Me(c)] = S(c)]
  /\ \A n \in Name : S(c).vm \in Sound /\ store[n].vm = S(c).vm => n = Me(c)
Takes(c) ==
  /\ Me(c) \in Name /\ store' = [store EXCEPT ![Me(c)] = NoRecord]
  /\ store[Me(c)].vm \notin Sound \/ (Op(c) = "attach" /\ At(c, "unclaim"))
Writes(c) == UNCHANGED store \/ Puts(c) \/ Takes(c)

LEMMA MovesIs ==
  ASSUME SessionsInv, NEW c \in Slot, NEW k, Moves(c, k)
  PROVE  /\ \A d \in Slot \ {c} : cmd'[d] = cmd[d] /\ S(d)' = S(d) /\ Me(d)' = Me(d) /\ Op(d)' = Op(d)
         /\ cmd'[c] = k /\ S(c)' = k.s /\ Me(c)' = k.name /\ Op(c)' = k.op
         /\ Sound' \subseteq Sound
<1>1. cmd \in [Slot -> CmdType]
  BY Typed DEF TypeInv, TypeOK, CmdType
<1>2. cmd'[c] = k /\ \A d \in Slot \ {c} : cmd'[d] = cmd[d]
  BY <1>1 DEF Moves
<1> QED
  BY <1>2 DEF Moves, S, Me, Op, Sound

\* What is written is of the command, or nothing.
LEMMA WritesIs ==
  ASSUME SessionsInv, NEW c \in Slot, Writes(c)
  PROVE  /\ \A n \in Name : n # Me(c) => store'[n] = store[n]
         /\ \/ store' = store
            \/ Puts(c) /\ store'[Me(c)] = S(c) /\ Me(c) \in Name /\ S(c).vm # None
            \/ Takes(c) /\ store'[Me(c)] = NoRecord /\ store'[Me(c)].vm = None /\ Me(c) \in Name
<1>1. store \in [Name -> Record \cup {NoRecord}]
  BY Typed, State
<1>2. CASE Puts(c)
  <2>1. Me(c) \in Name /\ S(c).vm # None
    BY <1>2, Typed, Has, Records DEF Puts
  <2> QED
    BY <1>1, <1>2, <2>1 DEF Puts
<1>3. CASE Takes(c)
  BY <1>1, <1>3, Constants DEF Takes
<1> QED
  BY <1>2, <1>3 DEF Writes

\* The other commands on named sessions.
LEMMA OthersFit ==
  ASSUME SessionsInv, NEW c \in Slot, NEW k, Moves(c, k), Writes(c),
         NEW d \in Slot \ {c}, Op(d) \in Named
  PROVE  FitsNamed(cmd[d], store'[Me(d)], vms', Sound')
<1>1. FitsNamed(cmd[d], store[Me(d)], vms, Sound)
  BY Typed DEF VMInv, Fits, Op, Me
<1>2. Sound' \subseteq Sound /\ vms' \subseteq vms
  BY MovesIs DEF Moves
<1>3. Me(d) \in Name
  BY Typed, Has
<1>4. CASE store'[Me(d)] = store[Me(d)]
  BY <1>1, <1>2, <1>4, FitsLess
<1>5. CASE store'[Me(d)] # store[Me(d)]
  <2>1. Me(d) = Me(c)
    BY <1>3, <1>5, WritesIs
  <2>2. \/ S(c).vm = S(d).vm /\ ~SetsUp(c) /\ ~SetsUp(d)
        \/ S(c).vm \notin Sound /\ S(d).vm \notin Sound
    <3>1. d \in Slot /\ c # d /\ Me(c) = Me(d) /\ Me(c) \in Name
      BY <1>3, <2>1
    <3> QED
      BY <3>1, Shared
  <2>3. cmd[d].s = S(d) /\ (cmd[d].pc \in {"find", "claim"} => SetsUp(d))
    <3>1. cmd[d].pc \in {"find", "claim"} => Op(d) = "attach"
      BY Typed, Ops
    <3> QED
      BY <3>1 DEF S, SetsUp
  <2>4. CASE Puts(c) /\ store'[Me(d)].vm = S(c).vm
    BY <1>1, <1>2, <2>2, <2>3, <2>4 DEF FitsNamed
  <2>5. CASE Takes(c) /\ store'[Me(d)].vm = None
    <3>1. S(d).vm \notin Sound \/ store[Me(c)].vm \notin Sound
      BY <2>2, <2>5 DEF Takes, SetsUp
    <3>2. S(d).vm \in Sound /\ (cmd[d].op = "stop" \/ cmd[d].pc \in Owning) => store[Me(d)].vm = S(d).vm
      BY <1>1, <2>3 DEF FitsNamed
    <3>3. None \notin Sound
      BY SoundIs
    <3> QED
      BY <1>1, <1>2, <2>1, <2>3, <2>5, <3>1, <3>2, <3>3 DEF FitsNamed
  <2> QED
    BY <1>5, <2>1, <2>4, <2>5, WritesIs
<1> QED
  BY <1>4, <1>5

\* The prunes beside it.
LEMMA OthersSync ==
  ASSUME SessionsInv, NEW c \in Slot, NEW k, Moves(c, k), Writes(c),
         NEW d \in Slot \ {c}, Op(d) = "sync"
  PROVE  FitsSync(cmd[d], store', vms', Sound')
<1>1. FitsSync(cmd[d], store, vms, Sound)
  BY Typed DEF VMInv, Fits, Op
<1>2. Sound' \subseteq Sound /\ vms' \subseteq vms
  BY MovesIs DEF Moves
<1>3. ASSUME NEW e \in cmd[d].local
      PROVE  store'[e[1]].vm = e[2] \/ store'[e[1]].vm \notin Sound'
  <2>1. store[e[1]].vm = e[2] \/ store[e[1]].vm \notin Sound
    BY <1>1 DEF FitsSync
  <2>2. e[1] \in Name
    BY Typed, Held DEF CmdType
  <2>3. CASE store'[e[1]] = store[e[1]]
    BY <1>2, <2>1, <2>3
  <2>4. CASE store'[e[1]] # store[e[1]]
    <3>1. e[1] = Me(c)
      BY <2>2, <2>4, WritesIs
    <3>2. CASE store'[e[1]].vm = None
      BY <1>2, <3>2, SoundIs
    <3>3. CASE store'[e[1]].vm = S(c).vm
      <4>1. d \in Slot /\ c # d /\ (S(c).vm = e[2] \/ Meets(c, d))
        BY <2>2, <3>1 DEF Meets
      <4>2. S(c).vm = e[2] \/ S(c).vm \notin Sound
        BY <4>1, MeetIs
      <4> QED
        BY <1>2, <3>3, <4>2
    <3> QED
      BY <2>4, <3>1, <3>2, <3>3, WritesIs
  <2> QED
    BY <2>3, <2>4
<1>4. ASSUME cmd[d].pc = "forget" PROVE store'[cmd[d].name].vm \notin Sound'
  <2>1. Me(d) \in Name /\ S(d).vm = None /\ store[Me(d)].vm \notin Sound
    <3>1. Carries(cmd[d])
      BY Typed, Held
    <3> QED
      BY <1>1, <1>4, <3>1, Constants DEF Carries, FitsSync, Me, Op, S
  <2>2. CASE store'[Me(d)] = store[Me(d)]
    BY <1>2, <2>1, <2>2 DEF Me
  <2>3. CASE store'[Me(d)] # store[Me(d)]
    <3>1. Me(c) = Me(d)
      BY <2>1, <2>3, WritesIs
    <3>2. S(c).vm # None => S(c).vm \notin Sound
      <4>1. d \in Slot /\ c # d /\ Me(c) = Me(d) /\ Me(c) \in Name
        BY <2>1, <3>1
      <4> QED
        BY <2>1, <4>1, Shared
    <3>3. store'[Me(d)].vm \in {None, S(c).vm}
      BY <2>3, <3>1, WritesIs
    <3> QED
      BY <1>2, <3>2, <3>3, SoundIs DEF Me
  <2> QED
    BY <2>2, <2>3
<1>5. \A e \in cmd[d].local : cmd[d].pc # "list" => e[2] \notin vms'
  BY <1>1, <1>2 DEF FitsSync
<1> QED
  BY <1>3, <1>4, <1>5 DEF FitsSync

\* The record a command has, and the VM it stands for.
LEMMA OwnRecord ==
  ASSUME SessionsInv, NEW c \in Slot, Op(c) \in Named
  PROVE  /\ store[Me(c)].vm = S(c).vm \/ store[Me(c)].vm \notin Sound
         /\ S(c).vm \in Sound /\ (Op(c) = "stop" \/ cmd[c].pc \in Owning) => store[Me(c)].vm = S(c).vm
         /\ S(c).vm \in Sound /\ cmd[c].pc \in {"find", "claim"} => store[Me(c)].vm # S(c).vm
         /\ cmd[c].pc = "drop" => S(c).vm \notin vms
         /\ cmd[c].pc \in {"prune", "forget"} => S(c).vm \notin Sound
<1>1. FitsNamed(cmd[c], store[Me(c)], vms, Sound)
  BY Typed DEF VMInv, Fits, Op, Me
<1> QED
  BY <1>1 DEF FitsNamed, S, Op

LEMMA MovesOnes ==
  ASSUME SessionsInv, NEW c \in Slot, NEW k, Moves(c, k), Writes(c)
  PROVE  OneSessionPerVM' /\ \A d \in Slot : Mine(d)'
<1>1. OneSessionPerVM /\ \A d \in Slot : Mine(d)
  BY Typed DEF VMInv
<1>2. Sound' \subseteq Sound /\ None \notin Sound
  BY MovesIs, SoundIs
<1>3. ASSUME NEW n \in Name, store'[n].vm \in Sound, store'[n] # store[n]
      PROVE  /\ n = Me(c) /\ store'[n].vm = S(c).vm
             /\ \A m \in Name : store[m].vm = S(c).vm => m = n
  <2>1. n = Me(c) /\ Puts(c) /\ store'[n] = S(c)
    BY <1>2, <1>3, WritesIs
  <2> QED
    BY <1>3, <2>1 DEF Puts
<1>4. ASSUME NEW n \in Name, NEW m \in Name, store'[n].vm \in Sound', store'[n].vm = store'[m].vm
      PROVE  n = m
  <2>1. store'[n].vm \in Sound /\ store'[m].vm \in Sound
    BY <1>2, <1>4
  <2>2. CASE store'[n] = store[n] /\ store'[m] = store[m]
    BY <1>1, <1>4, <2>1, <2>2 DEF OneSessionPerVM
  <2>3. CASE store'[n] # store[n] /\ store'[m] # store[m]
    BY <1>3, <2>1, <2>3
  <2>4. CASE store'[n] # store[n] /\ store'[m] = store[m]
    BY <1>3, <1>4, <2>1, <2>4
  <2>5. CASE store'[n] = store[n] /\ store'[m] # store[m]
    BY <1>3, <1>4, <2>1, <2>5
  <2> QED
    BY <2>2, <2>3, <2>4, <2>5
<1>5. ASSUME NEW d \in Slot, Creates(d)', S(d)'.vm \in Sound', NEW n \in Name,
             store'[n].vm = S(d)'.vm
      PROVE  n = Me(d)'
  <2>1. Creates(d) /\ S(d).vm = S(d)'.vm /\ Me(d) = Me(d)' /\ S(d).vm \in Sound
    <3>1. CASE d = c
      <4>1. k.op \in {"new", "run"} /\ k.op \in Named
        BY <1>5, <3>1, MovesIs DEF Creates, Named
      <4>2. k.op = Op(c) /\ k.name = Me(c) /\ k.s.vm = S(c).vm
        BY <4>1 DEF Moves
      <4> QED
        BY <1>2, <1>5, <3>1, <4>1, <4>2, MovesIs DEF Creates
    <3>2. CASE d # c
      BY <1>2, <1>5, <3>2, MovesIs DEF Creates
    <3> QED
      BY <3>1, <3>2
  <2>2. CASE store'[n] = store[n]
    BY <1>1, <1>5, <2>1, <2>2 DEF Mine
  <2>3. CASE store'[n] # store[n]
    <3>1. n = Me(c) /\ S(c).vm = S(d).vm
      BY <1>3, <1>5, <2>1, <2>3
    <3>2. Me(d) \in Name
      BY <2>1, Typed, Has DEF Creates, Named
    <3>3. d = c \/ Me(c) = Me(d) \/ Meets(d, c)
      BY <2>1, <3>1, <3>2 DEF Meets
    <3>4. ~(d # c /\ Meets(d, c))
      BY <2>1, MeetIs
    <3> QED
      BY <2>1, <3>1, <3>3, <3>4
  <2> QED
    BY <2>2, <2>3
<1>6. OneSessionPerVM'
  BY <1>4 DEF OneSessionPerVM
<1>7. \A d \in Slot : Mine(d)'
  BY <1>5 DEF Mine
<1> QED
  BY <1>6, <1>7

\* A command that ends leaves no VM it created without a record.
Leaves(c, k) ==
  Creates(c) /\ S(c).vm \in Sound' =>
    k.op = Op(c) \/ S(c).vm \in known' \/ \E n \in Name : store'[n].vm = S(c).vm

LEMMA MovesKnown ==
  ASSUME SessionsInv, NEW c \in Slot, NEW k, Moves(c, k), Writes(c), Leaves(c, k)
  PROVE  KnownInv'
<1>1. Accounted /\ \A d \in Slot : Attaches(cmd[d])
  BY Typed DEF KnownInv
<1>2. Sound' \subseteq Sound /\ None \notin Sound /\ known \subseteq known'
  BY MovesIs, SoundIs DEF Moves
<1>3. ASSUME NEW d \in Slot PROVE Attaches(cmd[d])'
  <2>1. CASE d # c
    BY <1>1, <1>2, <2>1, MovesIs DEF Attaches
  <2>2. CASE d = c
    <3>1. k.op = "attach" => Op(c) = "attach" /\ k.s.vm = S(c).vm
      BY DEF Moves, Named
    <3>2. Attaches(cmd[c])
      BY <1>1
    <3> QED
      BY <1>2, <2>2, <3>1, <3>2, MovesIs DEF Attaches, Op, S
  <2> QED
    BY <2>1, <2>2
<1>4. ASSUME NEW v \in Sound'
      PROVE  v \in known' \/ Claimed(v)' \/ \E d \in Slot : Creates(d)' /\ S(d)'.vm = v
  <2>1. v \in Sound /\ (v \in known \/ Claimed(v) \/ \E d \in Slot : Creates(d) /\ S(d).vm = v)
    BY <1>1, <1>2 DEF Accounted
  <2>2. CASE v \in known
    BY <1>2, <2>2
  <2>3. CASE Claimed(v)
    <3>1. PICK n \in Name : store[n].vm = v
      BY <2>3 DEF Claimed
    <3>2. CASE store'[n] = store[n]
      BY <3>1, <3>2 DEF Claimed
    <3>3. CASE Puts(c) /\ n = Me(c) /\ store'[n] = S(c)
      <4>1. store'[n].vm = v
        BY <2>1, <3>1, <3>3, OwnRecord DEF Puts
      <4> QED
        BY <4>1 DEF Claimed
    <3>4. CASE Takes(c) /\ n = Me(c)
      <4>1. Op(c) = "attach" /\ At(c, "unclaim")
        BY <2>1, <3>1, <3>4 DEF Takes
      <4>2. S(c).vm = v
        BY <2>1, <3>1, <3>4, <4>1, OwnRecord DEF Named
      <4> QED
        BY <1>1, <1>2, <2>1, <4>1, <4>2 DEF Attaches, Op, S
    <3> QED
      BY <3>2, <3>3, <3>4, WritesIs
  <2>4. ASSUME NEW d \in Slot, Creates(d), S(d).vm = v
        PROVE  v \in known' \/ Claimed(v)' \/ \E e \in Slot : Creates(e)' /\ S(e)'.vm = v
    <3>1. CASE d # c
      <4>1. Creates(d)' /\ S(d)'.vm = v
        BY <2>4, <3>1, MovesIs DEF Creates
      <4> QED
        BY <4>1
    <3>2. CASE d = c /\ k.op = Op(c)
      <4>1. k.op \in Named
        BY <2>4, <3>2 DEF Creates, Named
      <4>2. Creates(d)' /\ S(d)'.vm = v
        BY <2>4, <3>2, <4>1, MovesIs DEF Creates, Moves
      <4> QED
        BY <4>2
    <3>3. CASE d = c /\ k.op # Op(c)
      <4>1. S(c).vm \in Sound' /\ Creates(c)
        BY <2>4, <3>3
      <4>2. v \in known' \/ \E n \in Name : store'[n].vm = v
        BY <2>4, <3>3, <4>1 DEF Leaves
      <4> QED
        BY <4>2 DEF Claimed
    <3> QED
      BY <3>1, <3>2, <3>3
  <2> QED
    BY <2>1, <2>2, <2>3, <2>4
<1> QED
  BY <1>3, <1>4 DEF KnownInv, Accounted

\* Daemons only end.
Shrinks ==
  \A p \in Pid : daemon'[p] # NoDaemon =>
    daemon[p] # NoDaemon /\ daemon'[p].name = daemon[p].name /\ daemon'[p].vm = daemon[p].vm

\* The daemon a command spawned is named by the record, ended or still its own.
Hands(c) ==
  \A p \in Pid : daemon'[p] # NoDaemon /\ Mends(c, p) =>
    daemon[p].vm \in spoilt' \/ Mends(c, p)' \/ (SetsUp(c) /\ store'[Me(c)] = S(c))

LEMMA DaemonIs ==
  ASSUME SessionsInv, NEW p \in Pid, daemon[p] # NoDaemon
  PROVE  /\ daemon[p].name \in Name /\ daemon[p].vm \in VM /\ daemon[p].vm # None
         /\ daemon[p].vm <= made
<1>1. daemon[p] \in [name : Name, vm : VM, misses : 0..1]
  BY Typed, State
<1>2. daemon[p].name \in Name /\ daemon[p].vm \in VM
  BY <1>1
<1>3. daemon[p].vm <= made
  BY Typed DEF FreshInv
<1> QED
  BY <1>2, <1>3, Constants

LEMMA MendsStay ==
  ASSUME SessionsInv, NEW c \in Slot, NEW k, Moves(c, k), Shrinks,
         NEW p \in Pid, daemon'[p] # NoDaemon, NEW d \in Slot \ {c}, Mends(d, p)
  PROVE  Mends(d, p)'
<1>1. cmd'[d] = cmd[d]
  BY MovesIs
<1> QED
  BY <1>1 DEF Mends, Shrinks, Me, S, Op, Creates

LEMMA MovesDaemons ==
  ASSUME SessionsInv, NEW c \in Slot, NEW k, Moves(c, k), Writes(c), Shrinks, Hands(c), Watches(c)'
  PROVE  DaemonInv'
<1>1. Sound' \subseteq Sound /\ None \notin Sound /\ spoilt \subseteq spoilt'
  BY MovesIs, SoundIs DEF Moves
<1>2. ASSUME NEW p \in Pid, daemon'[p] # NoDaemon, Mends(c, p)
      PROVE  daemon[p].vm \in spoilt' \/ Mends(c, p)' \/ (SetsUp(c) /\ store'[Me(c)] = S(c))
  BY <1>2 DEF Hands
<1>3. ASSUME NEW p \in Pid, daemon'[p] # NoDaemon
      PROVE  /\ daemon[p] # NoDaemon /\ daemon'[p].name = daemon[p].name /\ daemon'[p].vm = daemon[p].vm
             /\ daemon[p].name \in Name /\ daemon[p].vm \in VM /\ daemon[p].vm # None
  <2>1. daemon[p] # NoDaemon /\ daemon'[p].name = daemon[p].name /\ daemon'[p].vm = daemon[p].vm
    BY <1>3 DEF Shrinks
  <2> QED
    BY <2>1, DaemonIs
<1>4. ASSUME NEW d \in Slot, d # c PROVE Watches(d)'
  <2>1. cmd'[d] = cmd[d] /\ Me(d)' = Me(d) /\ S(d)' = S(d) /\ Op(d)' = Op(d) /\ At(d, "find")' = At(d, "find")
        /\ At(d, "unclaim")' = At(d, "unclaim")
    BY <1>4, MovesIs DEF At
  <2> SUFFICES ASSUME Op(d) \in Named, ~At(d, "find"), NEW p \in Pid, daemon'[p] # NoDaemon,
                      daemon'[p].name = Me(d), daemon'[p].vm = S(d).vm
               PROVE  \/ S(d).vm \in spoilt'
                      \/ ~At(d, "unclaim") /\ (p = S(d).pid \/ \E e \in Slot : Mends(e, p)')
    BY <2>1 DEF Watches
  <2>2. /\ daemon[p] # NoDaemon /\ daemon[p].name = Me(d) /\ daemon[p].vm = S(d).vm
        /\ Me(d) \in Name /\ S(d).vm # None
    BY <1>3
  <2>3. Watches(d)
    BY Typed DEF DaemonInv
  <2>4. \/ S(d).vm \in spoilt
        \/ ~At(d, "unclaim") /\ (p = S(d).pid \/ \E e \in Slot : Mends(e, p))
    BY <2>2, <2>3 DEF Watches
  <2>5. ASSUME Mends(c, p) PROVE S(d).vm \in spoilt' \/ Mends(c, p)'
    <3>1. CASE SetsUp(c)
      <4>1. Me(c) = Me(d) /\ S(c).vm = S(d).vm
        BY <2>2, <2>5 DEF Mends
      <4>2. S(d).vm \in spoilt
        BY <1>4, <2>2, <3>1, <4>1, Shared
      <4> QED
        BY <1>1, <4>2
    <3> QED
      BY <1>2, <2>2, <2>5, <3>1
  <2>6. \A e \in Slot : e # c /\ Mends(e, p) => Mends(e, p)'
    BY MendsStay
  <2> QED
    BY <1>1, <2>4, <2>5, <2>6
<1>5. ASSUME NEW p \in Pid PROVE Minded(p)'
  <2> SUFFICES ASSUME daemon'[p] # NoDaemon PROVE Minded(p)'
    BY DEF Minded
  <2> DEFINE n == daemon[p].name
             v == daemon[p].vm
  <2>1. daemon[p] # NoDaemon /\ daemon'[p].name = n /\ daemon'[p].vm = v /\ n \in Name /\ v \in VM /\ v # None
    BY <1>3
  <2>2. /\ v \in Sound => store[n].vm = v
        /\ store[n].vm = v => v \in spoilt \/ store[n].pid = p \/ \E d \in Slot : Mends(d, p)
    <3>1. Minded(p)
      BY Typed DEF DaemonInv
    <3> QED
      BY <2>1, <3>1 DEF Minded, Serves
  <2>3. \A d \in Slot : d # c /\ Mends(d, p) => Mends(d, p)'
    BY MendsStay
  <2>4. Mends(c, p) => v \in spoilt' \/ Mends(c, p)' \/ store'[n].pid = p
    BY <1>2 DEF Mends
  <2> HIDE DEF n, v
  <2>5. /\ v \in Sound' => store'[n].vm = v
        /\ store'[n].vm = v => v \in spoilt' \/ store'[n].pid = p \/ \E d \in Slot : Mends(d, p)'
    <3>1. CASE store'[n] = store[n]
      BY <1>1, <2>2, <2>3, <2>4, <3>1
    <3>2. CASE Puts(c) /\ n = Me(c) /\ store'[n] = S(c)
      <4>1. v \in Sound => S(c).vm = v
        BY <2>2, <3>2, OwnRecord DEF Puts
      <4>2. CASE S(c).vm = v
        <5>1. Watches(c) /\ Op(c) \in Named
          BY <3>2, Typed DEF DaemonInv, Puts
        <5>2. v \in spoilt \/ p = S(c).pid \/ \E d \in Slot : Mends(d, p)
          BY <2>1, <3>2, <4>2, <5>1 DEF Watches, Puts, n, v
        <5>3. Mends(c, p) => p = S(c).pid
          BY DEF Mends
        <5> QED
          BY <1>1, <2>3, <3>2, <4>2, <5>2, <5>3
      <4> QED
        BY <1>1, <3>2, <4>1, <4>2
    <3>3. CASE Takes(c) /\ n = Me(c) /\ store'[n].vm = None
      <4>1. ASSUME v \in Sound' PROVE FALSE
        <5>1. v \in Sound /\ store[n].vm = v
          BY <1>1, <2>2, <4>1
        <5>2. Op(c) = "attach" /\ At(c, "unclaim")
          BY <3>3, <5>1 DEF Takes
        <5>3. S(c).vm = v
          BY <3>3, <5>1, <5>2, OwnRecord DEF Named
        <5>4. Watches(c) /\ Op(c) \in Named /\ ~At(c, "find")
          BY <5>2, Typed DEF DaemonInv, Named, At
        <5>5. v \in spoilt
          BY <2>1, <3>3, <5>2, <5>3, <5>4 DEF Watches, n, v
        <5> QED
          BY <5>1, <5>5, SoundIs
      <4> QED
        BY <2>1, <3>3, <4>1
    <3> QED
      BY <2>1, <3>1, <3>2, <3>3, WritesIs
  <2> QED
    BY <2>1, <2>5 DEF Minded, Serves
<1> QED
  BY <1>4, <1>5 DEF DaemonInv

LEMMA MovesInv ==
  ASSUME SessionsInv, TypeInv', NEW c \in Slot, NEW k, Moves(c, k), Writes(c), Shrinks,
         Leaves(c, k), Hands(c), Watches(c)',
         k.op \in Named => FitsNamed(k, store'[k.name], vms', Sound'),
         k.op = "sync" => FitsSync(k, store', vms', Sound')
  PROVE  SessionsInv'
<1>1. ASSUME NEW d \in Slot PROVE Fits(cmd[d], store, vms, Sound)'
  <2>1. CASE d = c
    BY <2>1, MovesIs DEF Fits
  <2>2. CASE d # c
    <3>1. cmd'[d] = cmd[d] /\ Op(d) = cmd[d].op /\ Me(d) = cmd[d].name /\ d \in Slot \ {c}
      BY <2>2, MovesIs DEF Op, Me
    <3> QED
      BY <3>1, OthersFit, OthersSync DEF Fits
  <2> QED
    BY <2>1, <2>2
<1>2. VMInv'
  BY <1>1, MovesOnes DEF VMInv, Moves
<1>3. FreshInv'
  <2>1. ASSUME NEW d \in Slot, NEW e \in cmd'[d].local PROVE e[2] <= made'
    <3>1. d = c => e \in k.local
      BY <2>1, MovesIs
    <3>2. d # c => e \in cmd[d].local
      BY <2>1, MovesIs
    <3> QED
      BY <3>1, <3>2, Typed DEF Moves, FreshInv
  <2>2. ASSUME NEW p \in Pid, daemon'[p] # NoDaemon PROVE daemon'[p].vm <= made'
    BY <2>2, Typed DEF Shrinks, FreshInv, Moves
  <2> QED
    BY <2>1, <2>2 DEF FreshInv
<1> QED
  BY <1>2, <1>3, MovesKnown, MovesDaemons DEF SessionsInv, TypeInv

\* A step that spoils, and takes nothing from what is spoilt or known.
Minds ==
  /\ UNCHANGED made /\ vms' \subseteq vms /\ known \subseteq known'
  /\ spoilt \subseteq spoilt' /\ Met' \subseteq spoilt'

\* What a command of a session has where it goes next.
Suits(op, q, v, r) ==
  /\ r.vm = v \/ r.vm \notin Sound'
  /\ v \in Sound' /\ (op = "stop" \/ q \in Owning) => r.vm = v
  /\ v \in Sound' /\ q \in {"find", "claim"} => r.vm # v
  /\ q = "drop" => v \notin vms'
  /\ q \in {"prune", "forget"} => v \notin Sound'

LEMMA GoesOn ==
  ASSUME SessionsInv, TypeInv', NEW c \in Slot, Op(c) \in Named, NEW q \in PC,
         NEW s \in Record \cup {NoRecord}, Goes(c, q, s), s.vm = S(c).vm,
         Minds, Writes(c), Shrinks, Hands(c),
         q # "idle" => Suits(Op(c), q, s.vm, store'[Me(c)]),
         q = "idle" /\ Creates(c) /\ S(c).vm \in Sound' =>
           S(c).vm \in known' \/ store'[Me(c)].vm = S(c).vm,
         \/ q = "idle"
         \/ s.pid = S(c).pid /\ q # "unclaim" /\ ~At(c, "find")
         \/ \A p \in Pid : daemon'[p] # NoDaemon /\ daemon[p].name = Me(c) /\ daemon[p].vm = S(c).vm
                             => S(c).vm \in spoilt'
         \/ q # "unclaim"
            /\ \A p \in Pid : daemon'[p] # NoDaemon /\ daemon[p].name = Me(c) /\ daemon[p].vm = S(c).vm
                 => S(c).vm \in spoilt' \/ \E d \in Slot \ {c} : Mends(d, p)
  PROVE  SessionsInv'
<1>1. PICK k \in CmdType : /\ cmd' = [cmd EXCEPT ![c] = k]
                           /\ \/ q = "idle" /\ k = Idle
                              \/ /\ q # "idle" /\ k.op = Op(c) /\ k.pc = q /\ k.name = Me(c)
                                 /\ k.s = s /\ k.local = cmd[c].local
  BY Typed, Turn
<1>2. Me(c) \in Name
  BY Typed, Has
<1>3. Moves(c, k)
  <2>1. \A e \in k.local : e[2] <= made
    BY <1>1, Typed, IdleIs DEF FreshInv
  <2>2. k.op \in {"none", Op(c)} /\ (k.op \in Named => k.name = Me(c) /\ k.s.vm = S(c).vm)
    BY <1>1, IdleIs DEF Named
  <2> QED
    BY <1>1, <2>1, <2>2 DEF Moves, Minds
<1>4. Leaves(c, k)
  <2>1. Creates(c) => Op(c) # "none"
    BY DEF Creates
  <2> QED
    BY <1>1, <1>2, <2>1, IdleIs DEF Leaves
<1>5. /\ k.op \in Named => FitsNamed(k, store'[k.name], vms', Sound')
      /\ k.op # "sync"
  BY <1>1, IdleIs DEF Suits, FitsNamed, Named
<1>6. Watches(c)'
  <2>1. CASE q = "idle"
    <3>1. Op(c)' \notin Named
      BY <1>1, <1>3, <2>1, IdleIs, MovesIs DEF Named
    <3> QED
      BY <3>1 DEF Watches
  <2>2. CASE q # "idle"
    <3>1. /\ Op(c)' = Op(c) /\ Me(c)' = Me(c) /\ S(c)' = s /\ S(c)'.vm = S(c).vm
          /\ At(c, "unclaim")' = (q = "unclaim")
      BY <1>1, <1>3, <2>2, MovesIs DEF At
    <3>2. ASSUME NEW p \in Pid, daemon'[p] # NoDaemon, daemon'[p].name = Me(c), daemon'[p].vm = S(c).vm
          PROVE  \/ S(c).vm \in spoilt'
                 \/ q # "unclaim" /\ (p = s.pid \/ \E d \in Slot : Mends(d, p)')
      <4>1. daemon[p] # NoDaemon /\ daemon[p].name = Me(c) /\ daemon[p].vm = S(c).vm
        BY <3>2 DEF Shrinks
      <4>2. \A d \in Slot \ {c} : Mends(d, p) => Mends(d, p)'
        BY <1>3, <3>2, MendsStay
      <4>3. CASE s.pid = S(c).pid /\ q # "unclaim" /\ ~At(c, "find")
        <5>1. S(c).vm \in spoilt \/ p = S(c).pid \/ \E d \in Slot : Mends(d, p)
          <6>1. Watches(c)
            BY Typed DEF DaemonInv
          <6> QED
            BY <4>1, <4>3, <6>1 DEF Watches
        <5>2. Mends(c, p) => p = S(c).pid
          BY DEF Mends
        <5>3. spoilt \subseteq spoilt'
          BY DEF Minds
        <5> QED
          BY <4>2, <4>3, <5>1, <5>2, <5>3
      <4>4. CASE S(c).vm \in spoilt' \/ (q # "unclaim" /\ \E d \in Slot \ {c} : Mends(d, p))
        BY <4>2, <4>4
      <4> QED
        BY <2>2, <3>2, <4>1, <4>3, <4>4
    <3> QED
      BY <3>1, <3>2 DEF Watches
  <2> QED
    BY <2>1, <2>2
<1> QED
  BY <1>3, <1>4, <1>5, <1>6, MovesInv

LEMMA GoesIs ==
  ASSUME SessionsInv, NEW c \in Slot, NEW q \in PC, NEW s \in Record \cup {NoRecord}, Goes(c, q, s)
  PROVE  /\ q = "idle" => cmd'[c] = Idle
         /\ q # "idle" => /\ cmd'[c].op = Op(c) /\ cmd'[c].pc = q /\ cmd'[c].name = Me(c)
                          /\ cmd'[c].s = s /\ cmd'[c].local = cmd[c].local
                          /\ Op(c)' = Op(c) /\ Me(c)' = Me(c) /\ S(c)' = s
<1>1. PICK k \in CmdType : /\ cmd' = [cmd EXCEPT ![c] = k]
                           /\ \/ q = "idle" /\ k = Idle
                              \/ /\ q # "idle" /\ k.op = Op(c) /\ k.pc = q /\ k.name = Me(c)
                                 /\ k.s = s /\ k.local = cmd[c].local
  BY Typed, Turn
<1>2. cmd'[c] = k
  BY <1>1, Typed, Held
<1> QED
  BY <1>1, <1>2 DEF Op, Me, S

LEMMA Resting ==
  ASSUME UNCHANGED daemons
  PROVE  Shrinks
BY DEF daemons, Shrinks

\* A command that writes its record, or fails to.
LEMMA AddsInv ==
  ASSUME SessionsInv, TypeInv', NEW c \in Slot, Op(c) \in Named, NEW ok \in PC, NEW failed \in PC,
         cmd[c].pc \notin {"assign", "find", "prune", "forget", "kill", "undo"},
         Adds(c, ok, failed), Minds, UNCHANGED daemons,
         {ok, failed} \cap {"find", "claim", "drop", "prune", "forget", "unclaim"} = {},
         At(c, "claim") => ~Claimed(S(c).vm),
         failed \in Owning => cmd[c].pc \in Owning \/ Op(c) = "stop",
         Trouble /\ Creates(c) /\ failed = "idle" => S(c).vm \in known' \/ cmd[c].pc \in Owning,
         At(c, "publish") => \/ Creates(c) /\ failed = "kill"
                             \/ Op(c) = "attach" /\ failed = "undo"
  PROVE  SessionsInv'
<1>1. S(c) \in Record /\ Me(c) \in Name /\ S(c) \in Record \cup {NoRecord}
  BY Typed, Has
<1>2. Sound' \subseteq Sound /\ None \notin Sound
  BY SoundIs DEF Minds, Sound
<1>3. ~At(c, "find") /\ Shrinks
  BY Resting DEF At
<1>4. \A p \in Pid : Mends(c, p) => At(c, "publish")
  BY DEF Mends, At
<1>5. CASE store' = [store EXCEPT ![Me(c)] = S(c)] /\ Goes(c, ok, S(c))
  <2>1. ASSUME NEW n \in Name, S(c).vm \in Sound, store[n].vm = S(c).vm PROVE n = Me(c)
    <3>1. CASE Creates(c)
      <4>1. Mine(c)
        BY Typed DEF VMInv
      <4> QED
        BY <2>1, <3>1, <4>1 DEF Mine
    <3>2. CASE At(c, "claim")
      BY <2>1, <3>2 DEF Claimed
    <3>3. CASE ~Creates(c) /\ ~At(c, "claim")
      <4>1. Op(c) = "stop" \/ cmd[c].pc \in Owning
        <5>1. cmd[c] = Idle \/ PlacedAt(Op(c), cmd[c].pc)
          BY Typed, Held DEF Placed, Op
        <5>2. cmd[c] # Idle
          BY IdleIs DEF Op, Named
        <5> QED
          BY <3>3, <5>1, <5>2 DEF PlacedAt, Using, Owning, Creates, At, Named
      <4>2. store[Me(c)].vm = S(c).vm
        BY <2>1, <4>1, OwnRecord
      <4>3. OneSessionPerVM
        BY Typed DEF VMInv
      <4> QED
        BY <1>1, <2>1, <4>2, <4>3 DEF OneSessionPerVM
    <3> QED
      BY <3>1, <3>2, <3>3
  <2>2. Puts(c) /\ Writes(c)
    BY <1>1, <1>3, <1>5, <2>1 DEF Puts, Writes
  <2>3. store'[Me(c)] = S(c)
    BY <2>2, WritesIs, <1>1, <1>5, Typed, State
  <2>4. Suits(Op(c), ok, S(c).vm, store'[Me(c)])
    BY <2>3 DEF Suits
  <2>5. Hands(c)
    BY <1>4, <2>3 DEF Hands, SetsUp, At
  <2>6. ok # "unclaim"
    OBVIOUS
  <2> QED
    BY <1>1, <1>3, <1>5, <2>2, <2>3, <2>4, <2>5, <2>6, GoesOn
<1>6. CASE Trouble /\ Goes(c, failed, S(c)) /\ UNCHANGED store
  <2>1. Writes(c) /\ store'[Me(c)] = store[Me(c)]
    BY <1>6 DEF Writes
  <2>2. Suits(Op(c), failed, S(c).vm, store'[Me(c)])
    BY <1>2, <2>1, OwnRecord DEF Suits
  <2>3. Hands(c)
    <3>1. ASSUME NEW p \in Pid, Mends(c, p) PROVE Mends(c, p)'
      <4>1. At(c, "publish") /\ failed # "idle"
        BY <1>4, <3>1
      <4>2. /\ Op(c)' = Op(c) /\ Me(c)' = Me(c) /\ S(c)' = S(c) /\ cmd'[c].pc = failed
        BY <1>1, <1>6, <4>1, GoesIs
      <4> QED
        BY <3>1, <4>1, <4>2 DEF Mends, Creates, daemons
    <3> QED
      BY <3>1 DEF Hands
  <2>4. failed = "idle" /\ Creates(c) /\ S(c).vm \in Sound' =>
          S(c).vm \in known' \/ store'[Me(c)].vm = S(c).vm
    BY <1>2, <1>6, <2>1, OwnRecord
  <2>5. failed # "unclaim"
    OBVIOUS
  <2> QED
    BY <1>1, <1>3, <1>6, <2>1, <2>2, <2>3, <2>4, <2>5, GoesOn
<1> QED
  BY <1>5, <1>6 DEF Adds, Stores

LEMMA SpoilsIs ==
  ASSUME SessionsInv, NEW a, Spoils(a)
  PROVE  /\ spoilt \subseteq spoilt' /\ Met' \subseteq spoilt' /\ (a \cap VM) \subseteq spoilt'
         /\ UNCHANGED server => Minds
BY DEF Spoils, Minds, server

\* The steps that do no more than write the record.
LEMMA WritesInv ==
  ASSUME SessionsInv, TypeInv', NEW c \in Slot, Spoils({}),
         \/ NewRecords(c) \/ StopClears(c) \/ Keeps(c)
         \/ ExecMarks(c) \/ RunMarks(c) \/ ReplMarks(c) \/ ConsoleMarks(c)
         \/ UseCallsBack(c) \/ UseEnds(c)
  PROVE  SessionsInv'
<1>1. Minds /\ UNCHANGED daemons
  <2>1. CASE Keeps(c)
    BY <2>1, SpoilsIs DEF Keeps, Minds
  <2>2. CASE ~Keeps(c)
    BY <2>2, SpoilsIs DEF NewRecords, StopClears, ExecMarks, RunMarks, ReplMarks, ConsoleMarks,
                          Marks, UseCallsBack, UseEnds
  <2> QED
    BY <2>1, <2>2
<1>2. TypeInv
  BY Typed
<1> USE DEF At, PC, Owning, Named
<1>3. CASE NewRecords(c)
  <2>1. Op(c) \in {"new", "run"} /\ cmd[c].pc = "record" /\ Adds(c, "spawn", "kill")
    BY <1>2, <1>3, Ops DEF NewRecords
  <2> QED
    BY <1>1, <2>1, AddsInv
<1>4. CASE StopClears(c)
  <2>1. Op(c) = "stop" /\ cmd[c].pc = "clear" /\ Adds(c, "release", "release")
    BY <1>2, <1>4, Ops DEF StopClears
  <2> QED
    BY <1>1, <2>1, AddsInv
<1>5. CASE Keeps(c)
  <2>1. Op(c) \in {"new", "run", "stop"} /\ cmd[c].pc = "keep" /\ Adds(c, "idle", "idle")
    BY <1>2, <1>5, Ops DEF Keeps
  <2>2. Trouble => S(c).vm \in known'
    <3>1. Trouble => trouble' # trouble
      BY <1>2, State DEF Trouble
    <3> QED
      BY <1>5, <3>1 DEF Keeps
  <2> QED
    BY <1>1, <2>1, <2>2, AddsInv
<1>6. CASE ExecMarks(c) \/ RunMarks(c) \/ ReplMarks(c) \/ ConsoleMarks(c)
  <2>1. PICK ok \in {"mark", "final", "connect"}, failed \in {"final", "idle"} :
          Adds(c, ok, failed) /\ (failed = "idle" => Op(c) \in {"exec", "console"})
          /\ cmd[c].pc = "mark" /\ Op(c) \in {"exec", "run", "console"}
    BY <1>6 DEF ExecMarks, RunMarks, ReplMarks, ConsoleMarks, Marks
  <2>2. ok \in PC /\ failed \in PC
    OBVIOUS
  <2> QED
    BY <1>1, <2>1, <2>2, AddsInv
<1>7. CASE UseCallsBack(c)
  <2>1. Op(c) \in {"run", "exec"} /\ cmd[c].pc = "connect" /\ Adds(c, "connect", Unguarded(c))
    BY <1>2, <1>7, Ops DEF UseCallsBack
  <2>2. PICK failed \in {"idle", "final"} : failed = Unguarded(c)
    BY DEF Unguarded
  <2>3. failed \in PC
    OBVIOUS
  <2> QED
    BY <1>1, <2>1, <2>2, <2>3, AddsInv
<1>8. CASE UseEnds(c)
  <2>1. PICK pc \in {"idle", "kill"} : Adds(c, pc, pc)
    BY <1>8 DEF UseEnds
  <2>2. Op(c) \in {"run", "exec", "console"} /\ cmd[c].pc = "final" /\ pc \in PC
    BY <1>2, <1>8, Ops DEF UseEnds
  <2> QED
    BY <1>1, <2>1, <2>2, AddsInv
<1> QED
  BY <1>3, <1>4, <1>5, <1>6, <1>7, <1>8

\* A command that goes on, and leaves the records and daemons as they are.
LEMMA PassesInv ==
  ASSUME SessionsInv, TypeInv', NEW c \in Slot, Op(c) \in Named, NEW q \in PC, Goes(c, q, S(c)),
         Minds, UNCHANGED <<store, daemons>>,
         cmd[c].pc \notin {"assign", "kill", "undo"}, q \notin {"find", "unclaim"},
         q = "claim" => S(c).vm \in vms, At(c, "find") <=> q = "claim" \/ (q = "idle" /\ At(c, "find")),
         q \in Owning => cmd[c].pc \in Owning \/ Op(c) = "stop" \/ S(c).vm \notin Sound',
         q = "drop" => S(c).vm \notin vms', q \in {"prune", "forget"} => S(c).vm \notin Sound',
         q = "idle" /\ Creates(c) => cmd[c].pc \in Owning \/ S(c).vm \notin Sound',
         At(c, "publish") => \/ Creates(c) /\ q = "kill"
                             \/ Op(c) = "attach" /\ q = "undo"
  PROVE  SessionsInv'
<1>1. S(c) \in Record /\ Me(c) \in Name /\ S(c) \in Record \cup {NoRecord} /\ S(c).vm # None
  BY Typed, Has, Records
<1>2. Sound' \subseteq Sound /\ None \notin Sound /\ spoilt \subseteq spoilt'
  BY SoundIs DEF Minds, Sound
<1>3. Shrinks /\ Writes(c) /\ store' = store
  BY Resting DEF Writes, daemons
<1>4. \A p \in Pid : Mends(c, p) => At(c, "publish")
  BY DEF Mends, At
<1>5. Suits(Op(c), q, S(c).vm, store'[Me(c)])
  <2>1. q = "claim" => At(c, "find")
    OBVIOUS
  <2> QED
    BY <1>2, <1>3, <2>1, OwnRecord DEF Suits, At
<1>6. Hands(c)
  <2>1. ASSUME NEW p \in Pid, Mends(c, p) PROVE Mends(c, p)'
    <3>1. At(c, "publish") /\ q # "idle"
      BY <1>4, <2>1
    <3>2. Op(c)' = Op(c) /\ Me(c)' = Me(c) /\ S(c)' = S(c) /\ cmd'[c].pc = q
      BY <1>1, <3>1, GoesIs
    <3> QED
      BY <2>1, <3>1, <3>2 DEF Mends, Creates, daemons
  <2> QED
    BY <2>1 DEF Hands
<1>7. q = "idle" /\ Creates(c) /\ S(c).vm \in Sound' => store'[Me(c)].vm = S(c).vm
  BY <1>2, <1>3, OwnRecord
<1>8. CASE q = "idle" \/ ~At(c, "find")
  BY <1>1, <1>3, <1>5, <1>6, <1>7, <1>8, GoesOn
<1>9. CASE q = "claim" /\ At(c, "find")
  <2>1. ASSUME NEW p \in Pid, daemon'[p] # NoDaemon, daemon[p].name = Me(c), daemon[p].vm = S(c).vm
        PROVE  S(c).vm \in spoilt'
    <3>1. daemon[p] # NoDaemon /\ Minded(p)
      BY <2>1, Typed DEF daemons, DaemonInv
    <3>2. store[Me(c)].vm # S(c).vm \/ S(c).vm \notin Sound
      BY <1>9, OwnRecord DEF At
    <3>3. S(c).vm \notin Sound
      BY <2>1, <3>1, <3>2 DEF Minded, Serves
    <3> QED
      BY <1>2, <1>9, <3>3 DEF Sound
  <2> QED
    BY <1>1, <1>3, <1>5, <1>6, <1>7, <1>9, <2>1, GoesOn
<1> QED
  BY <1>8, <1>9

\* A command that removes the record, or fails to.
LEMMA RemovesInv ==
  ASSUME SessionsInv, TypeInv', NEW c \in Slot, Op(c) \in Named, NEW ok \in PC, NEW failed \in PC,
         Stores(c, Me(c), NoRecord, ok, failed), Minds, UNCHANGED daemons,
         {ok, failed} \subseteq {"idle", "final", "prune"},
         \/ S(c).vm \notin Sound
         \/ Op(c) = "attach" /\ At(c, "unclaim") /\ ok = "idle" /\ failed = "idle",
         cmd[c].pc \in {"drop", "forget", "unclaim"}
  PROVE  SessionsInv'
<1>1. S(c) \in Record /\ Me(c) \in Name /\ S(c) \in Record \cup {NoRecord}
  BY Typed, Has
<1>2. Sound' \subseteq Sound /\ None \notin Sound
  BY SoundIs DEF Minds, Sound
<1>3. ~At(c, "find") /\ Shrinks /\ (S(c).vm \in Sound' => ~Creates(c))
  BY <1>2, Resting DEF At, Creates
<1>4. Hands(c)
  BY DEF Hands, Mends
<1>5. CASE store' = [store EXCEPT ![Me(c)] = NoRecord] /\ Goes(c, ok, S(c))
  <2>1. Takes(c) /\ Writes(c)
    BY <1>1, <1>5, OwnRecord DEF Takes, Writes
  <2>2. store'[Me(c)].vm = None
    BY <1>1, <1>5, Typed, State, Constants
  <2>3. ok # "idle" => Suits(Op(c), ok, S(c).vm, store'[Me(c)])
    BY <1>2, <2>2 DEF Suits
  <2>4. ok # "unclaim"
    OBVIOUS
  <2> QED
    BY <1>1, <1>3, <1>4, <1>5, <2>1, <2>3, <2>4, GoesOn
<1>6. CASE Trouble /\ Goes(c, failed, S(c)) /\ UNCHANGED store
  <2>1. Writes(c) /\ store'[Me(c)] = store[Me(c)]
    BY <1>6 DEF Writes
  <2>2. failed # "idle" => Suits(Op(c), failed, S(c).vm, store'[Me(c)])
    BY <1>2, <2>1, OwnRecord DEF Suits
  <2>3. failed # "unclaim"
    OBVIOUS
  <2> QED
    BY <1>1, <1>3, <1>4, <1>6, <2>1, <2>2, <2>3, GoesOn
<1> QED
  BY <1>5, <1>6 DEF Stores

LEMMA PlainInv ==
  ASSUME SessionsInv, TypeInv', NEW c \in Slot, Spoils({}), Op(c) \in Named,
         UseConnects(c) \/ UseFails(c) \/ AttachFinds(c) \/ Releases(c)
  PROVE  SessionsInv'
<1>1. Minds /\ UNCHANGED <<store, daemons>>
  <2>1. CASE Releases(c)
    BY <2>1, SpoilsIs DEF Releases, Unassigned, Minds
  <2>2. CASE ~Releases(c)
    BY <2>2, SpoilsIs DEF UseConnects, UseFails, AttachFinds
  <2> QED
    BY <2>1, <2>2
<1>2. TypeInv
  BY Typed
<1> USE DEF At, PC, Owning, Named
<1>3. CASE UseConnects(c) \/ UseFails(c)
  <2>1. PICK q \in {"final", "mark", "idle"} : Goes(c, q, S(c))
    BY <1>3 DEF UseConnects, UseFails, Unguarded
  <2>2. Op(c) \in {"run", "exec", "console"} /\ cmd[c].pc = "connect" /\ q \in PC
    BY <1>2, <1>3, Ops DEF UseConnects, UseFails
  <2> QED
    BY <1>1, <2>1, <2>2, PassesInv
<1>4. CASE AttachFinds(c)
  <2>1. PICK q \in {"claim", "idle"} : Goes(c, q, S(c)) /\ (q = "claim" => S(c).vm \in vms)
    BY <1>4 DEF AttachFinds
  <2>2. Op(c) = "attach" /\ cmd[c].pc = "find" /\ q \in PC
    BY <1>2, <1>4, Ops DEF AttachFinds
  <2>3. ~Creates(c)
    BY <2>2 DEF Creates
  <2> QED
    BY <1>1, <2>1, <2>2, <2>3, PassesInv
<1>5. CASE Releases(c)
  <2>1. Op(c) \in {"new", "run", "stop"} /\ cmd[c].pc = "release" /\ Unassigned(c, "drop", "keep")
    BY <1>2, <1>5, Ops DEF Releases
  <2>2. PICK q \in {"drop", "keep"} : Goes(c, q, S(c)) /\ (q = "drop" => S(c).vm \notin vms')
    BY <2>1 DEF Unassigned
  <2>3. q \in PC
    OBVIOUS
  <2> QED
    BY <1>1, <2>1, <2>2, <2>3, PassesInv
<1> QED
  BY <1>3, <1>4, <1>5

LEMMA RemovalsInv ==
  ASSUME SessionsInv, TypeInv', NEW c \in Slot, Spoils({}), Op(c) \in Named,
         Drops(c) \/ PruneForgets(c) \/ AttachUnclaims(c)
  PROVE  SessionsInv'
<1>1. Minds /\ UNCHANGED daemons
  BY SpoilsIs DEF Drops, PruneForgets, AttachUnclaims
<1>2. TypeInv
  BY Typed
<1> USE DEF At, PC
<1>3. CASE Drops(c)
  <2>1. cmd[c].pc = "drop" /\ Stores(c, Me(c), NoRecord, "idle", "idle")
    BY <1>3 DEF Drops
  <2>2. S(c).vm \notin Sound
    BY <2>1, OwnRecord, SoundIs
  <2> QED
    BY <1>1, <2>1, <2>2, RemovesInv
<1>4. CASE PruneForgets(c)
  <2>1. cmd[c].pc = "forget" /\ S(c).vm \notin Sound
    BY <1>4, OwnRecord DEF PruneForgets
  <2>2. PICK failed \in {"idle", "final"}, ok \in {"idle", "final", "prune"} :
          Stores(c, Me(c), NoRecord, ok, failed)
    BY <1>4 DEF PruneForgets
  <2>3. ok \in PC /\ failed \in PC
    OBVIOUS
  <2> QED
    BY <1>1, <2>1, <2>2, <2>3, RemovesInv
<1>5. CASE AttachUnclaims(c)
  <2>1. Op(c) = "attach" /\ cmd[c].pc = "unclaim"
    BY <1>2, <1>5, Ops DEF AttachUnclaims
  <2>2. CASE Stores(c, Me(c), NoRecord, "idle", "idle")
    BY <1>1, <2>1, <2>2, RemovesInv
  <2>3. CASE Goes(c, "idle", S(c)) /\ UNCHANGED store
    <3>1. ~Creates(c) /\ "idle" \in PC
      BY <2>1 DEF Creates
    <3> QED
      BY <1>1, <2>1, <2>3, <3>1, PassesInv DEF Owning
  <2> QED
    BY <1>5, <2>2, <2>3 DEF AttachUnclaims
<1> QED
  BY <1>3, <1>4, <1>5

LEMMA AttachesInv ==
  ASSUME SessionsInv, TypeInv', NEW c \in Slot, Spoils({}),
         AttachClaims(c) \/ AttachConnects(c) \/ AttachPublishes(c)
  PROVE  SessionsInv'
<1>1. Minds /\ UNCHANGED daemons
  BY SpoilsIs DEF AttachClaims, AttachConnects, AttachPublishes
<1>2. Op(c) = "attach" /\ Op(c) \in Named /\ ~Creates(c)
  BY Typed, Ops DEF AttachClaims, AttachConnects, AttachPublishes, At, Creates, Named
<1> USE DEF At, PC, Owning
<1>3. CASE AttachClaims(c)
  <2>1. cmd[c].pc = "claim"
    BY <1>3 DEF AttachClaims
  <2>2. CASE Claimable(c) /\ Adds(c, "control", "idle")
    <3>1. ~Claimed(S(c).vm)
      BY <2>2 DEF Claimable
    <3> HIDE DEF PC
    <3>2. "control" \in PC /\ "idle" \in PC
      BY DEF PC
    <3> QED
      BY <1>1, <1>2, <2>1, <2>2, <3>1, <3>2, AddsInv
  <2>3. CASE Goes(c, "idle", S(c)) /\ UNCHANGED store
    BY <1>1, <1>2, <2>1, <2>3, PassesInv
  <2> QED
    BY <1>3, <2>2, <2>3 DEF AttachClaims
<1>4. CASE AttachConnects(c)
  <2>1. cmd[c].pc = "control"
    BY <1>4 DEF AttachConnects
  <2>2. CASE Adds(c, "control", "undo")
    BY <1>1, <1>2, <2>1, <2>2, AddsInv
  <2>3. CASE UNCHANGED store /\ \E q \in {"spawn", "undo"} : Goes(c, q, S(c))
    <3>1. PICK q \in {"spawn", "undo"} : Goes(c, q, S(c))
      BY <2>3
    <3> QED
      BY <1>1, <1>2, <2>1, <2>3, <3>1, PassesInv
  <2> QED
    BY <1>4, <2>2, <2>3 DEF AttachConnects
<1>5. CASE AttachPublishes(c)
  <2>1. cmd[c].pc = "publish"
    BY <1>5 DEF AttachPublishes
  <2>2. CASE Adds(c, "idle", "undo")
    BY <1>1, <1>2, <2>1, <2>2, AddsInv
  <2>3. CASE Goes(c, "undo", S(c)) /\ UNCHANGED store
    BY <1>1, <1>2, <2>1, <2>3, PassesInv
  <2> QED
    BY <1>5, <2>2, <2>3 DEF AttachPublishes
<1> QED
  BY <1>3, <1>4, <1>5

LEMMA NewPublishesInv ==
  ASSUME SessionsInv, TypeInv', NEW c \in Slot, Spoils({}), NewPublishes(c)
  PROVE  SessionsInv'
<1>1. Minds /\ UNCHANGED daemons
  BY SpoilsIs DEF NewPublishes
<1>2. /\ Op(c) \in {"new", "run"} /\ Op(c) \in Named /\ Creates(c) /\ cmd[c].pc = "publish"
      /\ At(c, "publish")
  BY DEF NewPublishes, Creates, Named, At
<1>3. CASE Adds(c, Ready(c), "kill")
  <2>1. PICK ok \in {"connect", "idle"} : ok = Ready(c)
    BY DEF Ready
  <2>2. ok \in PC /\ "kill" \in PC
    BY DEF PC
  <2> QED
    BY <1>1, <1>2, <1>3, <2>1, <2>2, AddsInv DEF Owning, At
<1>4. CASE store' = [store EXCEPT ![Me(c)] = S(c)] /\ Goes(c, "kill", S(c))
  <2>1. S(c) \in Record /\ Me(c) \in Name /\ S(c) \in Record \cup {NoRecord} /\ "kill" \in PC
    BY <1>2, Typed, Has DEF PC
  <2>2. Puts(c) /\ Writes(c)
    <3>1. \A n \in Name : S(c).vm \in Sound /\ store[n].vm = S(c).vm => n = Me(c)
      BY <1>2, Typed DEF VMInv, Mine
    <3> QED
      BY <1>2, <1>4, <2>1, <3>1 DEF Puts, Writes, At
  <2>3. store'[Me(c)] = S(c)
    BY <1>4, <2>1, Typed, State
  <2>4. Suits(Op(c), "kill", S(c).vm, store'[Me(c)]) /\ Hands(c) /\ ~At(c, "find")
    BY <1>2, <2>3 DEF Suits, Owning, Hands, SetsUp, At
  <2>5. Shrinks
    BY <1>1, Resting
  <2> QED
    BY <1>1, <1>2, <1>4, <2>1, <2>2, <2>4, <2>5, GoesOn
<1> QED
  BY <1>3, <1>4 DEF NewPublishes

\* SIGTERM ends the daemon of a process id, and no other.
LEMMA KillIs ==
  ASSUME NEW q, Kill(q)
  PROVE  Shrinks /\ \A p \in Pid : daemon'[p] # NoDaemon => p # q /\ daemon'[p] = daemon[p]
BY DEF Kill, Shrinks

LEMMA KillsDaemonInv ==
  ASSUME SessionsInv, TypeInv', NEW c \in Slot, Spoils({}), KillsDaemon(c)
  PROVE  SessionsInv'
<1>1. Minds /\ UNCHANGED store /\ Writes(c)
  BY SpoilsIs DEF KillsDaemon, Writes
<1>2. /\ Op(c) \in {"new", "run", "stop"} /\ Op(c) \in Named /\ cmd[c].pc = "kill"
  BY Typed, Ops DEF KillsDaemon, At, Named
<1>3. S(c) \in Record /\ Me(c) \in Name
  BY <1>2, Typed, Has
<1>4. PICK s \in Record \cup {NoRecord} : s = [S(c) EXCEPT !.pid = None] /\ s.vm = S(c).vm
  <2>1. PICK r \in Record : r = S(c)
    BY <1>3
  <2>2. [r EXCEPT !.pid = None] \in Record /\ [r EXCEPT !.pid = None].vm = r.vm
    BY DEF Record
  <2> QED
    BY <2>1, <2>2
<1>5. PICK q \in {"clear", "release"} : Goes(c, q, s) /\ (q = "clear" => Op(c) = "stop")
  BY <1>4 DEF KillsDaemon
<1>6. Shrinks /\ \A p \in Pid : daemon'[p] # NoDaemon => p # S(c).pid /\ daemon'[p] = daemon[p]
  BY KillIs DEF KillsDaemon
<1>7. Hands(c)
  BY <1>6 DEF Hands, Mends
<1>8. ASSUME NEW p \in Pid, daemon'[p] # NoDaemon, daemon[p].name = Me(c), daemon[p].vm = S(c).vm
      PROVE  S(c).vm \in spoilt' \/ \E d \in Slot \ {c} : Mends(d, p)
  <2>1. Watches(c) /\ Op(c) \in Named /\ ~At(c, "find") /\ daemon[p] # NoDaemon /\ p # S(c).pid
    BY <1>2, <1>6, <1>8, Typed DEF DaemonInv, At
  <2>2. S(c).vm \in spoilt \/ \E d \in Slot : Mends(d, p)
    BY <1>8, <2>1 DEF Watches
  <2>3. ~Mends(c, p)
    BY <2>1 DEF Mends
  <2> QED
    BY <1>1, <2>2, <2>3 DEF Minds
<1>9. Suits(Op(c), q, s.vm, store'[Me(c)])
  <2>1. Sound' \subseteq Sound
    BY <1>1 DEF Minds, Sound
  <2>2. /\ store[Me(c)].vm = S(c).vm \/ store[Me(c)].vm \notin Sound
        /\ S(c).vm \in Sound /\ Op(c) = "stop" => store[Me(c)].vm = S(c).vm
    BY <1>2, OwnRecord
  <2>3. (q \in Owning => Op(c) = "stop") /\ q \notin {"find", "claim", "drop", "prune", "forget"}
    BY <1>5 DEF Owning
  <2>4. s.vm = S(c).vm /\ store'[Me(c)] = store[Me(c)]
    BY <1>1, <1>4
  <2> QED
    BY <2>1, <2>2, <2>3, <2>4 DEF Suits
<1>10. q \in PC /\ q # "idle" /\ q # "unclaim"
  BY DEF PC
<1> QED
  BY <1>1, <1>2, <1>4, <1>5, <1>6, <1>7, <1>8, <1>9, <1>10, GoesOn

LEMMA AttachUndoesInv ==
  ASSUME SessionsInv, TypeInv', NEW c \in Slot, Spoils({}), AttachUndoes(c)
  PROVE  SessionsInv'
<1>1. Minds /\ UNCHANGED store /\ Writes(c) /\ Goes(c, "unclaim", S(c)) /\ "unclaim" \in PC
  BY SpoilsIs DEF AttachUndoes, Writes, PC
<1>2. Op(c) = "attach" /\ Op(c) \in Named /\ cmd[c].pc = "undo"
  BY Typed, Ops DEF AttachUndoes, At, Named
<1>3. S(c) \in Record /\ Me(c) \in Name /\ S(c) \in Record \cup {NoRecord} /\ S(c).vm # None
  BY <1>2, Typed, Has, Records
<1>4. Shrinks /\ \A p \in Pid : daemon'[p] # NoDaemon => p # S(c).pid /\ daemon'[p] = daemon[p]
  BY KillIs DEF AttachUndoes
<1>5. Hands(c)
  BY <1>4 DEF Hands, Mends
<1>6. ASSUME NEW p \in Pid, daemon'[p] # NoDaemon, daemon[p].name = Me(c), daemon[p].vm = S(c).vm
      PROVE  S(c).vm \in spoilt'
  <2>1. Watches(c) /\ Op(c) \in Named /\ ~At(c, "find") /\ daemon[p] # NoDaemon /\ p # S(c).pid
    BY <1>2, <1>4, <1>6, Typed DEF DaemonInv, At
  <2>2. S(c).vm \in spoilt \/ \E d \in Slot : Mends(d, p)
    BY <1>6, <2>1 DEF Watches
  <2>3. ASSUME NEW d \in Slot, Mends(d, p) PROVE S(c).vm \in spoilt
    <3>1. d # c /\ Me(d) = Me(c) /\ SetsUp(c)
      BY <1>2, <1>6, <2>1, <2>3 DEF Mends, SetsUp
    <3> QED
      BY <1>3, <3>1, Shared
  <2> QED
    BY <1>1, <2>2, <2>3 DEF Minds
<1>7. Suits(Op(c), "unclaim", S(c).vm, store'[Me(c)])
  <2>1. Sound' \subseteq Sound
    BY <1>1 DEF Minds, Sound
  <2> QED
    BY <1>1, <1>2, <2>1, OwnRecord DEF Suits, Owning
<1> QED
  BY <1>1, <1>2, <1>3, <1>4, <1>5, <1>6, <1>7, GoesOn

\* A step that leaves the records, the daemons and the VMs as they are.
LEMMA StandsInv ==
  ASSUME SessionsInv, TypeInv', NEW c \in Slot, NEW k, Moves(c, k), UNCHANGED <<store, daemons>>,
         k.op \notin Named, ~Creates(c) \/ S(c).vm \notin Sound' \/ cmd[c].pc \in Owning,
         \A p \in Pid : Mends(c, p) => daemon[p].vm \in spoilt',
         k.op = "sync" => FitsSync(k, store', vms', Sound')
  PROVE  SessionsInv'
<1>1. Writes(c) /\ Shrinks
  BY Resting DEF Writes
<1>2. Hands(c)
  BY DEF Hands
<1>3. Watches(c)'
  <2>1. Op(c)' \notin Named
    BY MovesIs
  <2> QED
    BY <2>1 DEF Watches
<1>4. Leaves(c, k)
  <2>1. CASE Creates(c) /\ S(c).vm \in Sound'
    <3>1. Op(c) \in Named /\ Me(c) \in Name
      BY <2>1, Typed, Has DEF Creates, Named
    <3>2. S(c).vm \in Sound /\ cmd[c].pc \in Owning
      BY <2>1, MovesIs
    <3>3. store'[Me(c)].vm = S(c).vm
      BY <3>1, <3>2, OwnRecord
    <3> QED
      BY <3>1, <3>3 DEF Leaves
  <2> QED
    BY <2>1 DEF Leaves
<1> QED
  BY <1>1, <1>2, <1>3, <1>4, MovesInv

\* A command that is killed.
LEMMA DiesInv ==
  ASSUME SessionsInv, TypeInv', NEW c \in Slot, Dies(c),
         Spoils(IF SetsUp(c) \/ TakesBack(c) THEN {S(c).vm} ELSE {})
  PROVE  SessionsInv'
<1>1. Minds /\ UNCHANGED <<store, daemons>> /\ Goes(c, "idle", NoRecord)
  BY SpoilsIs DEF Dies
<1>2. PICK k : k = Idle
  OBVIOUS
<1>3. Moves(c, k)
  <2>1. cmd' = [cmd EXCEPT ![c] = k]
    BY <1>1, <1>2 DEF Goes
  <2>2. k.op = "none" /\ k.local = {} /\ "none" \notin Named
    BY <1>2, IdleIs DEF Named
  <2> QED
    BY <1>1, <2>1, <2>2 DEF Moves, Minds
<1>4. SetsUp(c) \/ TakesBack(c) => S(c).vm \in spoilt' \/ S(c).vm = None
  <2>1. S(c).vm \in VM \cup {None}
    BY Typed, Held, Records
  <2> QED
    BY <2>1, SpoilsIs
<1>5. ~Creates(c) \/ S(c).vm \notin Sound' \/ cmd[c].pc \in Owning
  <2>1. CASE SetsUp(c) \/ TakesBack(c)
    <3>1. None \notin Sound'
      BY <1>3, SoundIs, MovesIs
    <3> QED
      BY <1>4, <2>1, <3>1 DEF Sound
  <2>2. CASE Creates(c) /\ ~SetsUp(c) /\ ~TakesBack(c)
    <3>1. PlacedAt(Op(c), cmd[c].pc)
      <4>1. cmd[c] # Idle
        BY <2>2, IdleIs DEF Creates, Op
      <4> QED
        BY <4>1, Typed, Held DEF Placed, Op
    <3>2. cmd[c].pc \in Using
      BY <2>2, <3>1 DEF PlacedAt, Setting, Tearing, Creates, SetsUp, TakesBack
    <3>3. cmd[c].pc \in {"prune", "forget"} => S(c).vm \notin Sound
      BY <2>2, OwnRecord DEF Creates, Named
    <3> QED
      BY <1>3, <3>2, <3>3, MovesIs DEF Using, Owning
  <2> QED
    BY <2>1, <2>2
<1>6. ASSUME NEW p \in Pid, Mends(c, p) PROVE daemon[p].vm \in spoilt'
  <2>1. SetsUp(c) \/ TakesBack(c)
    BY <1>6 DEF Mends, SetsUp, TakesBack
  <2>2. S(c) \in Record
    BY <1>6, Typed, Has DEF Mends, Creates, Named
  <2> QED
    BY <1>4, <1>6, <2>1, <2>2, Records DEF Mends
<1> QED
  BY <1>1, <1>2, <1>3, <1>5, <1>6, IdleIs, StandsInv DEF Named

\* stop --endpoint, which has no session.
LEMMA ReleasesInv ==
  ASSUME SessionsInv, TypeInv', NEW c \in Slot, Spoils({}),
         ReleaseLists(c) \/ (Releases(c) /\ Op(c) \notin Named)
  PROVE  SessionsInv'
<1>1. Op(c) = "release"
  BY Typed, Ops DEF ReleaseLists, Releases, At, Named
<1>2. Minds /\ UNCHANGED <<store, daemons>>
  <2>1. CASE ReleaseLists(c)
    BY <2>1, SpoilsIs DEF ReleaseLists
  <2>2. CASE Releases(c)
    BY <2>2, SpoilsIs DEF Releases, Unassigned, Minds
  <2> QED
    BY <2>1, <2>2
<1>3. PICK q \in {"idle", "release"} : Goes(c, q, S(c))
  <2>1. CASE ReleaseLists(c)
    BY <2>1 DEF ReleaseLists
  <2>2. CASE Releases(c)
    BY <1>1, <2>2 DEF Releases, Unassigned
  <2> QED
    BY <2>1, <2>2
<1>4. PICK s \in Record \cup {NoRecord} : s = S(c)
  BY Typed, Held
<1>5. PICK k \in CmdType : /\ cmd' = [cmd EXCEPT ![c] = k]
                           /\ \/ q = "idle" /\ k = Idle
                              \/ /\ q # "idle" /\ k.op = Op(c) /\ k.pc = q /\ k.name = Me(c)
                                 /\ k.s = s /\ k.local = cmd[c].local
  <2>1. q \in PC /\ Goes(c, q, s)
    BY <1>3, <1>4 DEF PC
  <2> QED
    BY <2>1, Typed, Turn
<1>6. k.op \in {"none", "release"} /\ k.op \notin Named /\ k.op # "sync"
  BY <1>1, <1>5, IdleIs DEF Named
<1>7. Moves(c, k)
  <2>1. \A e \in k.local : e[2] <= made
    BY <1>5, Typed, IdleIs DEF FreshInv
  <2> QED
    BY <1>1, <1>2, <1>5, <1>6, <2>1 DEF Moves, Minds
<1>8. ~Creates(c) /\ \A p \in Pid : ~Mends(c, p)
  BY <1>1 DEF Creates, Mends
<1> QED
  BY <1>2, <1>6, <1>7, <1>8, StandsInv

\* A step of a prune.
LEMMA PrunesInv ==
  ASSUME SessionsInv, TypeInv', NEW c \in Slot, Op(c) = "sync", NEW k, Moves(c, k),
         Writes(c), Shrinks, k.op = "sync" => FitsSync(k, store', vms', Sound')
  PROVE  SessionsInv'
<1>1. k.op \notin Named /\ ~Creates(c) /\ \A p \in Pid : ~Mends(c, p)
  BY DEF Moves, Named, Creates, Mends
<1>2. Hands(c) /\ Leaves(c, k)
  BY <1>1 DEF Hands, Leaves
<1>3. Watches(c)'
  BY <1>1, MovesIs DEF Watches
<1> QED
  BY <1>1, <1>2, <1>3, MovesInv

\* What a prune has.
LEMMA PruneIs ==
  ASSUME SessionsInv, NEW c \in Slot, Op(c) = "sync"
  PROVE  /\ \A e \in cmd[c].local : /\ store[e[1]].vm = e[2] \/ store[e[1]].vm \notin Sound
                                    /\ ~At(c, "list") => e[2] \notin Sound
                                    /\ e[2] <= made /\ e[1] \in Name
         /\ At(c, "forget") => store[Me(c)].vm \notin Sound /\ Me(c) \in Name
<1>1. FitsSync(cmd[c], store, vms, Sound)
  BY Typed DEF VMInv, Fits, Op
<1>2. Carries(cmd[c]) /\ cmd[c] \in CmdType
  BY Typed, Held
<1>3. \A e \in cmd[c].local : e[2] <= made /\ e[1] \in Name
  BY <1>2, Typed DEF FreshInv, CmdType
<1> QED
  BY <1>1, <1>2, <1>3, SoundIs DEF FitsSync, At, Carries, Me, Op

LEMMA SyncsInv ==
  ASSUME SessionsInv, TypeInv', NEW c \in Slot, Spoils({}), Op(c) = "sync",
         SyncLists(c) \/ PruneKills(c) \/ PruneForgets(c)
  PROVE  SessionsInv'
<1>1. Minds
  BY SpoilsIs DEF SyncLists, PruneKills, PruneForgets
<1>2. Sound' \subseteq Sound /\ vms' \subseteq vms /\ None \notin Sound
  BY <1>1, SoundIs DEF Minds, Sound
<1>3. PICK j \in CmdType : j = cmd[c] /\ j.op = "sync" /\ cmd \in [Slot -> CmdType]
  BY Typed, Held DEF Op
<1>4. ASSUME NEW k, cmd' = [cmd EXCEPT ![c] = k], k.op \in {"none", "sync"},
             \A e \in k.local : e[2] <= made, Writes(c), Shrinks,
             k.op = "sync" => FitsSync(k, store', vms', Sound')
      PROVE  SessionsInv'
  <2>1. Moves(c, k)
    BY <1>1, <1>3, <1>4 DEF Moves, Minds, Named, Op
  <2> QED
    BY <1>4, <2>1, PrunesInv
<1>5. CASE SyncLists(c)
  <2>1. UNCHANGED <<vms, store, daemons>> /\ Writes(c) /\ Shrinks
    BY <1>5, Resting DEF SyncLists, server, Writes
  <2>2. CASE cmd' = [cmd EXCEPT ![c] = Idle]
    BY <1>4, <2>1, <2>2, IdleIs
  <2>3. CASE cmd' = [cmd EXCEPT ![c] = [@ EXCEPT !.pc = "prune", !.local = Stale(cmd[c].local)]]
    <3>1. PICK k : k = [j EXCEPT !.pc = "prune", !.local = Stale(j.local)]
      OBVIOUS
    <3>2. k.op = "sync" /\ k.pc = "prune" /\ k.local = Stale(j.local)
      BY <1>3, <3>1 DEF CmdType
    <3>3. cmd' = [cmd EXCEPT ![c] = k]
      BY <1>3, <2>3, <3>1
    <3>4. FitsSync(k, store', vms', Sound') /\ \A e \in k.local : e[2] <= made
      BY <1>2, <1>3, <2>1, <3>2, PruneIs DEF FitsSync, Stale
    <3> QED
      BY <1>4, <2>1, <3>2, <3>3, <3>4
  <2> QED
    BY <1>5, <2>2, <2>3 DEF SyncLists, Goes
<1>6. CASE PruneKills(c)
  <2>1. PICK e \in j.local :
          /\ Kill(store[e[1]].pid)
          /\ cmd' = [cmd EXCEPT ![c].pc = "forget", ![c].name = e[1], ![c].local = @ \ {e}]
    BY <1>3, <1>6 DEF PruneKills
  <2>2. PICK k : k = [j EXCEPT !.pc = "forget", !.name = e[1], !.local = @ \ {e}]
    OBVIOUS
  <2>3. k.op = "sync" /\ k.pc = "forget" /\ k.name = e[1] /\ k.local = j.local \ {e}
    BY <1>3, <2>2 DEF CmdType
  <2>4. cmd' = [cmd EXCEPT ![c] = k]
    BY <1>3, <2>1, <2>2 DEF CmdType
  <2>5. Shrinks /\ Writes(c) /\ UNCHANGED <<vms, store>>
    BY <1>6, <2>1, KillIs DEF PruneKills, Writes, server
  <2>6. ~At(c, "list")
    BY <1>6 DEF PruneKills, At
  <2>7. FitsSync(cmd[c], store, vms, Sound)
    BY Typed, <1>3 DEF VMInv, Fits
  <2>8. FitsSync(k, store', vms', Sound') /\ \A f \in k.local : f[2] <= made
    BY <1>2, <1>3, <2>3, <2>5, <2>6, <2>7, PruneIs DEF FitsSync, At
  <2> QED
    BY <1>4, <2>3, <2>4, <2>5, <2>8
<1>7. CASE PruneForgets(c)
  <2>1. PICK q \in {"idle", "prune"} : Goes(c, q, S(c))
    BY <1>3, <1>7 DEF PruneForgets, Stores, Op
  <2>2. At(c, "forget") /\ UNCHANGED <<vms, daemons>> /\ Shrinks
    BY <1>7, Resting DEF PruneForgets, server
  <2>3. \/ store' = store
        \/ Takes(c) /\ store' = [store EXCEPT ![Me(c)] = NoRecord]
    BY <1>7, <2>2, PruneIs DEF PruneForgets, Stores, Takes
  <2>4. PICK s \in Record \cup {NoRecord} : s = S(c)
    BY Typed, Held
  <2>5. PICK k \in CmdType : /\ cmd' = [cmd EXCEPT ![c] = k]
                             /\ \/ q = "idle" /\ k = Idle
                                \/ /\ q # "idle" /\ k.op = Op(c) /\ k.pc = q /\ k.name = Me(c)
                                   /\ k.s = s /\ k.local = cmd[c].local
    <3>1. q \in PC /\ Goes(c, q, s)
      BY <2>1, <2>4 DEF PC
    <3> QED
      BY <3>1, Typed, Turn
  <2>6. ASSUME NEW e \in cmd[c].local
        PROVE  (store'[e[1]].vm = e[2] \/ store'[e[1]].vm \notin Sound') /\ e[2] \notin vms' /\ e[2] <= made
    <3>1. FitsSync(cmd[c], store, vms, Sound)
      BY Typed, <1>3 DEF VMInv, Fits
    <3>2. e[2] \notin vms /\ e[2] <= made /\ e[1] \in Name
      BY <2>2, <3>1, PruneIs DEF FitsSync, At
    <3>3. store'[e[1]] = store[e[1]] \/ store'[e[1]].vm = None
      <4>1. Writes(c)
        BY <2>3 DEF Writes
      <4>2. CASE store' = [store EXCEPT ![Me(c)] = NoRecord]
        BY <3>2, <4>2, Typed, State, Constants
      <4> QED
        BY <2>3, <4>2
    <3> QED
      BY <1>2, <3>2, <3>3, PruneIs
  <2>7. k.op = "sync" => FitsSync(k, store', vms', Sound') /\ k.local = cmd[c].local
    BY <1>3, <2>1, <2>5, <2>6, IdleIs DEF FitsSync
  <2>8. k.op \in {"none", "sync"} /\ \A e \in k.local : e[2] <= made
    BY <2>5, <2>6, IdleIs
  <2> QED
    BY <1>4, <2>2, <2>3, <2>5, <2>7, <2>8 DEF Writes
<1> QED
  BY <1>5, <1>6, <1>7

\* A command that takes its VM for lost, and prunes its session.
LEMMA GivesUpInv ==
  ASSUME SessionsInv, TypeInv', NEW c \in Slot, Op(c) \in Named, NEW k, cmd' = [cmd EXCEPT ![c] = k],
         k.op = Op(c), k.name = Me(c), k.s = S(c), k.pc \in {"prune", "forget"},
         cmd[c].pc \in {"connect", "prune"}, S(c).vm \notin Sound', Minds, UNCHANGED store, Shrinks,
         \A e \in k.local : e[2] <= made
  PROVE  SessionsInv'
<1>1. Moves(c, k) /\ Writes(c)
  BY DEF Moves, Minds, Writes
<1>2. Sound' \subseteq Sound /\ ~(\E p \in Pid : Mends(c, p)) /\ k.op # "sync"
  BY <1>1, MovesIs DEF Mends, Named
<1>3. Hands(c) /\ Leaves(c, k)
  BY <1>2 DEF Hands, Leaves
<1>4. FitsNamed(k, store'[k.name], vms', Sound')
  <2>1. store[Me(c)].vm = S(c).vm \/ store[Me(c)].vm \notin Sound
    BY OwnRecord
  <2> QED
    BY <1>2, <2>1 DEF FitsNamed
<1>5. Watches(c)'
  <2>1. Op(c)' = Op(c) /\ Me(c)' = Me(c) /\ S(c)' = S(c) /\ ~At(c, "unclaim")'
    BY <1>1, MovesIs DEF At
  <2>2. ASSUME NEW p \in Pid, daemon'[p] # NoDaemon, daemon'[p].name = Me(c), daemon'[p].vm = S(c).vm
        PROVE  S(c).vm \in spoilt' \/ p = S(c).pid \/ \E d \in Slot : Mends(d, p)'
    <3>1. daemon[p] # NoDaemon /\ daemon[p].name = Me(c) /\ daemon[p].vm = S(c).vm
      BY <2>2 DEF Shrinks
    <3>2. Watches(c) /\ ~At(c, "find")
      BY Typed DEF DaemonInv, At
    <3>3. S(c).vm \in spoilt \/ p = S(c).pid \/ \E d \in Slot : Mends(d, p)
      BY <3>1, <3>2 DEF Watches
    <3>4. \A d \in Slot \ {c} : Mends(d, p) => Mends(d, p)'
      BY <1>1, <2>2, MendsStay
    <3> QED
      BY <1>2, <3>3, <3>4 DEF Minds
  <2> QED
    BY <2>1, <2>2 DEF Watches
<1> QED
  BY <1>1, <1>2, <1>3, <1>4, <1>5, MovesInv

LEMMA LosesInv ==
  ASSUME SessionsInv, TypeInv', NEW c \in Slot,
         (UseIsLost(c) /\ Spoils({})) \/ (UseMisreads(c) /\ Spoils({S(c).vm}))
  PROVE  SessionsInv'
<1>1. Minds /\ UNCHANGED <<store, daemons>> /\ Loses(c) /\ Shrinks
  BY SpoilsIs, Resting DEF UseIsLost, UseMisreads, Loses
<1>2. Op(c) \in Named /\ cmd[c].pc = "connect"
  BY <1>1, Typed, Ops DEF Loses, At, Named
<1>3. PICK j \in CmdType : j = cmd[c] /\ cmd \in [Slot -> CmdType]
  BY Typed, Held
<1>4. PICK k : k = [j EXCEPT !.pc = "prune", !.local = {<<Me(c), S(c).vm>>}]
  OBVIOUS
<1>5. /\ k.op = Op(c) /\ k.name = Me(c) /\ k.s = S(c) /\ k.pc = "prune"
      /\ k.local = {<<Me(c), S(c).vm>>}
  BY <1>3, <1>4 DEF CmdType, Op, Me, S
<1>6. cmd' = [cmd EXCEPT ![c] = k]
  BY <1>1, <1>3, <1>4 DEF Loses, CmdType
<1>7. S(c).vm \notin Sound'
  <2>1. CASE UseIsLost(c)
    BY <1>1, <2>1 DEF UseIsLost, Minds, Sound
  <2>2. CASE UseMisreads(c) /\ Spoils({S(c).vm})
    <3>1. S(c).vm \in VM \cup {None}
      BY Typed, Held, Records
    <3>2. Sound' \subseteq Sound
      BY <1>1 DEF Minds, Sound
    <3> QED
      BY <2>2, <3>1, <3>2, SpoilsIs, SoundIs DEF Sound
  <2> QED
    BY <2>1, <2>2
<1>8. \A e \in k.local : e[2] <= made
  BY <1>5, Typed, Held
<1> QED
  BY <1>1, <1>2, <1>5, <1>6, <1>7, <1>8, GivesUpInv

LEMMA PruneKillsInv ==
  ASSUME SessionsInv, TypeInv', NEW c \in Slot, Spoils({}), Op(c) \in Named, PruneKills(c)
  PROVE  SessionsInv'
<1>1. Minds /\ UNCHANGED store /\ cmd[c].pc = "prune"
  BY SpoilsIs DEF PruneKills, At
<1>2. PICK j \in CmdType : j = cmd[c] /\ cmd \in [Slot -> CmdType]
  BY Typed, Held
<1>3. PICK e \in j.local :
        /\ Kill(store[e[1]].pid)
        /\ cmd' = [cmd EXCEPT ![c].pc = "forget", ![c].name = e[1], ![c].local = @ \ {e}]
  BY <1>2 DEF PruneKills
<1>4. e[1] = Me(c)
  BY <1>2, <1>3, Typed, Has
<1>5. PICK k : k = [j EXCEPT !.pc = "forget", !.name = e[1], !.local = @ \ {e}]
  OBVIOUS
<1>6. k.op = Op(c) /\ k.pc = "forget" /\ k.name = Me(c) /\ k.s = S(c) /\ k.local \subseteq j.local
  BY <1>2, <1>4, <1>5 DEF CmdType, Op, S
<1>7. cmd' = [cmd EXCEPT ![c] = k]
  BY <1>2, <1>3, <1>5 DEF CmdType
<1>8. Shrinks
  BY <1>3, KillIs
<1>9. S(c).vm \notin Sound' /\ \A f \in k.local : f[2] <= made
  BY <1>1, <1>2, <1>6, OwnRecord, Typed DEF Minds, Sound, FreshInv
<1> QED
  BY <1>1, <1>6, <1>7, <1>8, <1>9, GivesUpInv

\* A daemon that fails to start.
LEMMA SpawnFailsInv ==
  ASSUME SessionsInv, TypeInv', NEW c \in Slot, Op(c) \in {"new", "run", "attach"}, At(c, "spawn"),
         NEW q, q = (IF Op(c) = "attach" THEN "undo" ELSE "kill"), Goes(c, q, S(c)),
         Minds, UNCHANGED <<store, daemons>>
  PROVE  SessionsInv'
<1>1. Op(c) \in Named /\ cmd[c].pc = "spawn" /\ q \in {"undo", "kill"} /\ q \in PC
  BY DEF Named, At, PC
<1> QED
  BY <1>1, PassesInv DEF Owning, At

\* A daemon that starts: c has its pid, and publishes it or ends it.
LEMMA SpawnInv ==
  ASSUME SessionsInv, TypeInv', NEW c \in Slot, Op(c) \in {"new", "run", "attach"}, At(c, "spawn"),
         spawned < MaxPids, Minds, UNCHANGED store,
         daemon' = [daemon EXCEPT ![spawned + 1] = [name |-> Me(c), vm |-> S(c).vm, misses |-> 0]],
         Goes(c, "publish", [S(c) EXCEPT !.pid = spawned + 1])
  PROVE  SessionsInv'
<1>1. Op(c) \in Named /\ Me(c) \in Name /\ S(c) \in Record /\ S(c).pid = None /\ S(c).vm # None
  <2>1. Op(c) \in Named
    BY DEF Named
  <2> QED
    BY <2>1, Typed, Has, Records DEF At
<1>2. PICK q \in Pid : q = spawned + 1
  BY Typed, State, Constants DEF Pid
<1>3. PICK s \in Record : s = [S(c) EXCEPT !.pid = q] /\ s.vm = S(c).vm /\ s.pid = q
  <2>1. PICK r \in Record : r = S(c)
    BY <1>1
  <2>2. /\ [r EXCEPT !.pid = q] \in Record /\ [r EXCEPT !.pid = q].vm = r.vm
        /\ [r EXCEPT !.pid = q].pid = q
    BY DEF Record
  <2> QED
    BY <2>1, <2>2
<1>4. PICK k \in CmdType : /\ cmd' = [cmd EXCEPT ![c] = k] /\ k.op = Op(c) /\ k.pc = "publish"
                           /\ k.name = Me(c) /\ k.s = s /\ k.local = cmd[c].local
  <2>1. "publish" \in PC /\ "publish" # "idle" /\ s \in Record \cup {NoRecord} /\ Goes(c, "publish", s)
    BY <1>2, <1>3 DEF PC
  <2> QED
    BY <2>1, Typed, Turn
<1>5. daemon'[q] = [name |-> Me(c), vm |-> S(c).vm, misses |-> 0] /\ \A p \in Pid \ {q} : daemon'[p] = daemon[p]
  BY <1>2, Typed, State
<1>6. Moves(c, k) /\ Writes(c) /\ store' = store /\ Leaves(c, k)
  <2>1. \A e \in k.local : e[2] <= made
    BY <1>4, Typed DEF FreshInv
  <2> QED
    BY <1>3, <1>4, <2>1 DEF Moves, Minds, Writes, Leaves
<1>7. /\ Sound' \subseteq Sound /\ spoilt \subseteq spoilt' /\ ~(\E p \in Pid : Mends(c, p))
      /\ Op(c)' = Op(c) /\ Me(c)' = Me(c) /\ S(c)' = s /\ cmd'[c].pc = "publish"
      /\ S(c).vm \in Sound => store[Me(c)].vm = S(c).vm
      /\ store[Me(c)].vm = S(c).vm \/ store[Me(c)].vm \notin Sound
  <2>1. cmd[c].pc = "spawn" /\ cmd[c].pc \in Owning
    BY DEF At, Owning
  <2> QED
    BY <1>1, <1>4, <1>6, <2>1, MovesIs, OwnRecord DEF Mends, Minds
<1>8. VMInv'
  <2>1. Fits(cmd[c], store, vms, Sound)'
    <3>1. FitsNamed(k, store'[k.name], vms', Sound')
      BY <1>3, <1>4, <1>6, <1>7 DEF FitsNamed
    <3>2. cmd'[c] = k /\ k.op # "sync"
      BY <1>4, <1>6, MovesIs
    <3> QED
      BY <3>1, <3>2 DEF Fits
  <2>2. ASSUME NEW d \in Slot \ {c} PROVE Fits(cmd[d], store, vms, Sound)'
    BY <1>6, MovesIs, OthersFit, OthersSync DEF Fits, Op, Me
  <2> QED
    BY <1>6, <2>1, <2>2, MovesOnes DEF VMInv, Moves
<1>9. FreshInv'
  <2>1. ASSUME NEW d \in Slot, NEW e \in cmd'[d].local PROVE e[2] <= made'
    BY <1>6, <2>1, MovesIs, Typed DEF Moves, FreshInv
  <2>2. ASSUME NEW p \in Pid, daemon'[p] # NoDaemon PROVE daemon'[p].vm <= made'
    <3>1. S(c).vm <= made /\ made' = made
      BY Typed, Held DEF Minds
    <3> QED
      BY <1>5, <2>2, <3>1, Typed DEF FreshInv
  <2> QED
    BY <2>1, <2>2 DEF FreshInv
<1>10. \A d \in Slot, p \in Pid : p # q /\ Mends(d, p) => Mends(d, p)'
  <2>1. ASSUME NEW d \in Slot, NEW p \in Pid, p # q, Mends(d, p) PROVE Mends(d, p)'
    <3>1. d # c /\ daemon'[p] = daemon[p]
      BY <1>5, <1>7, <2>1
    <3>2. cmd'[d] = cmd[d]
      BY <1>6, <3>1, MovesIs
    <3> QED
      BY <2>1, <3>1, <3>2 DEF Mends, Me, S, Op, Creates
  <2> QED
    BY <2>1
<1>11. ASSUME NEW d \in Slot PROVE Watches(d)'
  <2>1. CASE d = c
    <3> SUFFICES ASSUME NEW p \in Pid, p # q, daemon[p] # NoDaemon, daemon[p].name = Me(c),
                        daemon[p].vm = S(c).vm
                 PROVE  S(c).vm \in spoilt' \/ \E e \in Slot : Mends(e, p)'
      BY <1>3, <1>5, <1>7, <2>1 DEF Watches, At
    <3>1. Watches(c) /\ ~At(c, "find") /\ p # S(c).pid
      BY <1>1, Typed, Constants DEF DaemonInv, At
    <3>2. S(c).vm \in spoilt \/ \E e \in Slot : Mends(e, p)
      BY <1>1, <3>1 DEF Watches
    <3> QED
      BY <1>7, <1>10, <3>2
  <2>2. CASE d # c
    <3>1. cmd'[d] = cmd[d] /\ Me(d)' = Me(d) /\ S(d)' = S(d) /\ Op(d)' = Op(d)
          /\ At(d, "find")' = At(d, "find") /\ At(d, "unclaim")' = At(d, "unclaim")
      BY <1>6, <2>2, MovesIs DEF At
    <3> SUFFICES ASSUME Op(d) \in Named, ~At(d, "find"), NEW p \in Pid, daemon'[p] # NoDaemon,
                        daemon'[p].name = Me(d), daemon'[p].vm = S(d).vm
                 PROVE  \/ S(d).vm \in spoilt'
                        \/ ~At(d, "unclaim") /\ (p = S(d).pid \/ \E e \in Slot : Mends(e, p)')
      BY <3>1 DEF Watches
    <3>2. CASE p = q
      <4>1. Me(c) = Me(d) /\ S(c).vm = S(d).vm /\ SetsUp(c)
        BY <1>5, <3>2 DEF SetsUp, At
      <4>2. S(d).vm \in spoilt
        BY <1>1, <2>2, <4>1, Shared
      <4> QED
        BY <1>7, <4>2
    <3>3. CASE p # q
      <4>1. Watches(d) /\ daemon[p] # NoDaemon /\ daemon[p].name = Me(d) /\ daemon[p].vm = S(d).vm
        BY <1>5, <3>3, Typed DEF DaemonInv
      <4>2. \/ S(d).vm \in spoilt
            \/ ~At(d, "unclaim") /\ (p = S(d).pid \/ \E e \in Slot : Mends(e, p))
        BY <4>1 DEF Watches
      <4> QED
        BY <1>7, <1>10, <3>3, <4>2
    <3> QED
      BY <3>2, <3>3
  <2> QED
    BY <2>1, <2>2
<1>12. ASSUME NEW p \in Pid PROVE Minded(p)'
  <2>1. CASE p = q
    <3>1. Mends(c, p)'
      BY <1>3, <1>5, <1>7, <2>1 DEF Mends, Creates
    <3>2. daemon'[p].vm \in Sound' => Serves(p)'
      BY <1>5, <1>6, <1>7, <2>1 DEF Serves
    <3> QED
      BY <3>1, <3>2 DEF Minded
  <2>2. CASE p # q
    <3>1. daemon'[p] = daemon[p] /\ Minded(p)
      BY <1>5, <2>2, Typed DEF DaemonInv
    <3> QED
      BY <1>6, <1>7, <1>10, <2>2, <3>1 DEF Minded, Serves
  <2> QED
    BY <2>1, <2>2
<1>13. KnownInv' /\ DaemonInv'
  BY <1>6, <1>11, <1>12, MovesKnown DEF DaemonInv
<1> QED
  BY <1>8, <1>9, <1>13 DEF SessionsInv, TypeInv

LEMMA SpawnsInv ==
  ASSUME SessionsInv, TypeInv', NEW c \in Slot, Spoils({}), NewSpawns(c) \/ AttachSpawns(c)
  PROVE  SessionsInv'
<1>1. Minds /\ UNCHANGED store /\ At(c, "spawn") /\ Op(c) \in {"new", "run", "attach"}
  BY SpoilsIs DEF NewSpawns, AttachSpawns, Spawns, Creates
<1>2. Spawns(c, IF Op(c) = "attach" THEN "undo" ELSE "kill")
  BY DEF NewSpawns, AttachSpawns, Creates
<1>3. PICK q : q = (IF Op(c) = "attach" THEN "undo" ELSE "kill") /\ Spawns(c, q)
  BY <1>2
<1> QED
  BY <1>1, <1>3, SpawnInv, SpawnFailsInv DEF Spawns

\* A command that begins with what it has read.
LEMMA StartsInv ==
  ASSUME SessionsInv, TypeInv', NEW c \in Slot, At(c, "idle"), NEW k, cmd' = [cmd EXCEPT ![c] = k],
         Minds, UNCHANGED <<vms, known, store, daemons>>,
         \A e \in k.local : e[2] <= made,
         k.op \in Named => FitsNamed(k, store[k.name], vms, Sound'),
         k.op = "sync" => FitsSync(k, store, vms, Sound'),
         Attaches(k)', k.op \in {"new", "run"} => k.s.vm = None,
         k.op \in Named /\ k.pc # "find" =>
           \A p \in Pid : daemon[p] # NoDaemon /\ daemon[p].name = k.name /\ daemon[p].vm = k.s.vm =>
             \/ k.s.vm \in spoilt
             \/ k.pc # "unclaim" /\ (p = k.s.pid \/ \E d \in Slot : Mends(d, p))
  PROVE  SessionsInv'
<1>1. /\ cmd[c] = Idle /\ Op(c) = "none" /\ cmd'[c] = k /\ Sound' \subseteq Sound /\ None \notin Sound
      /\ \A d \in Slot \ {c} : cmd'[d] = cmd[d]
      /\ UNCHANGED <<vms, known, store, daemon>> /\ spoilt \subseteq spoilt' /\ UNCHANGED made
  <2>1. cmd \in [Slot -> CmdType] /\ cmd[c] = Idle
    BY Typed, Held, Ops DEF At
  <2> QED
    BY <2>1, SoundIs, IdleIs DEF Op, Minds, Sound, daemons
<1>2. \A d \in Slot, p \in Pid : Mends(d, p) => Mends(d, p)'
  <2>1. ASSUME NEW d \in Slot, NEW p \in Pid, Mends(d, p) PROVE Mends(d, p)'
    <3>1. d # c
      BY <1>1, <2>1 DEF Mends, Creates
    <3> QED
      BY <1>1, <2>1, <3>1 DEF Mends, Me, S, Op, Creates
  <2> QED
    BY <2>1
<1>3. FreshInv'
  BY <1>1, Typed DEF FreshInv
<1>4. ASSUME NEW d \in Slot PROVE Fits(cmd[d], store, vms, Sound)' /\ Mine(d)' /\ Attaches(cmd[d])'
  <2>1. CASE d = c
    BY <1>1, <2>1 DEF Fits, Mine, Creates, S, Op
  <2>2. CASE d # c
    <3>1. cmd'[d] = cmd[d] /\ Fits(cmd[d], store, vms, Sound) /\ Mine(d) /\ Attaches(cmd[d])
      BY <1>1, <2>2, Typed DEF VMInv, KnownInv
    <3>2. Fits(cmd[d], store, vms, Sound')
      <4>1. cmd[d].op \in Named => FitsNamed(cmd[d], store[cmd[d].name], vms, Sound')
        BY <1>1, <3>1, FitsLess DEF Fits
      <4>2. cmd[d].op = "sync" => FitsSync(cmd[d], store, vms, Sound')
        BY <1>1, <3>1 DEF Fits, FitsSync
      <4> QED
        BY <4>1, <4>2 DEF Fits
    <3>3. Fits(cmd[d], store, vms, Sound)'
      BY <1>1, <3>1, <3>2
    <3> QED
      BY <1>1, <3>1, <3>3 DEF Mine, Creates, S, Me, Op, Attaches
  <2> QED
    BY <2>1, <2>2
<1>5. VMInv'
  <2>1. OneSessionPerVM'
    BY <1>1, Typed DEF VMInv, OneSessionPerVM
  <2> QED
    BY <1>4, <2>1 DEF VMInv, Minds
<1>6. KnownInv'
  <2>1. ASSUME NEW v \in Sound'
        PROVE  v \in known' \/ Claimed(v)' \/ \E d \in Slot : Creates(d)' /\ S(d)'.vm = v
    <3>1. v \in known \/ Claimed(v) \/ \E d \in Slot : Creates(d) /\ S(d).vm = v
      BY <1>1, Typed DEF KnownInv, Accounted
    <3>2. \A d \in Slot : Creates(d) => Creates(d)' /\ S(d)' = S(d)
      BY <1>1 DEF Creates, S, Op
    <3>3. Claimed(v) => Claimed(v)'
      BY <1>1 DEF Claimed
    <3> QED
      BY <1>1, <3>1, <3>2, <3>3
  <2> QED
    BY <1>4, <2>1 DEF KnownInv, Accounted
<1>7. ASSUME NEW d \in Slot PROVE Watches(d)'
  <2>1. CASE d = c
    BY <1>1, <1>2, <2>1 DEF Watches, Op, Me, S, At
  <2>2. CASE d # c
    <3>1. Watches(d) /\ cmd'[d] = cmd[d]
      BY <1>1, <2>2, Typed DEF DaemonInv
    <3> QED
      BY <1>1, <1>2, <3>1 DEF Watches, Op, Me, S, At
  <2> QED
    BY <2>1, <2>2
<1>8. ASSUME NEW p \in Pid PROVE Minded(p)'
  <2>1. Minded(p)
    BY Typed DEF DaemonInv
  <2> QED
    BY <1>1, <1>2, <2>1 DEF Minded, Serves
<1> QED
  BY <1>3, <1>5, <1>6, <1>7, <1>8 DEF SessionsInv, TypeInv, DaemonInv

\* What Begins makes of the command.
LEMMA BeginsIs ==
  ASSUME SessionsInv, NEW c \in Slot, NEW op, NEW pc, NEW n, NEW s, Begins(c, op, pc, n, s)
  PROVE  /\ At(c, "idle") /\ cmd[c] = Idle
         /\ \E k : /\ k.op = op /\ k.pc = pc /\ k.name = n /\ k.s = s /\ k.local = {}
                   /\ cmd' = [cmd EXCEPT ![c] = k]
                   /\ cmd'[c] = k /\ \A d \in Slot \ {c} : cmd'[d] = cmd[d]
<1>1. PICK j : j = [Idle EXCEPT !.op = op, !.pc = pc, !.name = n, !.s = s]
  OBVIOUS
<1>2. j = [op |-> op, pc |-> pc, name |-> n, s |-> s, local |-> {}]
  BY <1>1 DEF Idle
<1>3. j.op = op /\ j.pc = pc /\ j.name = n /\ j.s = s /\ j.local = {}
  BY <1>2
<1>4. cmd' = [cmd EXCEPT ![c] = j] /\ At(c, "idle")
  BY <1>1 DEF Begins
<1>5. cmd \in [Slot -> CmdType] /\ cmd[c] = Idle
  BY <1>4, Typed, Held, Ops DEF At
<1> QED
  BY <1>3, <1>4, <1>5

\* stop, exec and console read the record of a session.
LEMMA ReadsInv ==
  ASSUME SessionsInv, TypeInv', NEW c \in Slot, Spoils({}), NEW n \in Name, Tracked(n),
         NEW op \in {"stop", "exec", "console"}, NEW pc \in {"release", "kill", "connect", "mark"},
         Begins(c, op, pc, n, store[n]), UNCHANGED <<server, store, daemons>>
  PROVE  SessionsInv'
<1>1. Minds /\ UNCHANGED <<vms, known>>
  BY SpoilsIs DEF server
<1>2. PICK k : /\ k.op = op /\ k.pc = pc /\ k.name = n /\ k.s = store[n] /\ k.local = {}
               /\ cmd' = [cmd EXCEPT ![c] = k] /\ At(c, "idle")
  BY BeginsIs
<1>3. /\ k.op \in Named => FitsNamed(k, store[k.name], vms, Sound')
      /\ k.op # "sync" /\ Attaches(k)' /\ k.op \notin {"new", "run"}
  BY <1>2 DEF FitsNamed, Attaches
<1>4. ASSUME NEW p \in Pid, daemon[p] # NoDaemon, daemon[p].name = k.name, daemon[p].vm = k.s.vm
      PROVE  k.s.vm \in spoilt \/ p = k.s.pid \/ \E d \in Slot : Mends(d, p)
  <2>1. Minded(p)
    BY Typed DEF DaemonInv
  <2> QED
    BY <1>2, <1>4, <2>1 DEF Minded, Serves
<1>5. k.pc # "unclaim"
  BY <1>2
<1> QED
  BY <1>1, <1>2, <1>3, <1>4, <1>5, StartsInv

LEMMA LooksInv ==
  ASSUME SessionsInv, TypeInv', NEW c \in Slot, Spoils({}),
         \/ NewLooks(c) \/ StopReads(c) \/ UseReads(c) \/ AttachLooks(c) \/ ReleaseLooks(c)
         \/ SyncReads(c)
  PROVE  SessionsInv'
<1>1. Minds /\ UNCHANGED <<server, vms, known, store, daemons>>
  BY SpoilsIs DEF NewLooks, StopReads, UseReads, AttachLooks, ReleaseLooks, SyncReads, server
<1>2. Sound' \subseteq Sound /\ None \notin Sound'
  BY <1>1, SoundIs DEF Minds, Sound
<1>3. CASE NewLooks(c)
  <2>1. PICK n \in Name, op \in {"new", "run"} : ~Tracked(n) /\ Begins(c, op, "assign", n, NoRecord)
    BY <1>3 DEF NewLooks
  <2>2. PICK k : /\ k.op = op /\ k.pc = "assign" /\ k.name = n /\ k.s = NoRecord /\ k.local = {}
                 /\ cmd' = [cmd EXCEPT ![c] = k] /\ At(c, "idle")
    BY <2>1, BeginsIs
  <2>3. k.s.vm = None /\ store[n].vm = None
    BY <2>1, <2>2, Constants DEF Tracked
  <2>4. FitsNamed(k, store[k.name], vms, Sound') /\ k.op # "sync" /\ Attaches(k)'
    BY <1>2, <2>2, <2>3 DEF FitsNamed, Attaches
  <2>5. \A p \in Pid : daemon[p] # NoDaemon => daemon[p].vm # k.s.vm
    BY <2>3, DaemonIs
  <2> QED
    BY <1>1, <2>2, <2>3, <2>4, <2>5, StartsInv
<1>4. CASE StopReads(c)
  <2>1. PICK n \in Name, pc \in {"release", "kill"} : Tracked(n) /\ Begins(c, "stop", pc, n, store[n])
    BY <1>4 DEF StopReads
  <2> QED
    BY <1>1, <2>1, ReadsInv
<1>5. CASE UseReads(c)
  <2>1. PICK n \in Name, op \in {"exec", "console"}, pc \in {"connect", "mark"} :
          Tracked(n) /\ Begins(c, op, pc, n, store[n])
    BY <1>5 DEF UseReads
  <2> QED
    BY <1>1, <2>1, ReadsInv
<1>6. CASE AttachLooks(c)
  <2>1. PICK n \in Name, v \in 1..made :
          ~Tracked(n) /\ ~Claimed(v) /\ Begins(c, "attach", "find", n, [vm |-> v, pid |-> None])
    BY <1>6 DEF AttachLooks
  <2>2. PICK s \in Record : s = [vm |-> v, pid |-> None] /\ s.vm = v
    <3>1. [vm |-> v, pid |-> None] \in Record /\ [vm |-> v, pid |-> None].vm = v
      BY Typed, TypeRecords
    <3> QED
      BY <3>1
  <2>3. PICK k : /\ k.op = "attach" /\ k.pc = "find" /\ k.name = n /\ k.s = s /\ k.local = {}
                 /\ cmd' = [cmd EXCEPT ![c] = k] /\ At(c, "idle")
                 /\ cmd'[c] = k /\ cmd[c] = Idle /\ \A d \in Slot \ {c} : cmd'[d] = cmd[d]
    BY <2>1, <2>2, BeginsIs
  <2>4. store[n].vm = None /\ v # None /\ v \in VM
    BY <2>1, Constants, Typed, State DEF Tracked, VM
  <2>5. FitsNamed(k, store[k.name], vms, Sound') /\ k.op # "sync"
    BY <1>2, <2>2, <2>3, <2>4 DEF FitsNamed, Owning
  <2>6. Attaches(k)'
    <3> SUFFICES ASSUME v \in Sound', v \notin known PROVE FALSE
      BY <1>1, <2>2, <2>3 DEF Attaches
    <3>1. PICK d \in Slot : Creates(d) /\ S(d).vm = v
      BY <1>2, <2>1, Typed DEF KnownInv, Accounted
    <3>2. d # c
      BY <2>3, <3>1, IdleIs DEF Creates, Op
    <3>3. /\ Creates(d)' /\ S(d)'.vm = v /\ Me(d)' = Me(d) /\ Me(d) \in Name
          /\ Op(c)' = "attach" /\ Me(c)' = n /\ S(c)'.vm = v
      <4>1. Me(d) \in Name
        BY <3>1, Typed, Has DEF Creates, Named
      <4> QED
        BY <2>2, <2>3, <3>1, <3>2, <4>1 DEF Creates, S, Me, Op
    <3>4. Meets(d, c)' \/ Meets(c, d)'
      <4>1. CASE Me(d) = n
        BY <2>1, <3>3, <4>1 DEF Meets, SetsUp
      <4>2. CASE Me(d) # n
        BY <3>3, <4>2 DEF Meets
      <4> QED
        BY <4>1, <4>2
    <3>5. v \in Met'
      BY <2>4, <3>2, <3>3, <3>4 DEF Met
    <3> QED
      BY <1>1, <3>5 DEF Minds, Sound
  <2> QED
    BY <1>1, <2>3, <2>5, <2>6, StartsInv
<1>7. CASE ReleaseLooks(c)
  <2>1. PICK v : Begins(c, "release", "orphan", "none", [vm |-> v, pid |-> None])
    BY <1>7 DEF ReleaseLooks
  <2>2. PICK s : s = [vm |-> v, pid |-> None]
    OBVIOUS
  <2>3. PICK k : k.op = "release" /\ k.local = {} /\ cmd' = [cmd EXCEPT ![c] = k] /\ At(c, "idle")
    BY <2>1, <2>2, BeginsIs
  <2>4. k.op \notin Named /\ k.op # "sync" /\ Attaches(k)' /\ k.op \notin {"new", "run"}
    BY <2>3 DEF Named, Attaches
  <2> QED
    BY <1>1, <2>3, <2>4, StartsInv
<1>8. CASE SyncReads(c)
  <2>1. PICK l : l = {<<n, store[n].vm>> : n \in {m \in Name : Tracked(m)}}
    OBVIOUS
  <2>2. PICK k : k = [Idle EXCEPT !.op = "sync", !.pc = "list", !.local = l]
    OBVIOUS
  <2>3. k = [op |-> "sync", pc |-> "list", name |-> "none", s |-> NoRecord, local |-> l]
    BY <2>2 DEF Idle
  <2>4. k.op = "sync" /\ k.pc = "list" /\ k.local = l
    BY <2>3
  <2>5. cmd' = [cmd EXCEPT ![c] = k] /\ At(c, "idle")
    BY <1>8, <2>1, <2>2 DEF SyncReads
  <2>6. FitsSync(k, store, vms, Sound') /\ \A e \in k.local : e[2] <= made
    BY <2>1, <2>4, Typed, State DEF FitsSync
  <2>7. k.op \notin Named /\ Attaches(k)' /\ k.op \notin {"new", "run"}
    BY <2>4 DEF Named, Attaches
  <2> QED
    BY <1>1, <2>4, <2>5, <2>6, <2>7, StartsInv
<1> QED
  BY <1>3, <1>4, <1>5, <1>6, <1>7, <1>8

\* A step that moves no command and writes no record.
LEMMA RestsInv ==
  ASSUME SessionsInv, TypeInv', UNCHANGED <<cmd, store>>, Minds, Shrinks
  PROVE  SessionsInv'
<1>1. /\ Sound' \subseteq Sound /\ vms' \subseteq vms /\ known \subseteq known' /\ spoilt \subseteq spoilt'
      /\ UNCHANGED made
  BY DEF Minds, Sound
<1>2. ASSUME NEW p \in Pid, daemon'[p] # NoDaemon
      PROVE  /\ daemon[p] # NoDaemon /\ daemon'[p].name = daemon[p].name /\ daemon'[p].vm = daemon[p].vm
             /\ \A d \in Slot : Mends(d, p) => Mends(d, p)'
  BY <1>2 DEF Shrinks, Mends, Me, S, Op, Creates
<1>3. FreshInv'
  BY <1>1, <1>2, Typed DEF FreshInv
<1>4. VMInv'
  <2>1. ASSUME NEW d \in Slot PROVE Fits(cmd[d], store, vms, Sound)' /\ Mine(d)'
    <3>1. Fits(cmd[d], store, vms, Sound) /\ Mine(d)
      BY Typed DEF VMInv
    <3>2. cmd[d].op \in Named => FitsNamed(cmd[d], store[cmd[d].name], vms', Sound')
      BY <1>1, <3>1, FitsLess DEF Fits
    <3>3. cmd[d].op = "sync" => FitsSync(cmd[d], store, vms', Sound')
      BY <1>1, <3>1 DEF Fits, FitsSync
    <3>4. Fits(cmd[d], store, vms', Sound')
      BY <3>2, <3>3 DEF Fits
    <3> QED
      BY <1>1, <3>1, <3>4 DEF Mine, Creates, S, Me, Op
  <2>2. OneSessionPerVM'
    BY <1>1, Typed DEF VMInv, OneSessionPerVM
  <2> QED
    BY <2>1, <2>2 DEF VMInv, Minds
<1>5. KnownInv'
  <2>1. ASSUME NEW d \in Slot PROVE Attaches(cmd[d])'
    BY <1>1, Typed DEF KnownInv, Attaches
  <2>2. Accounted'
    BY <1>1, Typed DEF KnownInv, Accounted, Claimed, Creates, S, Op
  <2> QED
    BY <2>1, <2>2 DEF KnownInv
<1>6. DaemonInv'
  <2>1. ASSUME NEW d \in Slot PROVE Watches(d)'
    <3>1. Watches(d)
      BY Typed DEF DaemonInv
    <3> QED
      BY <1>1, <1>2, <3>1 DEF Watches, Op, Me, S, At
  <2>2. ASSUME NEW p \in Pid PROVE Minded(p)'
    <3>1. Minded(p)
      BY Typed DEF DaemonInv
    <3> QED
      BY <1>1, <1>2, <3>1 DEF Minded, Serves
  <2> QED
    BY <2>1, <2>2 DEF DaemonInv
<1> QED
  BY <1>3, <1>4, <1>5, <1>6 DEF SessionsInv, TypeInv

LEMMA DaemonsInv ==
  ASSUME SessionsInv, TypeInv', Spoils({}), Vanishes \/ \E p \in Pid : Daemon(p)
  PROVE  SessionsInv'
<1>1. CASE Vanishes
  <2>1. Minds /\ UNCHANGED <<cmd, store, daemons>>
    BY <1>1, SpoilsIs DEF Vanishes, Minds
  <2> QED
    BY <2>1, Resting, RestsInv
<1>2. CASE \E p \in Pid : Daemon(p)
  <2>1. PICK p \in Pid : DaemonEnds(p) \/ DaemonPings(p)
    BY <1>2 DEF Daemon
  <2>2. Minds /\ UNCHANGED <<cmd, store>>
    BY <2>1, SpoilsIs DEF DaemonEnds, DaemonPings
  <2>3. CASE DaemonEnds(p)
    BY <2>2, <2>3, KillIs, RestsInv DEF DaemonEnds
  <2>4. CASE DaemonPings(p)
    <3>1. daemon \in [Pid -> [name : Name, vm : VM, misses : 0..1] \cup {NoDaemon}]
      BY Typed, State
    <3>2. PICK r \in [name : Name, vm : VM, misses : 0..1] : r = daemon[p] /\ daemon[p] # NoDaemon
      BY <2>4, <3>1 DEF DaemonPings
    <3>3. \/ daemon' = [daemon EXCEPT ![p] = [r EXCEPT !.misses = 0]]
          \/ daemon' = [daemon EXCEPT ![p] = NoDaemon]
          \/ daemon' = [daemon EXCEPT ![p] = [name |-> r.name, vm |-> r.vm, misses |-> r.misses + 1]]
      BY <2>4, <3>1, <3>2 DEF DaemonPings, DaemonMisses
    <3>4. [r EXCEPT !.misses = 0].name = r.name /\ [r EXCEPT !.misses = 0].vm = r.vm
      OBVIOUS
    <3>5. \A q \in Pid : daemon'[q] = daemon[q] \/ daemon'[q] = NoDaemon
                         \/ (q = p /\ daemon'[q].name = r.name /\ daemon'[q].vm = r.vm)
      BY <3>1, <3>3, <3>4
    <3>6. Shrinks
      BY <3>2, <3>5 DEF Shrinks
    <3> QED
      BY <2>2, <3>6, RestsInv
  <2> QED
    BY <2>1, <2>3, <2>4
<1> QED
  BY <1>1, <1>2

\* What there was is told from what comes.
LEMMA Younger ==
  ASSUME SessionsInv, vms' = vms \cup {made + 1}, spoilt \subseteq spoilt'
  PROVE  \A v : v <= made /\ v \in Nat => (v \in vms' => v \in vms) /\ (v \in Sound' => v \in Sound)
<1>1. made \in Nat
  BY Typed, State
<1>2. ASSUME NEW v, v <= made, v \in Nat PROVE v # made + 1
  BY <1>1, <1>2
<1> QED
  BY <1>2 DEF Sound

\* A new VM: new has it for its session, or nobody has it.
LEMMA GrowsInv ==
  ASSUME SessionsInv, TypeInv', vms' = vms \cup {made + 1}, made' = made + 1, known \subseteq known',
         spoilt \subseteq spoilt', Met' \subseteq spoilt', UNCHANGED <<store, daemons>>,
         \A d \in Slot :
           \/ cmd'[d] = cmd[d]
           \/ At(d, "assign") /\ cmd'[d] = Idle
           \/ /\ At(d, "assign") /\ cmd'[d].op = Op(d) /\ cmd'[d].pc = "record" /\ cmd'[d].name = Me(d)
              /\ cmd'[d].s.vm = made + 1 /\ cmd'[d].local = cmd[d].local,
         \/ made + 1 \in known' \cup spoilt'
         \/ \E d \in Slot : Creates(d)' /\ S(d)'.vm = made + 1
  PROVE  SessionsInv'
<1> DEFINE Same(d) == cmd'[d] = cmd[d]
           Ends(d) == At(d, "assign") /\ cmd'[d] = Idle
           Gets(d) == /\ At(d, "assign") /\ cmd'[d].op = Op(d) /\ cmd'[d].pc = "record"
                      /\ cmd'[d].name = Me(d) /\ cmd'[d].s.vm = made + 1
                      /\ cmd'[d].local = cmd[d].local
<1>1. \A d \in Slot : Same(d) \/ Ends(d) \/ Gets(d)
  OBVIOUS
<1>2. made \in Nat /\ UNCHANGED <<store, daemon>>
  BY Typed, State DEF daemons
<1>3. ASSUME NEW v, v <= made, v \in Nat
      PROVE  (v \in vms' => v \in vms) /\ (v \in Sound' => v \in Sound) /\ v # made + 1
  BY <1>2, <1>3, Younger
<1>4. /\ \A n \in Name : store[n].vm <= made /\ store[n].vm \in Nat
      /\ \A d \in Slot : S(d).vm <= made /\ S(d).vm \in Nat
      /\ \A d \in Slot : \A e \in cmd[d].local : e[1] \in Name /\ e[2] <= made /\ e[2] \in Nat
      /\ \A p \in Pid : daemon[p] # NoDaemon => daemon[p].vm <= made /\ daemon[p].vm \in Nat
  <2>1. \A n \in Name : store[n].vm <= made /\ store[n].vm \in Nat
    BY Typed, State, Records
  <2>2. ASSUME NEW d \in Slot, NEW e \in cmd[d].local PROVE e[1] \in Name /\ e[2] <= made /\ e[2] \in Nat
    <3>1. e \in Name \X VM
      BY Typed, Held DEF CmdType
    <3> QED
      BY <3>1, Typed, Constants DEF FreshInv
  <2>3. \A p \in Pid : daemon[p] # NoDaemon => daemon[p].vm <= made /\ daemon[p].vm \in Nat
    BY DaemonIs, Constants
  <2> QED
    BY <2>1, <2>2, <2>3, Typed, Held
<1>5. \A d \in Slot : At(d, "assign") => /\ Op(d) \in {"new", "run"} /\ Op(d) \in Named /\ Creates(d)
                                         /\ S(d).vm = None /\ Me(d) \in Name
  BY Typed, Ops, Has, Constants DEF At, Named, Creates
<1>6. \A d \in Slot, p \in Pid : Mends(d, p) => Mends(d, p)'
  <2>1. ASSUME NEW d \in Slot, NEW p \in Pid, Mends(d, p) PROVE Mends(d, p)'
    <3>1. ~At(d, "assign")
      BY <2>1 DEF Mends, At
    <3>2. cmd'[d] = cmd[d]
      BY <1>1, <3>1
    <3> QED
      BY <1>2, <2>1, <3>2 DEF Mends, Me, S, Op, Creates
  <2> QED
    BY <2>1
<1>7. FreshInv'
  <2>1. ASSUME NEW d \in Slot, NEW e \in cmd'[d].local PROVE e[2] <= made'
    <3>1. e \in cmd[d].local
      BY <1>1, <2>1, IdleIs
    <3> QED
      BY <1>2, <1>4, <3>1
  <2>2. \A p \in Pid : daemon'[p] # NoDaemon => daemon'[p].vm <= made'
    BY <1>2, <1>4
  <2> QED
    BY <2>1, <2>2 DEF FreshInv
<1>8. ASSUME NEW d \in Slot, Same(d)
      PROVE  Fits(cmd[d], store, vms, Sound)' /\ Mine(d)' /\ Attaches(cmd[d])' /\ Watches(d)'
  <2>1. Fits(cmd[d], store, vms, Sound) /\ Mine(d) /\ Attaches(cmd[d]) /\ Watches(d)
    BY Typed DEF VMInv, KnownInv, DaemonInv
  <2>2. S(d)' = S(d) /\ Op(d)' = Op(d) /\ Me(d)' = Me(d) /\ (S(d).vm \in Sound' => S(d).vm \in Sound)
        /\ (S(d).vm \in vms' => S(d).vm \in vms)
    BY <1>3, <1>4, <1>8 DEF S, Op, Me
  <2>3. \A n \in Name : store[n].vm \in Sound' => store[n].vm \in Sound
    BY <1>3, <1>4
  <2>4. cmd[d].op \in Named => FitsNamed(cmd[d], store[cmd[d].name], vms', Sound')
    <3> SUFFICES ASSUME cmd[d].op \in Named PROVE FitsNamed(cmd[d], store[cmd[d].name], vms', Sound')
      OBVIOUS
    <3>1. cmd[d].name \in Name /\ FitsNamed(cmd[d], store[cmd[d].name], vms, Sound)
      BY <2>1, Typed, Has DEF Fits, Op, Me
    <3> QED
      BY <2>2, <2>3, <3>1 DEF FitsNamed, S
  <2>5. cmd[d].op = "sync" => FitsSync(cmd[d], store, vms', Sound')
    <3> SUFFICES ASSUME cmd[d].op = "sync" PROVE FitsSync(cmd[d], store, vms', Sound')
      OBVIOUS
    <3>1. FitsSync(cmd[d], store, vms, Sound) /\ (At(d, "forget") => Me(d) \in Name)
      BY <2>1, PruneIs DEF Fits, Op
    <3>2. \A e \in cmd[d].local : e[1] \in Name /\ (e[2] \in vms' => e[2] \in vms)
      BY <1>3, <1>4
    <3> QED
      BY <2>3, <3>1, <3>2 DEF FitsSync, At, Me
  <2>6. Fits(cmd[d], store, vms, Sound)'
    <3>1. Fits(cmd[d], store, vms', Sound')
      BY <2>4, <2>5 DEF Fits
    <3> QED
      BY <1>2, <1>8, <3>1
  <2>7. Mine(d)'
    BY <1>2, <2>1, <2>2 DEF Mine, Creates
  <2>8. Attaches(cmd[d])'
    BY <1>8, <2>1, <2>2 DEF Attaches, S
  <2>9. Watches(d)'
    BY <1>2, <1>6, <1>8, <2>1, <2>2 DEF Watches, At
  <2> QED
    BY <2>6, <2>7, <2>8, <2>9
<1>9. ASSUME NEW d \in Slot, Ends(d)
      PROVE  Fits(cmd[d], store, vms, Sound)' /\ Mine(d)' /\ Attaches(cmd[d])' /\ Watches(d)'
  <2>1. cmd'[d] = Idle /\ Op(d)' = "none"
    BY <1>9, IdleIs DEF Op
  <2> QED
    BY <2>1, IdleIs DEF Fits, Mine, Attaches, Watches, Creates, Named
<1>10. ASSUME NEW d \in Slot, Gets(d)
       PROVE  Fits(cmd[d], store, vms, Sound)' /\ Mine(d)' /\ Attaches(cmd[d])' /\ Watches(d)'
  <2>1. /\ Op(d) \in {"new", "run"} /\ Op(d) \in Named /\ S(d).vm = None /\ Me(d) \in Name
        /\ Op(d)' = Op(d) /\ Me(d)' = Me(d) /\ S(d)'.vm = made + 1
    BY <1>5, <1>10 DEF Op, Me, S
  <2>2. store[Me(d)].vm \notin Sound'
    <3>1. store[Me(d)].vm \notin Sound
      BY <2>1, OwnRecord, SoundIs
    <3> QED
      BY <1>3, <1>4, <2>1, <3>1
  <2>3. FitsNamed(cmd'[d], store[Me(d)], vms', Sound')
    BY <1>10, <2>1, <2>2 DEF FitsNamed, Owning
  <2>4. Fits(cmd[d], store, vms, Sound)'
    BY <1>2, <1>10, <2>1, <2>3 DEF Fits
  <2>5. \A n \in Name : store[n].vm # made + 1
    BY <1>3, <1>4
  <2>6. \A p \in Pid : daemon[p] # NoDaemon => daemon[p].vm # made + 1
    BY <1>3, <1>4
  <2>7. Mine(d)' /\ Watches(d)'
    BY <1>2, <2>1, <2>5, <2>6 DEF Mine, Watches
  <2>8. Attaches(cmd[d])'
    BY <1>10, <2>1 DEF Attaches
  <2> QED
    BY <2>4, <2>7, <2>8
<1>11. VMInv'
  <2>1. OneSessionPerVM'
    <3>1. OneSessionPerVM /\ \A n \in Name : store[n].vm \in Sound' => store[n].vm \in Sound
      BY <1>3, <1>4, Typed DEF VMInv
    <3> QED
      BY <1>2, <3>1 DEF OneSessionPerVM
  <2> QED
    BY <1>1, <1>8, <1>9, <1>10, <2>1 DEF VMInv
<1>12. KnownInv'
  <2>1. ASSUME NEW v \in Sound'
        PROVE  v \in known' \/ Claimed(v)' \/ \E d \in Slot : Creates(d)' /\ S(d)'.vm = v
    <3>1. CASE v = made + 1
      BY <3>1 DEF Sound
    <3>2. CASE v # made + 1
      <4>1. v \in Sound
        BY <3>2 DEF Sound
      <4>2. v \in known \/ Claimed(v) \/ \E d \in Slot : Creates(d) /\ S(d).vm = v
        BY <4>1, Typed DEF KnownInv, Accounted
      <4>3. Claimed(v) => Claimed(v)'
        BY <1>2 DEF Claimed
      <4>4. ASSUME NEW d \in Slot, Creates(d), S(d).vm = v PROVE Creates(d)' /\ S(d)'.vm = v
        <5>1. ~At(d, "assign")
          BY <1>5, <4>1, <4>4, SoundIs
        <5> QED
          BY <1>1, <4>4, <5>1 DEF Creates, S, Op
      <4> QED
        BY <4>2, <4>3, <4>4
    <3> QED
      BY <3>1, <3>2
  <2>2. \A d \in Slot : Attaches(cmd[d])'
    BY <1>1, <1>8, <1>9, <1>10
  <2> QED
    BY <2>1, <2>2 DEF KnownInv, Accounted
<1>13. DaemonInv'
  <2>1. ASSUME NEW p \in Pid PROVE Minded(p)'
    <3>1. Minded(p) /\ (daemon[p] # NoDaemon => (daemon[p].vm \in Sound' => daemon[p].vm \in Sound))
      BY <1>3, <1>4, Typed DEF DaemonInv
    <3> QED
      BY <1>2, <1>6, <3>1 DEF Minded, Serves
  <2> QED
    BY <1>1, <1>8, <1>9, <1>10, <2>1 DEF DaemonInv
<1> QED
  BY <1>7, <1>11, <1>12, <1>13 DEF SessionsInv, TypeInv

LEMMA AssignsInv ==
  ASSUME SessionsInv, TypeInv', NEW c \in Slot,
         (NewAssigns(c) /\ Spoils({})) \/ (NewIsUnheard(c) /\ Spoils({made'}))
  PROVE  SessionsInv'
<1>1. /\ cmd \in [Slot -> CmdType] /\ Op(c) \in {"new", "run"} /\ S(c).vm = None /\ Me(c) \in Name
      /\ At(c, "assign") /\ made \in Nat /\ UNCHANGED <<store, daemons>>
      /\ spoilt \subseteq spoilt' /\ Met' \subseteq spoilt'
  <2>1. At(c, "assign") /\ UNCHANGED <<store, daemons>>
    BY DEF NewAssigns, NewIsUnheard
  <2>2. Op(c) \in {"new", "run"} /\ Op(c) \in Named
    BY <2>1, Typed, Ops DEF At, Named
  <2> QED
    BY <2>1, <2>2, Typed, Held, State, Has, Constants, SpoilsIs DEF At
<1>2. CASE NewVM /\ Goes(c, "idle", NoRecord) /\ known \subseteq known' /\ made + 1 \in known' \cup spoilt'
  <2>1. cmd'[c] = Idle /\ \A d \in Slot : d # c => cmd'[d] = cmd[d]
    BY <1>1, <1>2 DEF Goes
  <2> QED
    BY <1>1, <1>2, <2>1, GrowsInv DEF NewVM
<1>3. CASE NewVM /\ Goes(c, "record", [vm |-> made + 1, pid |-> None]) /\ UNCHANGED known
  <2>1. PICK s \in Record \cup {NoRecord} : s = [vm |-> made + 1, pid |-> None] /\ s.vm = made + 1
    <3>1. made' = made + 1 /\ made' \in 0..MaxVMs
      BY <1>3 DEF NewVM, TypeInv, TypeOK
    <3>2. made + 1 \in VM
      BY <1>1, <3>1, Constants DEF VM
    <3>3. [vm |-> made + 1, pid |-> None] \in Record
      BY <3>2 DEF Record
    <3> QED
      BY <3>3
  <2>2. Goes(c, "record", s) /\ "record" \in PC /\ "record" # "idle"
    BY <1>3, <2>1 DEF PC
  <2>3. PICK k \in CmdType : /\ cmd' = [cmd EXCEPT ![c] = k] /\ k.op = Op(c) /\ k.pc = "record"
                             /\ k.name = Me(c) /\ k.s = s /\ k.local = cmd[c].local
    BY <2>2, Typed, Turn
  <2>4. cmd'[c] = k /\ \A d \in Slot : d # c => cmd'[d] = cmd[d]
    BY <1>1, <2>3
  <2>5. Creates(c)' /\ S(c)'.vm = made + 1
    BY <1>1, <2>1, <2>3, <2>4 DEF Creates, S, Op
  <2> QED
    BY <1>1, <1>3, <2>1, <2>3, <2>4, <2>5, GrowsInv DEF NewVM
<1>4. CASE Goes(c, "idle", NoRecord) /\ UNCHANGED server
  <2>1. PICK k : k = Idle
    OBVIOUS
  <2>2. cmd' = [cmd EXCEPT ![c] = k] /\ k.op = "none" /\ k.local = {} /\ k.op \notin Named /\ k.op # "sync"
    BY <1>4, <2>1, IdleIs DEF Goes, Named
  <2>3. Moves(c, k)
    BY <1>1, <1>4, <2>2 DEF Moves, server
  <2>4. S(c).vm \notin Sound' /\ \A p \in Pid : ~Mends(c, p)
    BY <1>1, <2>3, MovesIs, SoundIs DEF Mends, At
  <2> QED
    BY <1>1, <2>2, <2>3, <2>4, StandsInv
<1>5. CASE NewIsUnheard(c) /\ Spoils({made'})
  <2>1. made + 1 \in spoilt'
    <3>1. made' = made + 1 /\ made' \in 0..MaxVMs
      BY <1>5 DEF NewIsUnheard, NewVM, TypeInv, TypeOK
    <3>2. made + 1 \in VM
      BY <1>1, <3>1, Constants DEF VM
    <3> QED
      BY <1>5, <3>1, <3>2, SpoilsIs
  <2> QED
    BY <1>2, <1>5, <2>1 DEF NewIsUnheard
<1> QED
  BY <1>2, <1>3, <1>4, <1>5 DEF NewAssigns

LEMMA OpensInv ==
  ASSUME SessionsInv, TypeInv', Opens, Spoils({})
  PROVE  SessionsInv'
BY SpoilsIs, GrowsInv DEF Opens, NewVM

\* A command at a place of the sessions it works on, or of a prune.
LEMMA WorksInv ==
  ASSUME SessionsInv, TypeInv', NEW c \in Slot, Works(c), Spoils({})
  PROVE  SessionsInv'
<1>1. Op(c) \in Named \/ Op(c) \in {"release", "sync", "none"}
  <2>1. Op(c) \in AllCommands \cup {"none"}
    BY Typed, Held, Constants DEF CmdType, Op
  <2> QED
    BY <2>1 DEF AllCommands, Named
<1>2. cmd[c].pc # "idle" => Op(c) # "none"
  BY Typed, Held DEF PlacedAt
<1>3. CASE New(c)
  BY <1>3, LooksInv, AssignsInv, WritesInv, SpawnsInv, NewPublishesInv DEF New
<1>4. CASE Stop(c)
  <2>1. CASE KillsDaemon(c)
    BY <2>1, KillsDaemonInv
  <2>2. CASE Releases(c)
    BY <2>2, ReleasesInv, PlainInv
  <2>3. CASE Drops(c)
    <3>1. Op(c) \in Named
      BY <2>3, Typed, Ops DEF Drops, At, Named
    <3> QED
      BY <2>3, <3>1, RemovalsInv
  <2> QED
    BY <1>4, <2>1, <2>2, <2>3, LooksInv, WritesInv, ReleasesInv DEF Stop, RollsBack
<1>5. CASE Sync(c)
  <2>1. CASE SyncReads(c)
    BY <2>1, LooksInv
  <2>2. CASE SyncLists(c) \/ PruneKills(c) \/ PruneForgets(c)
    <3>1. Op(c) \in Named \/ Op(c) = "sync"
      BY <2>2, Typed, Ops DEF SyncLists, PruneKills, PruneForgets, At, Named
    <3>2. SyncLists(c) => Op(c) = "sync"
      BY Typed, Ops DEF SyncLists, At
    <3>3. "sync" \notin Named
      BY DEF Named
    <3> QED
      BY <2>2, <3>1, <3>2, <3>3, SyncsInv, PruneKillsInv, RemovalsInv
  <2> QED
    BY <1>5, <2>1, <2>2 DEF Sync
<1>6. CASE Use(c)
  <2>1. CASE UseConnects(c) \/ UseFails(c)
    <3>1. Op(c) \in Named
      BY <2>1, Typed, Ops DEF UseConnects, UseFails, At, Named
    <3> QED
      BY <2>1, <3>1, PlainInv
  <2> QED
    BY <1>6, <2>1, LooksInv, WritesInv, LosesInv DEF Use, Exec
<1>7. CASE Attach(c)
  <2>1. CASE AttachFinds(c) \/ AttachUnclaims(c)
    <3>1. Op(c) \in Named
      BY <2>1, Typed, Ops DEF AttachFinds, AttachUnclaims, At, Named
    <3> QED
      BY <2>1, <3>1, PlainInv, RemovalsInv
  <2> QED
    BY <1>7, <2>1, LooksInv, AttachesInv, SpawnsInv, AttachUndoesInv DEF Attach
<1> QED
  BY <1>3, <1>4, <1>5, <1>6, <1>7 DEF Works

LEMMA InitInv == Init => SessionsInv
<1> SUFFICES ASSUME Init PROVE SessionsInv
  OBVIOUS
<1>1. TypeOK /\ ShapeInv
  BY TypeInit DEF TypeInv
<1>2. /\ vms = {} /\ store = [n \in Name |-> NoRecord] /\ daemon = [p \in Pid |-> NoDaemon]
      /\ cmd = [c \in Slot |-> Idle] /\ Sound = {} /\ spoilt = {}
  BY DEF Init, Sound
<1>3. \A c \in Slot : /\ Op(c) = "none" /\ Me(c) = "none" /\ S(c).vm = None /\ cmd[c].local = {}
                      /\ cmd[c].op = "none" /\ "none" \notin Named
  BY <1>2, IdleIs, Constants DEF Op, Me, S, Named
<1>4. FreshInv /\ DaemonInv
  BY <1>2, <1>3 DEF FreshInv, DaemonInv, Watches, Minded
<1>5. VMInv
  <2>1. Met = {}
    BY <1>3, Constants DEF Met, Meets
  <2>2. \A c \in Slot : Fits(cmd[c], store, vms, Sound) /\ Mine(c)
    BY <1>3 DEF Fits, Mine, Creates
  <2> QED
    BY <1>2, <2>1, <2>2 DEF VMInv, OneSessionPerVM
<1>6. KnownInv
  BY <1>2, <1>3 DEF KnownInv, Accounted, Attaches
<1> QED
  BY <1>1, <1>4, <1>5, <1>6 DEF SessionsInv

LEMMA NextInv == SessionsInv /\ [Next]_vars => SessionsInv'
<1> SUFFICES ASSUME SessionsInv, [Next]_vars PROVE SessionsInv'
  OBVIOUS
<1>1. TypeInv'
  BY Typed, TypeNext
<1>2. CASE UNCHANGED vars
  <2>1. Met' = Met
    BY <1>2 DEF vars, Met, Meets, Creates, SetsUp, S, Me, Op
  <2>2. Minds /\ UNCHANGED <<cmd, store, daemons>>
    BY <1>2, <2>1, Typed DEF Minds, vars, daemons, VMInv
  <2> QED
    BY <1>1, <2>2, Resting, RestsInv
<1>3. ASSUME NEW c \in Slot, Works(c), Spoils({}) PROVE SessionsInv'
  BY <1>1, <1>3, WorksInv
<1>4. ASSUME NEW c \in Slot, NewIsUnheard(c), Spoils({made'}) PROVE SessionsInv'
  BY <1>1, <1>4, AssignsInv
<1>5. ASSUME NEW c \in Slot, UseMisreads(c), Spoils({S(c).vm}) PROVE SessionsInv'
  BY <1>1, <1>5, LosesInv
<1>6. ASSUME NEW c \in Slot, Dies(c), Spoils(IF SetsUp(c) \/ TakesBack(c) THEN {S(c).vm} ELSE {})
      PROVE  SessionsInv'
  BY <1>1, <1>6, DiesInv
<1>7. CASE (Opens \/ Vanishes) /\ Spoils({})
  BY <1>1, <1>7, OpensInv, DaemonsInv
<1>8. ASSUME NEW p \in Pid, Daemon(p), Spoils({}) PROVE SessionsInv'
  BY <1>1, <1>8, DaemonsInv
<1> QED
  BY <1>2, <1>3, <1>4, <1>5, <1>6, <1>7, <1>8 DEF Next
-----------------------------------------------------------------------------
(* What the invariant gives *)

\* The strengthening of every invariant below, for any commands that share
\* sessions and VMs, any failures and any errors, misread ones included.
THEOREM Invariance == Spec => []SessionsInv
<1>1. SessionsInv /\ [Next]_vars => SessionsInv'
  BY NextInv
<1> QED
  BY <1>1, InitInv, PTL DEF Spec

\* docs/01: a VM that new or run assigned is not left alone: it has a record, the
\* user was told of it, or a command is busy with it, unless it is spoilt: by a
\* kill in its set-up or roll-back, an assignment nobody heard of, a misread
\* error, or commands that meet.
THEOREM VMsAccountedFor == Spec => []VMIsAccountedFor
<1>1. SessionsInv => VMIsAccountedFor
  BY DEF SessionsInv, KnownInv, Accounted, VMIsAccountedFor
<1> QED
  BY <1>1, Invariance, PTL

\* Between commands, the daemon of a session that is not spoilt is the one its
\* record names, whichever commands used and pruned the session together, and
\* whatever failed in them.
THEOREM DaemonsRecorded == Spec => []DaemonIsRecorded
<1>1. SessionsInv => DaemonIsRecorded
  <2> SUFFICES ASSUME SessionsInv, \A c \in Slot : At(c, "idle"), NEW p \in Pid,
                      daemon[p] # NoDaemon, Serves(p), daemon[p].vm \notin spoilt
               PROVE  store[daemon[p].name].pid = p
    BY DEF DaemonIsRecorded
  <2>1. \A c \in Slot : ~Mends(c, p)
    BY DEF Mends, At
  <2> QED
    BY <2>1 DEF SessionsInv, DaemonInv, Minded
<1> QED
  BY <1>1, Invariance, PTL

\* ENDPOINT_ALREADY_ATTACHED: no two sessions stand for one living VM, whoever
\* attaches it at the same time; one that new creates as attach takes it is spoilt.
THEOREM OneSessionEach == Spec => []OneSessionPerVM
<1>1. SessionsInv => OneSessionPerVM
  BY DEF SessionsInv, VMInv
<1> QED
  BY <1>1, Invariance, PTL

\* What a step of a command does to the store.
Stored(c) ==
  \/ UNCHANGED store
  \/ Op(c) \in Named /\ store' = [store EXCEPT ![Me(c)] = S(c)]
  \/ cmd[c].pc \in {"drop", "forget", "unclaim"} /\ store' = [store EXCEPT ![Me(c)] = NoRecord]

LEMMA WorksStore ==
  ASSUME SessionsInv, NEW c \in Slot, Works(c)
  PROVE  Stored(c)
<1>1. CASE New(c)
  <2>1. NewRecords(c) \/ NewPublishes(c) => Op(c) \in Named
    BY Typed, Ops DEF NewRecords, NewPublishes, At, Named
  <2> QED
    BY <1>1, <2>1 DEF New, NewLooks, NewAssigns, NewRecords, NewSpawns, NewPublishes, Spawns,
                      Adds, Stores, Stored, At
<1>2. CASE Stop(c)
  <2>1. StopClears(c) \/ Keeps(c) => Op(c) \in Named
    BY Typed, Ops DEF StopClears, Keeps, At, Named
  <2> QED
    BY <1>2, <2>1 DEF Stop, RollsBack, StopReads, StopClears, KillsDaemon, Releases, Drops, Keeps,
                      ReleaseLooks, ReleaseLists, Adds, Stores, Stored, At
<1>3. CASE Sync(c)
  BY <1>3 DEF Sync, SyncReads, SyncLists, PruneKills, PruneForgets, Stores, Stored, At
<1>4. CASE Use(c)
  <2>1. cmd[c].pc \in {"mark", "connect", "final"} => Op(c) \in Named
    BY Typed, Ops DEF Named
  <2> QED
    BY <1>4, <2>1 DEF Use, Exec, UseReads, UseCallsBack, UseConnects, UseFails, UseIsLost, Loses,
                      ExecMarks, RunMarks, ReplMarks, ConsoleMarks, Marks, UseEnds,
                      Adds, Stores, Stored, At
<1>5. CASE Attach(c)
  <2>1. cmd[c].pc \in {"claim", "control"} => Op(c) \in Named
    BY Typed, Ops DEF Named
  <2>2. AttachPublishes(c) => Op(c) \in Named
    BY DEF AttachPublishes, Named
  <2> QED
    BY <1>5, <2>1, <2>2 DEF Attach, AttachLooks, AttachFinds, AttachClaims, AttachConnects,
                      AttachSpawns, Spawns, AttachPublishes, AttachUndoes, AttachUnclaims,
                      Adds, Stores, Stored, At
<1> QED
  BY <1>1, <1>2, <1>3, <1>4, <1>5 DEF Works

LEMMA StoredIs ==
  ASSUME SessionsInv, NEW c \in Slot, Stored(c), NEW n \in Name,
         store[n].vm \in Sound, store'[n].vm # store[n].vm
  PROVE  Me(c) = n /\ At(c, "unclaim")
<1>1. store \in [Name -> Record \cup {NoRecord}] /\ store' # store
  BY Typed, State
<1>2. CASE Op(c) \in Named /\ store' = [store EXCEPT ![Me(c)] = S(c)]
  <2>1. n = Me(c) /\ store'[n] = S(c)
    BY <1>1, <1>2
  <2> QED
    BY <1>2, <2>1, OwnRecord
<1>3. CASE cmd[c].pc \in {"drop", "forget", "unclaim"} /\ store' = [store EXCEPT ![Me(c)] = NoRecord]
  <2>1. n = Me(c)
    BY <1>1, <1>3
  <2>2. CASE cmd[c].pc = "drop"
    <3>1. Op(c) \in Named
      BY <2>2, Typed, Ops DEF Named
    <3> QED
      BY <2>1, <2>2, <3>1, OwnRecord, SoundIs
  <2>3. CASE cmd[c].pc = "forget"
    <3>1. Op(c) \in Named \/ Op(c) = "sync"
      BY <2>3, Typed, Ops DEF Named
    <3> QED
      BY <2>1, <2>3, <3>1, OwnRecord, PruneIs DEF At
  <2> QED
    BY <1>3, <2>1, <2>2, <2>3 DEF At
<1> QED
  BY <1>1, <1>2, <1>3 DEF Stored

\* docs/01: no step removes or replaces the record of a VM that lives and is not
\* spoilt, however lost answers, prunes and failures interleave, except attach
\* its own claim.
THEOREM RemovedAreGone == Spec => RemovedIsGone
<1>1. SessionsInv /\ [Next]_vars =>
        [\A n \in Name :
           store[n].vm \in Sound /\ store'[n].vm # store[n].vm =>
             \E c \in Slot : Me(c) = n /\ At(c, "unclaim")]_vars
  <2> SUFFICES ASSUME SessionsInv, Next, NEW n \in Name, store[n].vm \in Sound,
                      store'[n].vm # store[n].vm
               PROVE  \E c \in Slot : Me(c) = n /\ At(c, "unclaim")
    OBVIOUS
  <2>1. store' # store
    OBVIOUS
  <2>2. ~Opens /\ ~Vanishes
    BY <2>1 DEF Opens, Vanishes
  <2>3. \A c \in Slot : ~NewIsUnheard(c) /\ ~UseMisreads(c) /\ ~Dies(c)
    BY <2>1 DEF NewIsUnheard, UseMisreads, Loses, Dies
  <2>4. \A p \in Pid : ~Daemon(p)
    BY <2>1 DEF Daemon, DaemonEnds, DaemonPings
  <2>5. PICK c \in Slot : Works(c)
    BY <2>2, <2>3, <2>4 DEF Next
  <2> QED
    BY <2>5, WorksStore, StoredIs
<1> QED
  BY <1>1, Invariance, PTL DEF Spec, RemovedIsGone
=============================================================================
