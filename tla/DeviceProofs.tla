---------------------------- MODULE DeviceProofs ----------------------------
(***************************************************************************)
(* Theorems about Device, for any number of connections, faults and resets:*)
(* what a device was told holds, both ends of a session agree on who they  *)
(* are, and nobody who is enrolled is turned away.                         *)
(*                                                                         *)
(* They all follow from one invariant, because each of them reaches from   *)
(* the files of the device over a process that may be dead and a message   *)
(* that may be old to the registry of the server.                          *)
(***************************************************************************)
EXTENDS Device, TLAPS

\* What the variables range over.
Values == [root : Nat, pub : Nat, cred : Nat, pin : Nat]
Args == Setup \cup Session \cup {NoArgs}
Messages == [kind : {"none", "setup", "proof", "auth", "tag"}, from : Values, args : Args]
Replies == [kind : {"none", "challenge", "ack", "payload2"}, key : Nat]
Place == {"start", "challenged", "enrolled", "confirm", "gone"}
ConnState ==
    [at : Place, up : Messages, down : Replies, req : Messages, open : BOOLEAN, by : Nat,
     accepted : Values, reported : Messages, confirmed : BOOLEAN, refused : BOOLEAN]
Stored == [id : Nat \ {0}, pk : Nat, cred : Nat \ {0}]

\* The types of files, client process, registry and connections.
TypeOK ==
    /\ files \in Values /\ mem \in Values /\ args \in Args
    /\ link \in Thread \cup {"none"}
    /\ sk \in Nat /\ resets \in Nat
    /\ reg \subseteq Stored /\ disk \subseteq Stored
    /\ conn \in [Thread -> ConnState]
    /\ told \subseteq (Nat \ {0}) \X Nat

\* How far the client process is: what it has loaded is what the files hold.
InSetup == {"challenge", "prove", "ack"}
InSession == {"send", "payload2"}
Begun == pc \in {"pin", "connect"} /\ args \in Setup
PubLoaded == pc \in InSetup \cup InSession \cup {"cred"} \/ Begun
CredLoaded == pc \in InSetup \/ Begun \/ (pc \in InSession /\ ~args.deviceOnly)

\* What the client process holds is what its files hold, from the moment it
\* has loaded it; and public key and root secret belong together.
ClientInv ==
    /\ pc \in {"root", "pub", "cred", "pin", "connect"} => args \in Setup \cup Session
    /\ pc \in InSetup => args \in Setup
    /\ pc \in InSession => args \in Session
    /\ pc \in {"idle", "root", "pin", "connect"} => link = "none"
    /\ pc \in {"pub", "cred"} => (link = "none" <=> args \in Setup)
    /\ pc \in InSetup \cup InSession => link # "none"
    /\ pc \in {"idle", "root", "pub", "cred", "pin", "connect"} \cup InSetup \cup InSession
    /\ pc \notin {"idle", "root"} => mem.root = files.root /\ files.root # 0
    /\ PubLoaded => mem.pub = files.root /\ files.pub = files.root
    /\ CredLoaded => mem.cred = files.cred /\ files.cred # 0
    /\ pc \in {"prove", "ack"} => mem.pin = sk
    /\ FilesAgree
    /\ files.root <= resets + 1 /\ sk <= resets + 1

Ids(records) == {r.id : r \in records}

\* What the server accepted as v is the client that has loaded from, with the
\* command line a.
Verified(v, from, a) ==
    /\ v.root = from.root /\ from.root # 0
    /\ v.pub = from.pub /\ v.pin = from.pin
    /\ IF a.deviceOnly THEN AllowDeviceOnly ELSE v.cred = from.cred

\* A connection: only the client process it belongs to has it open, what is
\* under way on it carries that device's keys, and the client that reads the
\* server's answer still has what it sent to be verified.
Talking(t) ==
    LET c == conn[t] IN
    /\ c.open => link = t
    /\ link = t => c.open /\ c.by = files.root
    /\ c.down.kind # "none" => c.open /\ c.down.key = sk
    /\ c.up.kind # "none" => c.by # 0 /\ c.up.from.root = c.by
    /\ c.up.kind = "setup" => c.up.from.cred # 0
    /\ c.up.kind = "auth" => c.up.args \in Session /\ (c.up.args.deviceOnly \/ c.up.from.cred # 0)
    /\ c.up.kind \in {"setup", "auth"} => c.up.from.pub = c.by
    /\ c.at \in {"challenged", "enrolled"} =>
         c.req.kind = "setup" /\ c.by # 0 /\ c.req.from.root = c.by /\ c.req.from.pub = c.by /\ c.req.from.cred # 0
    /\ c.req.kind \in {"none", "setup"}
    /\ c.up.kind = "tag" => Done(c)
    /\ c.confirmed => Done(c)
    /\ c.up.kind = "auth" /\ c.open => pc = "payload2" /\ c.up.from = mem /\ c.up.args = args
    /\ c.down.kind = "payload2" => pc = "payload2" /\ Verified(c.accepted, mem, args)
    /\ Done(c) => Verified(c.accepted, c.reported.from, c.reported.args)
    /\ c.down.kind = "payload2" \/ Done(c) => c.at \in {"confirm", "gone"}

\* A device is registered under its own key, and what is on disk is in memory.
RegistryInv ==
    /\ \A r \in reg \cup disk : r.pk = r.id
    /\ Ids(disk) \subseteq Ids(reg)

\* Which device claims which credential to a server thread that listens: in a
\* message under way, or in the request that the thread works on.
HasCred(m) == m.kind = "setup" \/ (m.kind = "auth" /\ ~m.args.deviceOnly)
Claim(m) == <<m.from.root, m.from.cred>>
Listening == {t \in Thread : conn[t].at # "gone"}
Claims ==
    {Claim(conn[t].up) : t \in {u \in Listening : HasCred(conn[u].up)}}
    \cup {Claim(conn[t].req) : t \in {u \in Listening : HasCred(conn[u].req)}}

\* A secret that exists or existed; the next one will be none of these.
Used(n) == n <= resets + 1 /\ (files.root = 0 => n <= resets)

\* One device claims one credential at a time, the one it has, so that no late
\* request can replace a credential by another.
ClaimInv ==
    /\ \A a, b \in Claims : a[1] = b[1] => a[2] = b[2]
    /\ \A a \in Claims : a[1] = files.root => a[2] = files.cred
    /\ \A a \in Claims : Used(a[1]) /\ a[1] # 0 /\ a[2] # 0

\* Devices that the server has in registry.bin under its present key: it tells
\* them so, or has told them.
Saved(c) == c.at = "enrolled" \/ c.down.kind = "ack"
Promised ==
    {p[1] : p \in {q \in told : q[2] = sk}} \cup {conn[t].by : t \in {u \in Thread : Saved(conn[u])}}

\* No record of the device n, in memory or on disk, has another credential than
\* the one it has and claims.
Settled(n) ==
    \A r \in reg \cup disk :
        r.id = n =>
            /\ n = files.root => r.cred = files.cred
            /\ \A a \in Claims : a[1] = n => a[2] = r.cred

PromiseInv == \A n \in Promised : Used(n) /\ n \in Ids(disk) /\ Settled(n)

\* What the device was told still holds on its side while the server keeps its
\* key.
ToldInv ==
    \A p \in told :
        /\ p[2] <= resets + 1
        /\ p[2] = sk /\ p[1] = files.root => files.pub = files.root /\ files.pin = sk

Inv == /\ TypeOK /\ ClientInv /\ (\A t \in Thread : Talking(t)) /\ RegistryInv
       /\ ClaimInv /\ PromiseInv /\ ToldInv

\* What a setup is and what a session is.
LEMMA Modes ==
    /\ \A a \in Setup : a.mode = "setup" /\ a.tofu \in BOOLEAN
    /\ \A a \in Session : a.mode = "session" /\ a.deviceOnly \in BOOLEAN
    /\ \A a \in Setup : a \notin Session
    /\ NoArgs \notin Setup \cup Session
<1>1. \A a \in Setup : a.mode = "setup" /\ a.tofu \in BOOLEAN
  BY DEF Setup
<1>2. \A a \in Session : a.mode = "session" /\ a.deviceOnly \in BOOLEAN
  BY DEF Session
<1>3. NoArgs.mode = "none"
  BY DEF NoArgs
<1>. QED
  BY <1>1, <1>2, <1>3

\* A connection that is over, and one that is new.
LEMMA OverState ==
    ASSUME mem \in Values
    PROVE  /\ Over \in ConnState
           /\ Over.at = "gone" /\ ~Over.open /\ Over.up.kind = "none" /\ Over.down.kind = "none"
           /\ Over.req.kind = "none" /\ ~Done(Over) /\ ~Over.confirmed /\ ~Over.refused
           /\ NewConn \in ConnState
           /\ NewConn = [at |-> "start", up |-> Nothing, down |-> NoReply, req |-> Nothing, open |-> TRUE,
                         by |-> mem.root, accepted |-> NoFiles, reported |-> Nothing,
                         confirmed |-> FALSE, refused |-> FALSE]
           /\ Nothing \in Messages /\ Nothing.kind = "none" /\ NoReply \in Replies /\ NoReply.kind = "none"
<1>1. NoFiles \in Values
  BY DEF NoFiles, Values
<1>2. Nothing \in Messages /\ Nothing.kind = "none" /\ NoReply \in Replies /\ NoReply.kind = "none"
  BY <1>1 DEF Nothing, Messages, Args, NoReply, Replies
<1>3. /\ NewConn = [at |-> "start", up |-> Nothing, down |-> NoReply, req |-> Nothing, open |-> TRUE,
                    by |-> mem.root, accepted |-> NoFiles, reported |-> Nothing,
                    confirmed |-> FALSE, refused |-> FALSE]
      /\ mem.root \in Nat
  BY DEF NewConn, Values
<1>4. NewConn \in ConnState
  BY <1>1, <1>2, <1>3 DEF ConnState, Place
<1>5. Over \in ConnState
  BY <1>4 DEF Over, ConnState, Place
<1>6. /\ Over.at = "gone" /\ ~Over.open /\ Over.up = Nothing /\ Over.down = NoReply
      /\ Over.req = Nothing /\ Over.reported = Nothing /\ ~Over.confirmed /\ ~Over.refused
  BY <1>3 DEF Over
<1>. QED
  BY <1>2, <1>3, <1>4, <1>5, <1>6 DEF Done

\* A connection changes, and those that both ends left are forgotten.
LEMMA PutState ==
    ASSUME TypeOK, NEW t \in Thread, NEW c \in ConnState
    PROVE  /\ Put(t, c) \in [Thread -> ConnState] /\ Put(t, c)[t] = c
           /\ \A u \in Thread \ {t} : Put(t, c)[u] \in {conn[u], Over}
<1>1. Over \in ConnState /\ conn \in [Thread -> ConnState]
  BY OverState DEF TypeOK
<1>. QED
  BY <1>1 DEF Put

\* A device without files and a server without records.
LEMMA InitInv == Init => Inv
<1>. SUFFICES ASSUME Init PROVE Inv
  OBVIOUS
<1>1. NoFiles \in Values
  BY DEF NoFiles, Values
<1>2. mem \in Values
  BY <1>1 DEF Init
<1>3. /\ files = NoFiles /\ mem = NoFiles /\ pc = "idle" /\ args = NoArgs /\ link = "none" /\ sk = 1
      /\ reg = {} /\ disk = {} /\ conn = [t \in Thread |-> Over] /\ told = {} /\ resets = 0
  BY DEF Init
<1>4. /\ Over \in ConnState /\ Over.at = "gone" /\ ~Over.open /\ Over.up.kind = "none"
      /\ Over.down.kind = "none" /\ Over.req.kind = "none" /\ ~Done(Over) /\ ~Over.confirmed
  BY <1>2, OverState
<1>5. TypeOK
  BY <1>1, <1>3, <1>4 DEF TypeOK, Args
<1>6. ClientInv
  BY <1>3 DEF ClientInv, PubLoaded, CredLoaded, Begun, InSetup, InSession, FilesAgree, NoFiles
<1>7. ASSUME NEW t \in Thread PROVE Talking(t)
  BY <1>3, <1>4, DeviceAssumption DEF Talking, DeviceAssumption
<1>8. RegistryInv
  BY <1>3 DEF RegistryInv, Ids
<1>9. Claims = {} /\ Promised = {}
  BY <1>3, <1>4 DEF Claims, Listening, Promised, Saved
<1>10. ClaimInv /\ PromiseInv /\ ToldInv
  BY <1>3, <1>9 DEF ClaimInv, PromiseInv, ToldInv
<1>. QED
  BY <1>5, <1>6, <1>7, <1>8, <1>10 DEF Inv
-----------------------------------------------------------------------------
\* What the device's files hold once it has a root secret and what enrolled
\* with it: they grow, and the pin is the server's key when it is set.
FilesGrow ==
    /\ UNCHANGED <<sk, resets>>
    /\ \/ files'.root = files.root /\ (files.cred # 0 => files'.cred = files.cred)
       \/ files.root = 0 /\ files'.root = resets + 1 /\ link = "none"
    /\ files.pub = files.root => files'.pub = files.pub \/ files.root = 0
    /\ files'.pin \in {files.pin, sk}

\* Claims agree if a step adds none but the device's own.
LEMMA ClaimsKeep ==
    ASSUME Inv, FilesGrow, files' \in Values,
           \A a \in Claims' : a \in Claims \/ (a = <<files.root, files.cred>> /\ files.root # 0 /\ files.cred # 0)
    PROVE  ClaimInv'
<1>1. /\ files.root \in Nat /\ files'.root \in Nat /\ files'.cred \in Nat /\ files.cred \in Nat
      /\ resets \in Nat /\ resets' = resets /\ files.root <= resets + 1
  BY DEF Inv, TypeOK, Values, FilesGrow, ClientInv
<1>. DEFINE F == <<files.root, files.cred>>
            New == files.root # 0 /\ files.cred # 0
<1>2. /\ \A a, b \in Claims : a[1] = b[1] => a[2] = b[2]
      /\ \A a \in Claims : (a[1] = files.root => a[2] = files.cred) /\ a[1] # 0 /\ a[2] # 0
      /\ \A a \in Claims : Used(a[1])
  BY DEF Inv, ClaimInv
<1>3. \A a \in Claims' : /\ a \in Claims \/ (a = F /\ New)
                         /\ (a[1] = files.root => a[2] = files.cred) /\ a[1] # 0 /\ a[2] # 0
                         /\ Used(a[1])
  BY <1>1, <1>2 DEF Used
<1>4. \A a, b \in Claims' : a[1] = b[1] => a[2] = b[2]
  BY <1>2, <1>3
<1>5. \A a \in Claims' : Used(a[1])' /\ (a[1] = files'.root => a[2] = files'.cred)
  <2>. SUFFICES ASSUME NEW a \in Claims' PROVE Used(a[1])' /\ (a[1] = files'.root => a[2] = files'.cred)
    OBVIOUS
  <2>1. CASE files'.root = files.root /\ (files.cred # 0 => files'.cred = files.cred)
    BY <1>1, <1>3, <2>1 DEF Used
  <2>2. CASE files.root = 0 /\ files'.root = resets + 1
    BY <1>1, <1>3, <2>2 DEF Used
  <2>. QED
    BY <2>1, <2>2 DEF FilesGrow
<1>. QED
  BY <1>3, <1>4, <1>5 DEF ClaimInv

\* Who was told to be enrolled, or is about to be, stays so while the records
\* that come are those that live requests claim.
LEMMA PromisesKeep ==
    ASSUME Inv, FilesGrow, files' \in Values,
           \A a \in Claims' : a \in Claims \/ (a = <<files.root, files.cred>> /\ files.root # 0 /\ files.cred # 0),
           \A r \in reg' \cup disk' : r \in reg \cup disk \/ <<r.id, r.cred>> \in Claims,
           \A n \in Promised' :
              /\ n \in Ids(disk)'
              /\ \/ n \in Promised
                 \/ Used(n) /\ \A r \in reg' \cup disk' : r.id = n => <<r.id, r.cred>> \in Claims
    PROVE  PromiseInv'
<1>1. /\ files.root \in Nat /\ resets \in Nat /\ resets' = resets
      /\ reg \subseteq Stored /\ disk \subseteq Stored
  BY DEF Inv, TypeOK, Values, FilesGrow
<1>2. /\ \A a, b \in Claims : a[1] = b[1] => a[2] = b[2]
      /\ \A a \in Claims : (a[1] = files.root => a[2] = files.cred) /\ a[2] # 0
  BY DEF Inv, ClaimInv
<1>. SUFFICES ASSUME NEW n \in Promised'
              PROVE  Used(n)' /\ Settled(n)'
  BY DEF PromiseInv
<1>3. Used(n)
  BY DEF Inv, PromiseInv
<1>4. n = files'.root => files'.root = files.root /\ (files.cred # 0 => files'.cred = files.cred)
  BY <1>1, <1>3 DEF Used, FilesGrow
<1>5. Used(n)'
  <2>1. CASE files'.root = files.root
    BY <1>1, <1>3, <2>1 DEF Used
  <2>2. CASE files'.root = resets + 1
    BY <1>1, <1>3, <2>2 DEF Used
  <2>. QED
    BY <2>1, <2>2 DEF FilesGrow
<1>6. ASSUME NEW r \in reg' \cup disk', r.id = n
      PROVE  /\ n = files.root => r.cred = files.cred /\ files.cred # 0
             /\ \A a \in Claims : a[1] = n => a[2] = r.cred
  <2>1. CASE <<r.id, r.cred>> \in Claims
    <3>. DEFINE b == <<r.id, r.cred>>
    <3>1. b \in Claims /\ b[1] = n /\ b[2] = r.cred
      BY <1>6, <2>1
    <3>. QED
      BY <1>2, <3>1
  <2>2. CASE <<r.id, r.cred>> \notin Claims
    <3>1. r \in reg \cup disk /\ Settled(n)
      BY <1>6, <2>2 DEF Inv, PromiseInv
    <3>. QED
      BY <1>1, <1>6, <3>1 DEF Settled, Stored
  <2>. QED
    BY <2>1, <2>2
<1>7. ASSUME NEW r \in reg' \cup disk', r.id = n, NEW a \in Claims', a[1] = n
      PROVE  a[2] = r.cred
  <2>1. CASE a \in Claims
    BY <1>6, <1>7, <2>1
  <2>2. CASE a = <<files.root, files.cred>>
    BY <1>6, <1>7, <2>2
  <2>. QED
    BY <2>1, <2>2
<1>8. Settled(n)'
  BY <1>4, <1>6, <1>7 DEF Settled
<1>. QED
  BY <1>5, <1>8

\* What the device was told stays true on its side.
LEMMA ToldKeeps ==
    ASSUME Inv, FilesGrow, files' \in Values, UNCHANGED told
    PROVE  ToldInv'
<1>1. /\ files.root \in Nat /\ files.pub \in Nat /\ resets \in Nat /\ resets' = resets /\ sk' = sk
      /\ \A p \in told : p[1] # 0
  BY DEF Inv, TypeOK, Values, FilesGrow
<1>. SUFFICES ASSUME NEW p \in told
              PROVE  /\ p[2] <= resets + 1
                     /\ p[2] = sk /\ p[1] = files'.root => files'.pub = files'.root /\ files'.pin = sk
  BY <1>1 DEF ToldInv
<1>2. /\ p[2] <= resets + 1 /\ p[1] # 0
      /\ p[2] = sk /\ p[1] = files.root => files.pub = files.root /\ files.pin = sk
  BY <1>1 DEF Inv, ToldInv
<1>3. p[2] = sk => p[1] \in Promised
  BY DEF Promised
<1>4. p[2] = sk => Used(p[1])
  BY <1>3 DEF Inv, PromiseInv
<1>5. CASE files'.root = files.root
  BY <1>1, <1>2, <1>5 DEF FilesGrow
<1>6. CASE files.root = 0 /\ files'.root = resets + 1
  BY <1>1, <1>2, <1>4, <1>6 DEF Used
<1>. QED
  BY <1>5, <1>6 DEF FilesGrow

\* Nothing is said: a step of the client process, or of its operator.
LEMMA Silent ==
    ASSUME Inv, FilesGrow, files' \in Values, UNCHANGED <<conn, reg, disk, told, link>>,
           pc # "payload2", pc' # "payload2"
    PROVE  (\A t \in Thread : Talking(t)') /\ RegistryInv' /\ ClaimInv' /\ PromiseInv' /\ ToldInv'
<1>1. ASSUME NEW t \in Thread PROVE Talking(t)'
  <2>1. Talking(t) /\ "none" \notin Thread
    BY DeviceAssumption DEF Inv
  <2>2. link = t => files'.root = files.root
    BY <2>1 DEF FilesGrow
  <2>. QED
    BY <2>1, <2>2 DEF Talking, FilesGrow
<1>2. RegistryInv'
  BY DEF Inv, RegistryInv, Ids
<1>3. Claims' = Claims /\ Promised' = Promised /\ Ids(disk)' = Ids(disk)
  BY DEF Claims, Listening, Promised, Ids, FilesGrow
<1>4. PromiseInv'
  BY <1>3, PromisesKeep DEF Inv, PromiseInv
<1>. QED
  BY <1>1, <1>2, <1>3, <1>4, ClaimsKeep, ToldKeeps

\* Connection t becomes c, and the other connections stay as they are.
LEMMA Speaks ==
    ASSUME Inv, NEW t \in Thread, NEW c \in ConnState, conn' = Put(t, c),
           FilesGrow, files' \in Values, files'.root = files.root,
           \/ UNCHANGED <<link, pc, mem, args>>
           \/ link \in {t, "none"} /\ link' \in {t, "none"},
           Ids(disk) \subseteq Ids(disk)',
           \A r \in reg' \cup disk' : r \in reg \cup disk \/ <<r.id, r.cred>> \in Claims,
           \A p \in told' : p[2] = sk => p[1] \in Promised,
           Saved(c) =>
              \/ c.by \in Promised
              \/ /\ Used(c.by) /\ c.by \in Ids(disk)'
                 /\ \A r \in reg' \cup disk' : r.id = c.by => <<r.id, r.cred>> \in Claims,
           \A m \in {c.up, c.req} : c.at # "gone" /\ HasCred(m) =>
              \/ Claim(m) \in Claims
              \/ /\ m.from.root = files.root /\ m.from.cred = files.cred
                 /\ files.root # 0 /\ files.cred # 0,
           Talking(t)'
    PROVE  /\ conn' \in [Thread -> ConnState] /\ (\A u \in Thread : Talking(u)')
           /\ ClaimInv' /\ PromiseInv'
           /\ \A u \in Thread \ {t} : conn'[u].refused => conn[u].refused
<1>1. /\ mem \in Values /\ TypeOK /\ "none" \notin Thread
      /\ \A u \in Thread : Talking(u)
  BY DeviceAssumption DEF Inv, TypeOK
<1>2. /\ Over \in ConnState /\ Over.at = "gone" /\ ~Over.open /\ Over.up.kind = "none"
      /\ Over.down.kind = "none" /\ Over.req.kind = "none" /\ ~Done(Over) /\ ~Over.confirmed /\ ~Over.refused
  BY <1>1, OverState
<1>3. /\ conn' \in [Thread -> ConnState] /\ conn'[t] = c
      /\ \A u \in Thread \ {t} : conn'[u] \in {conn[u], Over}
  BY <1>1, PutState
<1>4. ASSUME NEW u \in Thread \ {t} PROVE Talking(u)'
  <2>1. Talking(u) /\ (link = u <=> link' = u) /\ (link = u => UNCHANGED <<pc, mem, args>>)
    BY <1>1
  <2>2. CASE conn'[u] = conn[u]
    BY <2>1, <2>2 DEF Talking, FilesGrow, Done, Verified
  <2>3. CASE conn'[u] = Over
    <3>1. link # u
      <4>1. CASE link = u
        <5>1. conn[u].open /\ ~Free(conn[u])
          BY <2>1, <4>1 DEF Talking, Free
        <5>2. conn'[u] = conn[u]
          BY <5>1 DEF Put
        <5>. QED
          BY <1>2, <2>3, <5>1, <5>2
      <4>. QED
        BY <4>1
    <3>. QED
      BY <1>2, <2>1, <2>3, <3>1 DEF Talking
  <2>. QED
    BY <1>3, <2>2, <2>3
<1>5. \A a \in Claims' : a \in Claims \/ (a = <<files.root, files.cred>> /\ files.root # 0 /\ files.cred # 0)
  <2>. DEFINE New(a) == a = <<files.root, files.cred>> /\ files.root # 0 /\ files.cred # 0
  <2>1. ASSUME NEW u \in Thread, conn'[u].at # "gone"
        PROVE  /\ HasCred(conn'[u].up) => Claim(conn'[u].up) \in Claims \/ New(Claim(conn'[u].up))
               /\ HasCred(conn'[u].req) => Claim(conn'[u].req) \in Claims \/ New(Claim(conn'[u].req))
    <3>1. CASE u = t
      BY <1>3, <2>1, <3>1 DEF Claim
    <3>2. CASE u # t /\ conn'[u] = conn[u]
      BY <2>1, <3>2 DEF Claims, Listening
    <3>3. CASE u # t /\ conn'[u] = Over
      BY <1>2, <3>3 DEF HasCred
    <3>. QED
      BY <1>3, <3>1, <3>2, <3>3
  <2>. HIDE DEF New
  <2>2. ASSUME NEW a \in Claims' PROVE a \in Claims \/ New(a)
    BY <2>1, <2>2 DEF Claims, Listening
  <2>. QED
    BY <2>2 DEF New
<1>6. ClaimInv'
  BY <1>5, ClaimsKeep
<1>7. \A u \in Thread \ {t} : conn'[u].refused => conn[u].refused
  BY <1>2, <1>3
<1>8. ASSUME NEW n \in Promised'
      PROVE  /\ n \in Ids(disk)'
             /\ \/ n \in Promised
                \/ Used(n) /\ \A r \in reg' \cup disk' : r.id = n => <<r.id, r.cred>> \in Claims
  <2>1. \A k \in Promised : k \in Ids(disk)'
    BY DEF Inv, PromiseInv
  <2>2. CASE \E p \in told' : p[2] = sk /\ n = p[1]
    BY <2>1, <2>2
  <2>3. CASE \E u \in Thread : Saved(conn'[u]) /\ n = conn'[u].by
    <3>1. PICK u \in Thread : Saved(conn'[u]) /\ n = conn'[u].by
      BY <2>3
    <3>2. CASE u = t
      BY <1>3, <2>1, <3>1, <3>2
    <3>3. CASE u # t
      <4>1. conn'[u] = conn[u]
        BY <1>2, <1>3, <3>1, <3>3 DEF Saved
      <4>2. n \in Promised
        BY <3>1, <4>1 DEF Promised
      <4>. QED
        BY <2>1, <4>2
    <3>. QED
      BY <3>2, <3>3
  <2>. QED
    BY <2>2, <2>3 DEF Promised, FilesGrow
<1>9. PromiseInv'
  BY <1>5, <1>8, PromisesKeep
<1>. QED
  BY <1>3, <1>4, <1>6, <1>7, <1>9
-----------------------------------------------------------------------------
\* No step turns away a session that it should have accepted.
NoneWronged ==
    \A t \in Thread :
        conn'[t].refused /\ ~conn[t].refused => ~(Entitled(conn[t].up) /\ Permitted(conn[t].up))

\* Steps of the client process before it connects, and its operator's.
LEMMA SilentStep ==
    ASSUME Inv, UNCHANGED <<server, conn, told, resets>>,
           \/ \E a \in Setup : RunSetup(a)
           \/ \E a \in Session : RunSession(a)
           \/ PrintIdentity \/ PinServer
           \/ LoadRoot \/ LoadPub \/ LoadCred \/ LoadPin \/ StopWithoutPin
    PROVE  Inv'
<1>0. /\ ClientInv /\ files.root \in Nat /\ files.pub \in Nat /\ files.cred \in Nat /\ files.pin \in Nat
      /\ mem.root \in Nat /\ mem.pub \in Nat /\ mem.cred \in Nat /\ mem.pin \in Nat
      /\ files \in Values /\ mem \in Values
      /\ resets \in Nat /\ sk \in Nat /\ args \in Args /\ link \in Thread \cup {"none"}
      /\ NoFiles \in Values /\ NoFiles.root = 0
  BY DEF Inv, TypeOK, Values, NoFiles
<1>. DEFINE Ok == FilesGrow /\ files' \in Values /\ mem' \in Values /\ args' \in Args /\ link' = link /\ ClientInv'
<1>1. ASSUME NEW a \in Setup, RunSetup(a) PROVE Ok
  BY <1>0, <1>1, Modes
  DEF RunSetup, server, ClientInv, FilesGrow, PubLoaded, CredLoaded, Begun, InSetup, InSession, FilesAgree, Args
<1>2. ASSUME NEW a \in Session, RunSession(a) PROVE Ok
  BY <1>0, <1>2, Modes
  DEF RunSession, server, ClientInv, FilesGrow, PubLoaded, CredLoaded, Begun, InSetup, InSession, FilesAgree, Args
<1>3. ASSUME PrintIdentity PROVE Ok
  BY <1>0, <1>3
  DEF PrintIdentity, RootOf, Fresh, server, ClientInv, FilesGrow, PubLoaded, CredLoaded, Begun, InSetup, InSession, FilesAgree, Values
<1>4. ASSUME PinServer PROVE Ok
  BY <1>0, <1>4
  DEF PinServer, server, ClientInv, FilesGrow, PubLoaded, CredLoaded, Begun, InSetup, InSession, FilesAgree, Values
<1>5. ASSUME LoadRoot PROVE Ok
  BY <1>0, <1>5, Modes
  DEF LoadRoot, RootOf, Fresh, server, ClientInv, FilesGrow, PubLoaded, CredLoaded, Begun, InSetup, InSession, FilesAgree, Values, Args
<1>6. ASSUME LoadPub PROVE Ok
  BY <1>0, <1>6, Modes
  DEF LoadPub, server, ClientInv, FilesGrow, PubLoaded, CredLoaded, Begun, InSetup, InSession, FilesAgree, Values, Args
<1>7. ASSUME LoadCred PROVE Ok
  BY <1>0, <1>7, Modes
  DEF LoadCred, Fresh, server, ClientInv, FilesGrow, PubLoaded, CredLoaded, Begun, InSetup, InSession, FilesAgree, Values, Args
<1>8. ASSUME LoadPin PROVE Ok
  BY <1>0, <1>8, Modes
  DEF LoadPin, server, ClientInv, FilesGrow, PubLoaded, CredLoaded, Begun, InSetup, InSession, FilesAgree, Values, Args
<1>9. ASSUME StopWithoutPin PROVE Ok
  BY <1>0, <1>9
  DEF StopWithoutPin, Exit, server, ClientInv, FilesGrow, PubLoaded, CredLoaded, Begun, InSetup, InSession, FilesAgree, Args
<1>10. Ok
  BY <1>1, <1>2, <1>3, <1>4, <1>5, <1>6, <1>7, <1>8, <1>9
<1>11. pc # "payload2" /\ pc' # "payload2"
  BY DEF RunSetup, RunSession, PrintIdentity, PinServer, LoadRoot, LoadPub, LoadCred, LoadPin,
         StopWithoutPin, Exit
<1>12. (\A t \in Thread : Talking(t)') /\ RegistryInv' /\ ClaimInv' /\ PromiseInv' /\ ToldInv'
  BY <1>10, <1>11, Silent DEF server
<1>13. TypeOK'
  BY <1>10 DEF Inv, TypeOK, server
<1>. QED
  BY <1>10, <1>12, <1>13 DEF Inv

\* The values the client sends are those it has loaded.
LEMMA Sent ==
    ASSUME TypeOK
    PROVE  /\ \A kind \in {"setup", "proof", "auth", "tag"} :
                 Message(kind) \in Messages /\ Message(kind).kind = kind
                 /\ Message(kind).from = mem /\ Message(kind).args = args
           /\ \A kind \in {"challenge", "ack", "payload2"} :
                 Reply(kind) \in Replies /\ Reply(kind).kind = kind /\ Reply(kind).key = sk
BY DEF TypeOK, Message, Reply, Messages, Replies

\* The client process ends; at most it has sent its tag before.
LEMMA EndsInv ==
    ASSUME Inv, NEW c \in ConnState, Ends(c),
           FilesGrow, files' \in Values, UNCHANGED <<reg, disk>>,
           files'.root = files.root, files'.pub = files.pub,
           link # "none" =>
               /\ c.at = conn[link].at /\ c.by = conn[link].by /\ c.req = conn[link].req
               /\ c.accepted = conn[link].accepted /\ c.confirmed = conn[link].confirmed
               /\ c.refused = conn[link].refused
               /\ \/ c.up = conn[link].up /\ c.reported = conn[link].reported
                  \/ /\ pc = "payload2" /\ conn[link].down.kind = "payload2"
                     /\ c.up = ClientTag /\ c.reported = ClientTag,
           \A p \in told' : p[2] = sk => p[1] \in Promised
    PROVE  /\ conn' \in [Thread -> ConnState] /\ mem' \in Values /\ args' \in Args /\ link' = "none"
           /\ ClientInv' /\ (\A t \in Thread : Talking(t)') /\ RegistryInv' /\ ClaimInv' /\ PromiseInv'
           /\ \A t \in Thread : conn'[t].refused => conn[t].refused
<1>1. /\ TypeOK /\ ClientInv /\ RegistryInv /\ (\A t \in Thread : Talking(t)) /\ "none" \notin Thread
      /\ NoFiles \in Values /\ mem \in Values
  BY DeviceAssumption DEF Inv, TypeOK, NoFiles, Values
<1>2. pc' = "idle" /\ args' = NoArgs /\ mem' = NoFiles /\ link' = "none" /\ mem' \in Values /\ args' \in Args
  BY <1>1 DEF Ends, Exit, Args
<1>3. ClientInv'
  BY <1>1, <1>2
  DEF ClientInv, FilesGrow, PubLoaded, CredLoaded, Begun, InSetup, InSession, FilesAgree
<1>4. RegistryInv'
  BY <1>1 DEF RegistryInv, Ids
<1>5. CASE link = "none"
  <2>1. conn' = conn
    BY <1>5 DEF Ends
  <2>2. \A t \in Thread : Talking(t)'
    BY <1>1, <1>2, <1>5, <2>1 DEF Talking, FilesGrow, Done, Verified
  <2>3. Claims' = Claims /\ Ids(disk)' = Ids(disk)
    BY <2>1 DEF Claims, Listening, Ids
  <2>4. \A n \in Promised' : n \in Promised
    BY <2>1 DEF Promised, FilesGrow
  <2>5. PromiseInv'
    BY <2>3, <2>4, PromisesKeep DEF Inv, PromiseInv
  <2>. QED
    BY <1>1, <1>2, <1>3, <1>4, <2>1, <2>2, <2>3, <2>5, ClaimsKeep DEF TypeOK
<1>6. CASE link # "none"
  <2>1. PICK t \in Thread : t = link
    BY <1>1, <1>6 DEF TypeOK
  <2>2. PICK d : d = [c EXCEPT !.open = FALSE, !.down = NoReply]
    OBVIOUS
  <2>3. /\ d \in ConnState /\ ~d.open /\ d.down.kind = "none"
        /\ d.at = conn[t].at /\ d.by = conn[t].by /\ d.req = conn[t].req
        /\ d.accepted = conn[t].accepted /\ d.confirmed = conn[t].confirmed /\ d.refused = conn[t].refused
        /\ \/ d.up = conn[t].up /\ d.reported = conn[t].reported
           \/ /\ pc = "payload2" /\ conn[t].down.kind = "payload2"
              /\ d.up = ClientTag /\ d.reported = ClientTag
    <3>1. NoReply \in Replies /\ NoReply.kind = "none"
      BY <1>1, OverState
    <3>2. /\ d \in ConnState /\ d.open = FALSE /\ d.down = NoReply
          /\ d.at = c.at /\ d.by = c.by /\ d.req = c.req /\ d.accepted = c.accepted
          /\ d.confirmed = c.confirmed /\ d.refused = c.refused /\ d.up = c.up /\ d.reported = c.reported
      BY <2>2, <3>1 DEF ConnState
    <3>. QED
      BY <1>6, <2>1, <3>1, <3>2
  <2>4. conn' = Put(t, d)
    BY <1>6, <2>1, <2>2 DEF Ends
  <2>5. conn'[t] = d
    BY <1>1, <2>3, <2>4, PutState
  <2>6. /\ pc = "payload2" => mem.root = files.root /\ files.root # 0
        /\ ClientTag.kind = "tag" /\ ClientTag.from = mem /\ ClientTag.args = args
        /\ Talking(t)
    BY <1>1, Sent DEF ClientInv, ClientTag
  <2>7. Talking(t)'
    BY <1>1, <1>2, <2>1, <2>3, <2>5, <2>6 DEF Talking, FilesGrow, Done, Verified
  <2>8. \A m \in {d.up, d.req} : d.at # "gone" /\ HasCred(m) => Claim(m) \in Claims
    BY <2>3, <2>6 DEF HasCred, Claims, Listening
  <2>9. Saved(d) => d.by \in Promised
    BY <2>3 DEF Saved, Promised
  <2>10. /\ conn' \in [Thread -> ConnState] /\ (\A u \in Thread : Talking(u)') /\ ClaimInv' /\ PromiseInv'
         /\ \A u \in Thread \ {t} : conn'[u].refused => conn[u].refused
    BY <1>2, <2>1, <2>3, <2>4, <2>7, <2>8, <2>9, Speaks DEF Ids
  <2>. QED
    BY <1>2, <1>3, <1>4, <2>3, <2>5, <2>10
<1>. QED
  BY <1>5, <1>6

\* Steps that turn nobody away.
NotRefusing == \A t \in Thread : conn'[t].refused => conn[t].refused

\* A new connection, with a setup request or still silent.
LEMMA ConnectInv ==
    ASSUME Inv, NEW t \in Thread, Connect(t)
    PROVE  Inv' /\ NotRefusing
<1>1. /\ TypeOK /\ ClientInv /\ RegistryInv /\ (\A u \in Thread : Talking(u)) /\ "none" \notin Thread
      /\ mem \in Values /\ args \in Args
  BY DeviceAssumption DEF Inv, TypeOK
<1>2. /\ pc = "connect" /\ link = "none" /\ link' = t
      /\ UNCHANGED <<files, args, mem, sk, reg, disk, told, resets>>
  BY <1>1 DEF Connect, ClientInv, server, bounds
<1>3. /\ mem.root = files.root /\ files.root # 0 /\ args \in Setup \cup Session
      /\ args \in Setup => /\ mem.pub = files.root /\ files.pub = files.root
                           /\ mem.cred = files.cred /\ files.cred # 0
  BY <1>1, <1>2 DEF ClientInv, PubLoaded, CredLoaded, Begun
<1>4. PICK c : c = IF args.mode = "setup" THEN [NewConn EXCEPT !.up = SetupRequest] ELSE NewConn
  OBVIOUS
<1>5. conn' = Put(t, c) /\ pc' = IF args.mode = "setup" THEN "challenge" ELSE "pub"
  BY <1>4 DEF Connect
<1>6. /\ SetupRequest \in Messages /\ SetupRequest.kind = "setup" /\ SetupRequest.from = mem
  BY <1>1, Sent DEF SetupRequest
<1>7. /\ c \in ConnState /\ c.at = "start" /\ c.open /\ c.by = files.root /\ c.down.kind = "none"
      /\ c.req.kind = "none" /\ ~Done(c) /\ ~c.confirmed /\ ~c.refused
      /\ c.up.kind = "none" \/ (c.up = SetupRequest /\ args \in Setup)
  <2>1. /\ NewConn \in ConnState
        /\ NewConn = [at |-> "start", up |-> Nothing, down |-> NoReply, req |-> Nothing, open |-> TRUE,
                      by |-> mem.root, accepted |-> NoFiles, reported |-> Nothing,
                      confirmed |-> FALSE, refused |-> FALSE]
        /\ Nothing.kind = "none" /\ NoReply.kind = "none"
    BY <1>1, OverState
  <2>2. CASE args.mode = "setup"
    <3>1. c = [NewConn EXCEPT !.up = SetupRequest] /\ args \in Setup
      BY <1>3, <1>4, <2>2, Modes
    <3>2. c \in ConnState
      BY <1>6, <2>1, <3>1 DEF ConnState
    <3>. QED
      BY <1>3, <2>1, <3>1, <3>2 DEF Done
  <2>3. CASE args.mode # "setup"
    BY <1>3, <1>4, <2>1, <2>3 DEF Done
  <2>. QED
    BY <2>2, <2>3
<1>8. conn'[t] = c
  BY <1>1, <1>5, <1>7, PutState
<1>9. Talking(t)'
  BY <1>2, <1>3, <1>6, <1>7, <1>8 DEF Talking, Done
<1>10. FilesGrow /\ files' \in Values
  BY <1>1, <1>2 DEF FilesGrow, TypeOK
<1>11. \A m \in {c.up, c.req} : HasCred(m) =>
          /\ m.from.root = files.root /\ m.from.cred = files.cred
          /\ files.root # 0 /\ files.cred # 0
  BY <1>3, <1>6, <1>7 DEF HasCred
<1>12. ~Saved(c) /\ \A p \in told' : p[2] = sk => p[1] \in Promised
  BY <1>2, <1>7 DEF Saved, Promised
<1>13. /\ conn' \in [Thread -> ConnState] /\ (\A u \in Thread : Talking(u)') /\ ClaimInv' /\ PromiseInv'
       /\ \A u \in Thread \ {t} : conn'[u].refused => conn[u].refused
  BY <1>2, <1>5, <1>7, <1>9, <1>10, <1>11, <1>12, Speaks DEF Ids
<1>14. ClientInv'
  BY <1>1, <1>2, <1>3, <1>5, Modes
  DEF ClientInv, PubLoaded, CredLoaded, Begun, InSetup, InSession, FilesAgree
<1>15. RegistryInv' /\ ToldInv'
  BY <1>1, <1>2, <1>10, ToldKeeps DEF RegistryInv, Ids
<1>16. TypeOK'
  BY <1>1, <1>2, <1>13 DEF TypeOK
<1>. QED
  BY <1>7, <1>8, <1>13, <1>14, <1>15, <1>16 DEF Inv, NotRefusing

\* The client goes on over the connection it has: it sends m, or nothing, having
\* read what there was to read.
LEMMA GoesOn ==
    ASSUME Inv, Send \/ AcceptChallenge \/ Prove
    PROVE  Inv' /\ NotRefusing
<1>1. /\ TypeOK /\ ClientInv /\ RegistryInv /\ (\A u \in Thread : Talking(u)) /\ "none" \notin Thread
      /\ mem \in Values /\ args \in Args /\ files \in Values /\ sk \in Nat
  BY DeviceAssumption DEF Inv, TypeOK
<1>2. PICK t \in Thread : t = link
  BY <1>1 DEF Send, AcceptChallenge, Prove, ClientInv, InSetup, InSession, TypeOK
<1>3. Talking(t) /\ conn[t] \in ConnState /\ conn[t].open /\ conn[t].by = files.root
  BY <1>1, <1>2 DEF Talking, TypeOK
<1>4. /\ link' = link /\ UNCHANGED <<args, sk, reg, disk, told, resets>>
      /\ mem.root = files.root /\ files.root # 0
  BY <1>1 DEF Send, AcceptChallenge, Prove, server, bounds, ClientInv
<1>5. RegistryInv'
  BY <1>1, <1>4 DEF RegistryInv, Ids
<1>6. \A p \in told' : p[2] = sk => p[1] \in Promised
  BY <1>4 DEF Promised
<1>7. ASSUME AcceptChallenge PROVE Inv' /\ NotRefusing
  <2>1. /\ pc = "challenge" /\ pc' = "prove" /\ conn' = conn
        /\ files' = [files EXCEPT !.pin = sk] /\ mem' = [mem EXCEPT !.pin = sk]
    <3>1. conn[t].down.kind = "challenge" /\ conn[t].down.key = sk
      BY <1>1, <1>2, <1>3, <1>7 DEF AcceptChallenge, Heard, Mine, Talking
    <3>. QED
      BY <1>1, <1>2, <1>7, <3>1 DEF AcceptChallenge, Key, Mine
  <2>2. FilesGrow /\ files' \in Values /\ mem' \in Values
    BY <1>1, <1>4, <2>1 DEF FilesGrow, Values
  <2>3. ClientInv'
    BY <1>1, <1>4, <2>1
    DEF ClientInv, PubLoaded, CredLoaded, Begun, InSetup, InSession, FilesAgree, Values
  <2>4. (\A u \in Thread : Talking(u)') /\ ClaimInv' /\ PromiseInv' /\ ToldInv'
    BY <1>4, <2>1, <2>2, Silent
  <2>5. TypeOK'
    BY <1>1, <1>4, <2>1, <2>2 DEF TypeOK
  <2>. QED
    BY <1>5, <2>1, <2>3, <2>4, <2>5 DEF Inv, NotRefusing
<1>8. ASSUME Send \/ Prove PROVE Inv' /\ NotRefusing
  <2>1. PICK c : c = IF Send THEN [conn[t] EXCEPT !.up = AuthPayload]
                             ELSE [conn[t] EXCEPT !.up = SetupProof, !.down = NoReply]
    OBVIOUS
  <2>2. conn' = Put(t, c) /\ UNCHANGED <<files, mem>>
    BY <1>2, <1>8, <2>1 DEF Send, Prove
  <2>3. /\ NoReply \in Replies /\ NoReply.kind = "none"
        /\ SetupProof \in Messages /\ SetupProof.kind = "proof" /\ SetupProof.from = mem
        /\ AuthPayload \in Messages /\ AuthPayload.kind = "auth" /\ AuthPayload.from = mem
        /\ AuthPayload.args = args
    BY <1>1, OverState, Sent DEF SetupProof, AuthPayload
  <2>4. /\ c \in ConnState /\ c.open /\ c.at = conn[t].at /\ c.by = conn[t].by /\ c.req = conn[t].req
        /\ c.accepted = conn[t].accepted /\ c.reported = conn[t].reported
        /\ c.confirmed = conn[t].confirmed /\ c.refused = conn[t].refused
        /\ c.down = conn[t].down \/ c.down.kind = "none"
        /\ c.up = IF Send THEN AuthPayload ELSE SetupProof
    BY <1>3, <2>1, <2>3 DEF ConnState
  <2>5. conn'[t] = c
    BY <1>1, <2>2, <2>4, PutState
  <2>6. Send => /\ args \in Session /\ mem.pub = files.root
                /\ args.deviceOnly \/ (mem.cred = files.cred /\ files.cred # 0)
    BY <1>1 DEF Send, ClientInv, PubLoaded, CredLoaded, InSession
  <2>7. Talking(t)'
    <3>1. pc # "payload2" /\ (Send => pc' = "payload2")
      BY <1>8 DEF Send, Prove
    <3>. QED
      BY <1>2, <1>3, <1>4, <2>2, <2>3, <2>4, <2>5, <2>6, <3>1 DEF Talking, Done, Verified
  <2>8. FilesGrow /\ files' \in Values
    BY <1>1, <1>4, <2>2 DEF FilesGrow
  <2>9. \A m \in {c.up, c.req} : c.at # "gone" /\ HasCred(m) =>
           \/ Claim(m) \in Claims
           \/ /\ m.from.root = files.root /\ m.from.cred = files.cred
              /\ files.root # 0 /\ files.cred # 0
    <3>1. c.at # "gone" /\ HasCred(c.req) => Claim(c.req) \in Claims
      BY <2>4 DEF Claims, Listening
    <3>. QED
      BY <1>4, <2>3, <2>4, <2>6, <3>1 DEF HasCred
  <2>10. Saved(c) => c.by \in Promised
    BY <2>4 DEF Saved, Promised
  <2>11. /\ conn' \in [Thread -> ConnState] /\ (\A u \in Thread : Talking(u)') /\ ClaimInv' /\ PromiseInv'
         /\ \A u \in Thread \ {t} : conn'[u].refused => conn[u].refused
    BY <1>2, <1>4, <1>6, <2>2, <2>4, <2>7, <2>8, <2>9, <2>10, Speaks DEF Ids
  <2>12. ClientInv'
    BY <1>1, <1>4, <1>8, <2>2, Modes
    DEF Send, Prove, ClientInv, PubLoaded, CredLoaded, Begun, InSetup, InSession, FilesAgree
  <2>13. ToldInv'
    BY <1>4, <2>8, ToldKeeps
  <2>14. TypeOK'
    BY <1>1, <1>4, <2>2, <2>11 DEF TypeOK
  <2>. QED
    BY <1>5, <2>4, <2>5, <2>11, <2>12, <2>13, <2>14 DEF Inv, NotRefusing
<1>. QED
  BY <1>7, <1>8

\* The client process is over.
LEMMA StopInv ==
    ASSUME Inv, WrongKey \/ EndOfFile \/ ClientStops \/ Finish \/ HearAck
    PROVE  Inv' /\ NotRefusing
<1>1. /\ TypeOK /\ ClientInv /\ RegistryInv /\ (\A u \in Thread : Talking(u)) /\ "none" \notin Thread
      /\ mem \in Values /\ files \in Values /\ sk \in Nat
  BY DeviceAssumption DEF Inv, TypeOK
<1>2. /\ UNCHANGED <<sk, reg, disk, resets>>
      /\ Mine \in ConnState /\ (link # "none" => Mine = conn[link] /\ link \in Thread)
  <2>1. Over \in ConnState
    BY <1>1, OverState
  <2>. QED
    BY <1>1, <2>1 DEF WrongKey, EndOfFile, ClientStops, Finish, HearAck, server, bounds, Mine, TypeOK, Fault
<1>3. ASSUME ~HearAck PROVE Inv' /\ NotRefusing
  <2>1. PICK c : c = IF Finish THEN [Mine EXCEPT !.up = ClientTag, !.reported = ClientTag] ELSE Mine
    OBVIOUS
  <2>2. Ends(c) /\ UNCHANGED <<files, told>>
    BY <1>3, <2>1 DEF WrongKey, EndOfFile, ClientStops, Finish
  <2>3. ClientTag \in Messages
    BY <1>1, Sent DEF ClientTag
  <2>4. /\ c \in ConnState
        /\ c.at = Mine.at /\ c.by = Mine.by /\ c.req = Mine.req
        /\ c.accepted = Mine.accepted /\ c.confirmed = Mine.confirmed /\ c.refused = Mine.refused
        /\ \/ c.up = Mine.up /\ c.reported = Mine.reported
           \/ /\ pc = "payload2" /\ Mine.down.kind = "payload2"
              /\ c.up = ClientTag /\ c.reported = ClientTag
    <3>1. CASE Finish
      BY <1>2, <2>1, <2>3, <3>1 DEF ConnState, Finish, Heard
    <3>2. CASE ~Finish
      BY <1>2, <2>1, <3>2
    <3>. QED
      BY <3>1, <3>2
  <2>5. FilesGrow /\ files' \in Values
    BY <1>1, <1>2, <2>2 DEF FilesGrow
  <2>6. /\ conn' \in [Thread -> ConnState] /\ mem' \in Values /\ args' \in Args /\ link' = "none"
        /\ ClientInv' /\ (\A t \in Thread : Talking(t)') /\ RegistryInv' /\ ClaimInv' /\ PromiseInv'
        /\ NotRefusing
    <3>1. /\ c \in ConnState /\ Ends(c) /\ FilesGrow /\ files' \in Values /\ UNCHANGED <<reg, disk>>
          /\ files'.root = files.root /\ files'.pub = files.pub
          /\ link # "none" =>
               /\ c.at = conn[link].at /\ c.by = conn[link].by /\ c.req = conn[link].req
               /\ c.accepted = conn[link].accepted /\ c.confirmed = conn[link].confirmed
               /\ c.refused = conn[link].refused
               /\ \/ c.up = conn[link].up /\ c.reported = conn[link].reported
                  \/ /\ pc = "payload2" /\ conn[link].down.kind = "payload2"
                     /\ c.up = ClientTag /\ c.reported = ClientTag
      BY <1>2, <2>2, <2>4, <2>5
    <3>2. \A p \in told' : p[2] = sk => p[1] \in Promised
      BY <2>2 DEF Promised
    <3>. QED
      BY <3>1, <3>2, EndsInv DEF NotRefusing
  <2>7. ToldInv' /\ TypeOK'
    BY <1>1, <1>2, <2>2, <2>5, <2>6, ToldKeeps DEF TypeOK
  <2>. QED
    BY <2>6, <2>7 DEF Inv
\* do_setup returns Ok: by the server's answer the device is in registry.bin,
\* and the pin is stored once more.
<1>4. ASSUME HearAck PROVE Inv' /\ NotRefusing
  <2>1. /\ pc = "ack" /\ Ends(Mine) /\ link \in Thread /\ conn[link].down.kind = "ack"
        /\ files' = [files EXCEPT !.pin = sk] /\ told' = told \cup {<<files.root, sk>>}
        /\ files.root # 0 /\ files.pub = files.root /\ files.root <= resets + 1 /\ sk <= resets + 1
        /\ conn[link].by = files.root
    BY <1>1, <1>2, <1>4 DEF HearAck, Heard, Mine, ClientInv, PubLoaded, InSetup, Talking, TypeOK
  <2>2. FilesGrow /\ files' \in Values /\ files'.root = files.root /\ files'.pub = files.pub /\ files'.pin = sk
    BY <1>1, <1>2, <2>1 DEF FilesGrow, Values
  <2>3. /\ conn' \in [Thread -> ConnState] /\ mem' \in Values /\ args' \in Args /\ link' = "none"
        /\ ClientInv' /\ (\A t \in Thread : Talking(t)') /\ RegistryInv' /\ ClaimInv' /\ PromiseInv'
        /\ NotRefusing
    <3>1. files.root \in Promised
      BY <2>1 DEF Promised, Saved
    <3>2. \A p \in told' : p[2] = sk => p[1] \in Promised
      BY <2>1, <3>1 DEF Promised
    <3>. QED
      BY <1>2, <2>1, <2>2, <3>2, EndsInv DEF NotRefusing
  <2>4. ToldInv'
    <3>. SUFFICES ASSUME NEW p \in told \cup {<<files.root, sk>>}
                  PROVE  /\ p[2] <= resets + 1
                         /\ p[2] = sk /\ p[1] = files'.root => files'.pub = files'.root /\ files'.pin = sk
      BY <1>2, <2>1 DEF ToldInv
    <3>1. CASE p \in told
      BY <1>2, <2>1, <2>2, <3>1 DEF Inv, ToldInv
    <3>2. CASE p = <<files.root, sk>>
      BY <1>2, <2>1, <2>2, <3>2
    <3>. QED
      BY <3>1, <3>2
  <2>5. TypeOK'
    BY <1>1, <1>2, <2>1, <2>2, <2>3 DEF TypeOK, Values
  <2>. QED
    BY <2>3, <2>4, <2>5 DEF Inv
<1>. QED
  BY <1>3, <1>4
-----------------------------------------------------------------------------
\* A server thread has read what there was and goes on with c, or leaves.
LEMMA BecomesInv ==
    ASSUME Inv, NEW t \in Thread, NEW c \in ConnState, Becomes(t, c),
           UNCHANGED <<client, sk, told, resets>>,
           RegistryInv', reg' \subseteq Stored, disk' \subseteq Stored, Ids(disk) \subseteq Ids(disk)',
           \A r \in reg' \cup disk' : r \in reg \cup disk \/ <<r.id, r.cred>> \in Claims,
           c.open = conn[t].open, c.by = conn[t].by, c.reported = conn[t].reported,
           c.down.kind # "none" /\ c.open => c.down.key = sk,
           c.req.kind \in {"none", "setup"},
           c.at # "gone" /\ HasCred(c.req) => Claim(c.req) \in Claims,
           c.at \in {"challenged", "enrolled"} =>
              c.req.kind = "setup" /\ c.by # 0 /\ c.req.from.root = c.by /\ c.req.from.pub = c.by /\ c.req.from.cred # 0,
           Saved(c) =>
              \/ c.by \in Promised
              \/ /\ Used(c.by) /\ c.by \in Ids(disk)'
                 /\ \A r \in reg' \cup disk' : r.id = c.by => <<r.id, r.cred>> \in Claims,
           c.confirmed => Done(c),
           Done(c) => c.accepted = conn[t].accepted,
           c.down.kind = "payload2" /\ c.open => pc = "payload2" /\ Verified(c.accepted, mem, args),
           (c.down.kind = "payload2" /\ c.open) \/ Done(c) => c.at \in {"confirm", "gone"}
    PROVE  /\ Inv' /\ conn'[t].refused = c.refused
           /\ \A u \in Thread \ {t} : conn'[u].refused => conn[u].refused
<1>1. /\ TypeOK /\ ClientInv /\ (\A u \in Thread : Talking(u)) /\ mem \in Values /\ files \in Values
  BY DEF Inv, TypeOK
<1>2. UNCHANGED <<files, pc, args, mem, link, sk, told, resets>>
  BY DEF client
<1>3. PICK d : d = [c EXCEPT !.up = Nothing, !.down = IF c.open THEN c.down ELSE NoReply]
  OBVIOUS
<1>4. conn' = Put(t, d)
  BY <1>3 DEF Becomes, ConnState
<1>5. /\ d \in ConnState /\ d.up.kind = "none" /\ d.down = (IF c.open THEN c.down ELSE NoReply)
      /\ d.at = c.at /\ d.req = c.req /\ d.open = c.open /\ d.by = c.by /\ d.reported = c.reported
      /\ d.accepted = c.accepted
      /\ d.confirmed = c.confirmed /\ d.refused = c.refused
      /\ NoReply.kind = "none"
  <2>1. /\ Nothing \in Messages /\ Nothing.kind = "none" /\ NoReply \in Replies /\ NoReply.kind = "none"
    BY <1>1, OverState
  <2>. QED
    BY <1>3, <2>1 DEF ConnState
<1>6. conn'[t] = d
  BY <1>1, <1>4, <1>5, PutState
<1>7. Talking(t)'
  <2>1. Talking(t)
    BY <1>1
  <2>2. /\ d.open => link = t
        /\ link = t => d.open /\ d.by = files.root
    BY <1>5, <2>1 DEF Talking
  <2>3. /\ d.down.kind # "none" => d.open /\ d.down.key = sk
        /\ d.down.kind = "payload2" => pc = "payload2" /\ Verified(d.accepted, mem, args)
        /\ d.down.kind = "payload2" \/ Done(d) => d.at \in {"confirm", "gone"}
        /\ Done(d) => Verified(d.accepted, d.reported.from, d.reported.args)
        /\ d.confirmed => Done(d)
    BY <1>5, <2>1 DEF Talking, Done
  <2>. QED
    BY <1>2, <1>5, <1>6, <2>2, <2>3 DEF Talking, Done, Verified
<1>8. FilesGrow /\ files' \in Values
  BY <1>1, <1>2 DEF FilesGrow
<1>9. /\ \A m \in {d.up, d.req} : d.at # "gone" /\ HasCred(m) => Claim(m) \in Claims
      /\ Saved(d) => Saved(c)
      /\ \A p \in told' : p[2] = sk => p[1] \in Promised
  BY <1>2, <1>5 DEF HasCred, Saved, Promised
<1>10. /\ conn' \in [Thread -> ConnState] /\ (\A u \in Thread : Talking(u)') /\ ClaimInv' /\ PromiseInv'
       /\ \A u \in Thread \ {t} : conn'[u].refused => conn[u].refused
  BY <1>2, <1>4, <1>5, <1>7, <1>8, <1>9, Speaks
<1>11. ClientInv'
  BY <1>1, <1>2 DEF ClientInv, PubLoaded, CredLoaded, Begun, FilesAgree
<1>12. ToldInv'
  BY <1>2, <1>8, ToldKeeps
<1>13. TypeOK'
  BY <1>1, <1>2, <1>10 DEF TypeOK
<1>. QED
  BY <1>5, <1>6, <1>10, <1>11, <1>12, <1>13 DEF Inv

\* A server thread that leaves.
LEMMA GoneState ==
    ASSUME TypeOK, NEW c \in ConnState
    PROVE  /\ Gone(c) \in ConnState /\ Gone(c).at = "gone" /\ Gone(c).req = Nothing
           /\ Gone(c).req.kind = "none"
           /\ Gone(c).up = c.up /\ Gone(c).down = c.down /\ Gone(c).open = c.open /\ Gone(c).by = c.by
           /\ Gone(c).reported = c.reported /\ Gone(c).accepted = c.accepted /\ Gone(c).confirmed = c.confirmed
           /\ Gone(c).refused = c.refused
<1>1. Nothing \in Messages /\ Nothing.kind = "none"
  BY OverState DEF TypeOK
<1>. QED
  BY <1>1 DEF Gone, ConnState, Place

\* handle_setup has the device's proof: the record goes into the registry, and
\* into registry.bin or the device is not answered.
LEMMA EnrolInv ==
    ASSUME Inv, NEW t \in Thread, Enrol(t)
    PROVE  Inv' /\ NotRefusing
<1>1. /\ TypeOK /\ RegistryInv /\ Talking(t) /\ conn[t] \in ConnState
      /\ conn[t].at = "challenged" /\ UNCHANGED <<client, sk, told, resets>>
  BY DEF Inv, TypeOK, Enrol
<1>. DEFINE q == conn[t].req
            rec == RecordOf(q)
<1>2. /\ rec = [id |-> conn[t].by, pk |-> conn[t].by, cred |-> q.from.cred]
      /\ rec \in Stored /\ rec.id = conn[t].by /\ rec.pk = rec.id
      /\ q.kind = "setup" /\ q.from.root = conn[t].by
      /\ Claim(q) = <<rec.id, rec.cred>> /\ <<rec.id, rec.cred>> \in Claims
  <2>1. /\ q.kind = "setup" /\ q.from.root = conn[t].by /\ q.from.pub = conn[t].by /\ q.from.cred # 0
        /\ conn[t].by # 0 /\ conn[t].by \in Nat /\ q.from.cred \in Nat
    BY <1>1 DEF Talking, ConnState, Messages, Values
  <2>2. rec = [id |-> conn[t].by, pk |-> conn[t].by, cred |-> q.from.cred]
    BY <2>1 DEF RecordOf
  <2>3. rec \in Stored
    BY <2>1, <2>2 DEF Stored
  <2>4. Claim(q) \in Claims
    BY <1>1, <2>1 DEF Claims, Listening, HasCred
  <2>. QED
    BY <2>1, <2>2, <2>3, <2>4 DEF Claim
<1>3. reg' = Upsert(reg, rec)
  BY DEF Enrol
<1>. HIDE DEF rec
<1>4. /\ reg' \subseteq Stored /\ rec \in reg' /\ Ids(reg) \subseteq Ids(reg)'
      /\ \A r \in reg' : r.pk = r.id /\ (r \in reg \/ <<r.id, r.cred>> \in Claims)
      /\ \A r \in reg' : r.id = rec.id => r = rec
  <2>1. \A r \in reg' : r \in reg \/ r = rec
    BY <1>3 DEF Upsert
  <2>2. \A r \in reg' : r.id = rec.id => r = rec
    BY <1>3 DEF Upsert
  <2>3. \A r \in reg : r.id = rec.id \/ r \in reg'
    BY <1>3 DEF Upsert
  <2>4. rec \in reg'
    BY <1>3 DEF Upsert
  <2>. QED
    BY <1>1, <1>2, <2>1, <2>2, <2>3, <2>4 DEF RegistryInv, TypeOK, Ids
<1>5. CASE disk' = reg' /\ Becomes(t, [conn[t] EXCEPT !.at = "enrolled"])
  <2>1. PICK c : c = [conn[t] EXCEPT !.at = "enrolled"]
    OBVIOUS
  <2>2. /\ c \in ConnState /\ c.at = "enrolled" /\ c.up = conn[t].up /\ c.down = conn[t].down
        /\ c.req = conn[t].req /\ c.open = conn[t].open /\ c.by = conn[t].by
        /\ c.reported = conn[t].reported /\ c.accepted = conn[t].accepted /\ c.confirmed = conn[t].confirmed /\ c.refused = conn[t].refused
    BY <1>1, <2>1 DEF ConnState, Place
  <2>3. /\ Ids(disk) \subseteq Ids(disk)' /\ c.by \in Ids(disk)'
        /\ \A r \in reg' \cup disk' : r.id = c.by => <<r.id, r.cred>> \in Claims
    BY <1>1, <1>2, <1>4, <1>5, <2>2 DEF RegistryInv, Ids
  <2>4. RegistryInv'
    BY <1>4, <1>5 DEF RegistryInv, Ids
  <2>5. Claim(c.req) \in Claims /\ Used(c.by)
    <3>1. <<rec.id, rec.cred>>[1] = c.by
      BY <1>2, <2>2
    <3>. QED
      BY <1>2, <2>2, <3>1 DEF Inv, ClaimInv
  <2>6. /\ Inv' /\ conn'[t].refused = c.refused
        /\ \A u \in Thread \ {t} : conn'[u].refused => conn[u].refused
    <3>1. /\ c.down.kind # "none" /\ c.open => c.down.key = sk
          /\ c.req.kind \in {"none", "setup"}
          /\ c.req.kind = "setup" /\ c.by # 0 /\ c.req.from.root = c.by /\ c.req.from.pub = c.by
          /\ c.req.from.cred # 0
          /\ c.confirmed => Done(c)
          /\ ~(c.down.kind = "payload2" \/ Done(c))
      BY <1>1, <2>2 DEF Talking, Done
    <3>. QED
      BY <1>1, <1>4, <1>5, <2>1, <2>2, <2>3, <2>4, <2>5, <3>1, BecomesInv
  <2>. QED
    BY <2>2, <2>6 DEF NotRefusing
<1>6. CASE disk' = disk /\ Becomes(t, Gone(conn[t]))
  <2>1. PICK c : c = Gone(conn[t])
    OBVIOUS
  <2>2. /\ c \in ConnState /\ c.at = "gone" /\ c.up = conn[t].up /\ c.down = conn[t].down
        /\ c.req.kind = "none" /\ c.open = conn[t].open /\ c.by = conn[t].by
        /\ c.reported = conn[t].reported /\ c.accepted = conn[t].accepted
        /\ c.confirmed = conn[t].confirmed /\ c.refused = conn[t].refused
    BY <1>1, <2>1, GoneState
  <2>3. RegistryInv' /\ Ids(disk) \subseteq Ids(disk)'
    BY <1>1, <1>4, <1>6 DEF RegistryInv, Ids
  <2>4. Saved(c) => c.by \in Promised
    BY <2>2 DEF Saved, Promised
  <2>5. /\ Inv' /\ conn'[t].refused = c.refused
        /\ \A u \in Thread \ {t} : conn'[u].refused => conn[u].refused
    <3>1. /\ c.down.kind # "none" /\ c.open => c.down.key = sk
          /\ c.confirmed => Done(c)
          /\ c.down.kind = "payload2" => pc = "payload2" /\ Verified(c.accepted, mem, args)
          /\ disk' \subseteq Stored
      BY <1>1, <1>6, <2>2 DEF Talking, TypeOK, Done
    <3>. QED
      BY <1>1, <1>4, <1>6, <2>1, <2>2, <2>3, <2>4, <3>1, BecomesInv
  <2>. QED
    BY <2>2, <2>5 DEF NotRefusing
<1>. QED
  BY <1>5, <1>6 DEF Enrol

\* What else a server thread does leaves the registry alone.
LEMMA ServeInv ==
    ASSUME Inv, NEW t \in Thread,
           \/ ServeSetup(t) \/ SendAck(t) \/ Authenticate(t) \/ TurnAway(t) \/ Confirm(t)
           \/ ThreadSeesEnd(t) \/ ThreadStops(t)
    PROVE  /\ Inv' /\ (conn'[t].refused => conn[t].refused \/ TurnAway(t))
           /\ \A u \in Thread \ {t} : conn'[u].refused => conn[u].refused
<1>1. /\ TypeOK /\ RegistryInv /\ Talking(t) /\ conn[t] \in ConnState
      /\ UNCHANGED <<client, sk, reg, disk, told, resets>>
  BY DEF Inv, TypeOK, ServeSetup, SendAck, Authenticate, TurnAway, Confirm, ThreadSeesEnd, ThreadStops,
         server, bounds
<1>2. /\ RegistryInv' /\ reg' \subseteq Stored /\ disk' \subseteq Stored /\ Ids(disk)' = Ids(disk)
  BY <1>1 DEF RegistryInv, TypeOK, Ids
<1>. DEFINE g == Gone(conn[t])
            Goal == /\ Inv' /\ (conn'[t].refused => conn[t].refused \/ TurnAway(t))
                    /\ \A u \in Thread \ {t} : conn'[u].refused => conn[u].refused
            Fits(c) ==
               /\ c \in ConnState /\ Becomes(t, c)
               /\ c.open = conn[t].open /\ c.by = conn[t].by /\ c.reported = conn[t].reported
               /\ c.down.kind # "none" /\ c.open => c.down.key = sk
               /\ c.req.kind \in {"none", "setup"}
               /\ c.at # "gone" /\ HasCred(c.req) => Claim(c.req) \in Claims
               /\ c.at \in {"challenged", "enrolled"} =>
                     c.req.kind = "setup" /\ c.by # 0 /\ c.req.from.root = c.by
                     /\ c.req.from.pub = c.by /\ c.req.from.cred # 0
               /\ Saved(c) => c.by \in Promised
               /\ c.confirmed => Done(c)
               /\ Done(c) => c.accepted = conn[t].accepted
               /\ c.down.kind = "payload2" /\ c.open => pc = "payload2" /\ Verified(c.accepted, mem, args)
               /\ (c.down.kind = "payload2" /\ c.open) \/ Done(c) => c.at \in {"confirm", "gone"}
               /\ c.refused => conn[t].refused \/ TurnAway(t)
<1>3. ASSUME NEW c, Fits(c) PROVE Goal
  BY <1>1, <1>2, <1>3, BecomesInv
<1>. HIDE DEF Goal
<1>4. /\ g \in ConnState /\ g.at = "gone" /\ g.up = conn[t].up /\ g.down = conn[t].down
      /\ g.req.kind = "none" /\ g.open = conn[t].open /\ g.by = conn[t].by
      /\ g.reported = conn[t].reported /\ g.accepted = conn[t].accepted /\ g.confirmed = conn[t].confirmed /\ g.refused = conn[t].refused
  BY <1>1, GoneState
<1>. HIDE DEF g
<1>5. Becomes(t, g) => Fits(g)
  BY <1>1, <1>4 DEF Talking, Saved, Promised, Done
<1>6. ASSUME ServeSetup(t) PROVE Goal
  <2>1. CASE Becomes(t, g)
    BY <1>3, <1>5, <2>1
  <2>2. CASE Becomes(t, [conn[t] EXCEPT !.at = "challenged", !.req = conn[t].up, !.down = Challenge])
    <3>1. PICK c : c = [conn[t] EXCEPT !.at = "challenged", !.req = conn[t].up, !.down = Challenge]
      OBVIOUS
    <3>2. Challenge \in Replies /\ Challenge.kind = "challenge" /\ Challenge.key = sk
      BY <1>1, Sent DEF Challenge
    <3>3. /\ c \in ConnState /\ c.at = "challenged" /\ c.down = Challenge /\ c.req = conn[t].up
          /\ c.open = conn[t].open /\ c.by = conn[t].by
          /\ c.reported = conn[t].reported /\ c.accepted = conn[t].accepted
          /\ c.confirmed = conn[t].confirmed /\ c.refused = conn[t].refused
      BY <1>1, <3>1, <3>2 DEF ConnState, Place
    <3>4. /\ conn[t].up.kind = "setup" /\ conn[t].at = "start"
      BY <1>6 DEF ServeSetup, Reads
    <3>5. Claim(c.req) \in Claims
      BY <3>3, <3>4 DEF Claims, Listening, HasCred
    <3>6. Fits(c)
      BY <1>1, <2>2, <3>1, <3>2, <3>3, <3>4, <3>5 DEF Talking, Saved, Done
    <3>. QED
      BY <1>3, <3>6
  <2>. QED
    BY <1>6, <2>1, <2>2 DEF ServeSetup, g
<1>7. ASSUME SendAck(t) PROVE Goal
  <2>1. PICK c : c = [g EXCEPT !.down = EnrolAck]
    OBVIOUS
  <2>2. EnrolAck \in Replies /\ EnrolAck.kind = "ack" /\ EnrolAck.key = sk
    BY <1>1, Sent DEF EnrolAck
  <2>3. /\ c \in ConnState /\ c.at = "gone" /\ c.down = EnrolAck /\ c.req.kind = "none"
        /\ c.open = conn[t].open /\ c.by = conn[t].by /\ c.reported = conn[t].reported
        /\ c.confirmed = conn[t].confirmed /\ c.refused = conn[t].refused
    BY <1>4, <2>1, <2>2 DEF ConnState
  <2>4. Becomes(t, c) /\ conn[t].at = "enrolled"
    BY <1>7, <2>1 DEF SendAck, g
  <2>5. Fits(c)
    BY <1>1, <2>2, <2>3, <2>4 DEF Talking, Saved, Promised, Done
  <2>. QED
    BY <1>3, <2>5
<1>8. ASSUME Authenticate(t) PROVE Goal
  <2>1. PICK r \in Acceptable(conn[t].up) :
            Becomes(t, [conn[t] EXCEPT !.at = "confirm", !.accepted = With(r), !.down = ServerProof])
    BY <1>8 DEF Authenticate
  <2>2. PICK c : c = [conn[t] EXCEPT !.at = "confirm", !.accepted = With(r), !.down = ServerProof]
    OBVIOUS
  <2>3. ServerProof \in Replies /\ ServerProof.kind = "payload2" /\ ServerProof.key = sk
    BY <1>1, Sent DEF ServerProof
  <2>4. /\ r \in reg /\ r \in Stored /\ r.id = r.pk /\ sk \in Nat
        /\ conn[t].at = "start" /\ conn[t].up.kind = "auth"
    BY <1>1, <1>8, <2>1 DEF Authenticate, Reads, Acceptable, Known, RegistryInv, TypeOK
  <2>5. With(r) \in Values /\ Verified(With(r), conn[t].up.from, conn[t].up.args)
    <3>1. /\ With(r) = [root |-> r.id, pub |-> r.pk, cred |-> r.cred, pin |-> sk]
          /\ r.id \in Nat /\ r.id # 0 /\ r.pk \in Nat /\ r.cred \in Nat
      BY <2>4 DEF With, Stored
    <3>2. With(r) \in Values
      BY <2>4, <3>1 DEF Values
    <3>3. /\ r.pk = conn[t].up.from.pub /\ conn[t].up.from.pin = sk /\ conn[t].up.from.root = r.pk
          /\ IF conn[t].up.args.deviceOnly THEN AllowDeviceOnly ELSE conn[t].up.from.cred = r.cred
      BY <2>1, <2>4 DEF Acceptable, Known, Permitted, PossessionProven, RoleProven
    <3>. QED
      BY <2>4, <3>1, <3>2, <3>3 DEF Verified
  <2>6. /\ c \in ConnState /\ c.at = "confirm" /\ c.down = ServerProof /\ c.req = conn[t].req
        /\ c.accepted = With(r) /\ c.open = conn[t].open /\ c.by = conn[t].by
        /\ c.reported = conn[t].reported /\ c.confirmed = conn[t].confirmed /\ c.refused = conn[t].refused
    BY <1>1, <2>2, <2>3, <2>5 DEF ConnState, Place
  <2>7. /\ HasCred(c.req) => Claim(c.req) \in Claims
        /\ c.open => pc = "payload2" /\ Verified(c.accepted, mem, args)
        /\ ~Done(c) /\ ~Saved(c)
    BY <1>1, <2>3, <2>4, <2>5, <2>6 DEF Claims, Listening, Talking, Done, Saved
  <2>8. Fits(c)
    BY <1>1, <2>1, <2>2, <2>3, <2>6, <2>7 DEF Talking, Done
  <2>. QED
    BY <1>3, <2>8
<1>9. ASSUME TurnAway(t) PROVE Goal
  <2>1. PICK c : c = [g EXCEPT !.refused = TRUE]
    OBVIOUS
  <2>2. /\ c \in ConnState /\ c.at = "gone" /\ c.down = conn[t].down /\ c.req.kind = "none"
        /\ c.open = conn[t].open /\ c.by = conn[t].by
        /\ c.reported = conn[t].reported /\ c.accepted = conn[t].accepted
        /\ c.confirmed = conn[t].confirmed
    BY <1>4, <2>1 DEF ConnState
  <2>3. Becomes(t, c)
    BY <1>9, <2>1 DEF TurnAway, g
  <2>4. Fits(c)
    BY <1>1, <1>9, <2>2, <2>3 DEF Talking, Saved, Promised, Done
  <2>. QED
    BY <1>3, <2>4
<1>10. ASSUME Confirm(t) PROVE Goal
  <2>1. PICK c : c = [g EXCEPT !.confirmed = TRUE]
    OBVIOUS
  <2>2. /\ c \in ConnState /\ c.at = "gone" /\ c.down = conn[t].down /\ c.req.kind = "none"
        /\ c.open = conn[t].open /\ c.by = conn[t].by
        /\ c.reported = conn[t].reported /\ c.accepted = conn[t].accepted
        /\ c.confirmed /\ c.refused = conn[t].refused
    BY <1>4, <2>1 DEF ConnState
  <2>3. Becomes(t, c) /\ conn[t].up.kind = "tag"
    BY <1>10, <2>1 DEF Confirm, Reads, g
  <2>4. Fits(c)
    BY <1>1, <2>2, <2>3 DEF Talking, Saved, Promised, Done
  <2>. QED
    BY <1>3, <2>4
<1>11. ASSUME ThreadSeesEnd(t) \/ ThreadStops(t) PROVE Goal
  BY <1>3, <1>5, <1>11 DEF ThreadSeesEnd, ThreadStops, g
<1>12. Goal
  BY <1>6, <1>7, <1>8, <1>9, <1>10, <1>11
<1>. QED
  BY <1>12 DEF Goal

\* The server is started again: with its registry, or with nothing and a new
\* key while no client process runs.
LEMMA AllGoneState ==
    ASSUME TypeOK, NEW t \in Thread
    PROVE  LET g == AllGone[t] IN
           /\ g \in ConnState /\ g.at = "gone" /\ g.up.kind = "none" /\ g.down = conn[t].down
           /\ g.req.kind = "none" /\ g.open = conn[t].open /\ g.by = conn[t].by
           /\ g.reported = conn[t].reported /\ g.accepted = conn[t].accepted /\ g.confirmed = conn[t].confirmed /\ g.refused = conn[t].refused
<1>1. Nothing \in Messages /\ Nothing.kind = "none" /\ conn[t] \in ConnState
  BY OverState DEF TypeOK
<1>2. PICK c : c = [conn[t] EXCEPT !.up = Nothing]
  OBVIOUS
<1>3. /\ c \in ConnState /\ c.up = Nothing /\ c.down = conn[t].down
      /\ c.open = conn[t].open /\ c.by = conn[t].by
      /\ c.reported = conn[t].reported /\ c.accepted = conn[t].accepted /\ c.confirmed = conn[t].confirmed /\ c.refused = conn[t].refused
  BY <1>1, <1>2 DEF ConnState
<1>4. AllGone[t] = Gone(c)
  BY <1>2 DEF AllGone
<1>. QED
  BY <1>1, <1>3, <1>4, GoneState

\* The server restarts, from its files or with a new key and none.
LEMMA RestartInv ==
    ASSUME Inv, ServerRestarts \/ ResetServer
    PROVE  Inv' /\ NotRefusing
<1>1. /\ TypeOK /\ ClientInv /\ RegistryInv /\ (\A t \in Thread : Talking(t)) /\ "none" \notin Thread
      /\ conn' = AllGone /\ UNCHANGED <<client, told>> /\ files \in Values /\ resets \in Nat
  BY DeviceAssumption DEF Inv, TypeOK, ServerRestarts, ResetServer
<1>2. UNCHANGED <<files, pc, args, mem, link, told>>
  BY <1>1 DEF client
<1>3. conn' \in [Thread -> ConnState]
  <2>1. \A t \in Thread : AllGone[t] \in ConnState
    BY <1>1, AllGoneState
  <2>. QED
    BY <1>1, <2>1 DEF AllGone
<1>4. ASSUME NEW t \in Thread
      PROVE  /\ conn'[t].at = "gone" /\ conn'[t].up.kind = "none" /\ conn'[t].down = conn[t].down
             /\ conn'[t].req.kind = "none" /\ conn'[t].open = conn[t].open
             /\ conn'[t].by = conn[t].by /\ conn'[t].reported = conn[t].reported
             /\ conn'[t].accepted = conn[t].accepted /\ conn'[t].confirmed = conn[t].confirmed
             /\ conn'[t].refused = conn[t].refused
  BY <1>1, AllGoneState
<1>5. NotRefusing /\ Claims' = {}
  BY <1>4 DEF NotRefusing, Claims, Listening
<1>6. CASE ServerRestarts
  <2>1. reg' = disk /\ UNCHANGED <<sk, disk, resets>>
    BY <1>6 DEF ServerRestarts
  <2>2. ASSUME NEW t \in Thread PROVE Talking(t)'
    BY <1>1, <1>2, <1>4, <2>1 DEF Talking, Done, Verified
  <2>3. FilesGrow
    BY <1>2, <2>1 DEF FilesGrow
  <2>4. /\ Ids(disk)' = Ids(disk)
        /\ \A n \in Promised' : n \in Promised /\ n \in Ids(disk)'
    <3>1. Ids(disk)' = Ids(disk)
      BY <2>1 DEF Ids
    <3>2. \A n \in Promised' : n \in Promised
      BY <1>2, <1>4, <2>1 DEF Promised, Saved
    <3>. QED
      BY <3>1, <3>2 DEF Inv, PromiseInv
  <2>5. ClaimInv' /\ PromiseInv' /\ ToldInv'
    BY <1>1, <1>2, <1>5, <2>1, <2>3, <2>4, ClaimsKeep, PromisesKeep, ToldKeeps
  <2>6. ClientInv' /\ RegistryInv' /\ TypeOK'
    BY <1>1, <1>2, <1>3, <2>1
    DEF ClientInv, PubLoaded, CredLoaded, Begun, FilesAgree, RegistryInv, TypeOK, Ids
  <2>. QED
    BY <1>5, <2>2, <2>5, <2>6 DEF Inv
<1>7. CASE ResetServer
  <2>1. /\ pc = "idle" /\ sk' = resets + 2 /\ reg' = {} /\ disk' = {} /\ resets' = resets + 1
    BY <1>1, <1>7 DEF ResetServer, Reset, Fresh
  <2>2. link = "none" /\ sk \in Nat /\ sk <= resets + 1
    BY <1>1, <2>1 DEF ClientInv, TypeOK
  <2>3. ASSUME NEW t \in Thread PROVE Talking(t)'
    BY <1>1, <1>2, <1>4, <2>1, <2>2 DEF Talking, Done, Verified
  <2>4. \A p \in told : p[2] <= resets + 1 /\ p[2] \in Nat
    BY <1>1 DEF Inv, ToldInv, TypeOK
  <2>5. ToldInv'
    BY <1>1, <1>2, <2>1, <2>4 DEF ToldInv
  <2>9. Promised' = {}
    <3>1. \A p \in told' : p[2] # sk'
      BY <1>1, <1>2, <2>1, <2>4
    <3>2. \A t \in Thread : ~Saved(conn'[t])
      BY <1>1, <1>4, <2>2 DEF Saved, Talking
    <3>. QED
      BY <3>1, <3>2 DEF Promised
  <2>6. ClientInv'
    BY <1>1, <1>2, <2>1, <2>2
    DEF ClientInv, PubLoaded, CredLoaded, Begun, InSetup, InSession, FilesAgree, Values
  <2>7. RegistryInv' /\ TypeOK' /\ ClaimInv' /\ PromiseInv'
    BY <1>1, <1>2, <1>3, <1>5, <2>1, <2>9 DEF RegistryInv, Ids, TypeOK, ClaimInv, PromiseInv
  <2>. QED
    BY <1>5, <2>3, <2>5, <2>6, <2>7 DEF Inv
<1>. QED
  BY <1>6, <1>7

\* The device's state directory is removed.  Its next secret is a new one.
LEMMA ResetClientInv ==
    ASSUME Inv, ResetClient
    PROVE  Inv' /\ NotRefusing
<1>1. /\ TypeOK /\ ClientInv /\ RegistryInv /\ (\A t \in Thread : Talking(t)) /\ "none" \notin Thread
      /\ pc = "idle" /\ files' = NoFiles /\ resets' = resets + 1 /\ resets \in Nat /\ sk \in Nat
      /\ UNCHANGED <<pc, args, mem, link, sk, reg, disk, conn, told>>
      /\ NoFiles \in Values /\ NoFiles.root = 0 /\ NoFiles.pub = 0
  BY DeviceAssumption DEF Inv, TypeOK, ResetClient, Reset, server, NoFiles, Values
<1>2. ASSUME NEW t \in Thread PROVE Talking(t)'
  BY <1>1 DEF Talking, ClientInv, Done, Verified
<1>3. Claims' = Claims /\ Promised' = Promised /\ Ids(disk)' = Ids(disk)
  BY <1>1 DEF Claims, Listening, Promised, Ids
<1>4. \A a \in Claims : Used(a[1])' /\ a[1] # 0
  <2>1. \A a \in Claims : Used(a[1]) /\ a[1] # 0
    BY DEF Inv, ClaimInv
  <2>2. \A a \in Claims : a[1] \in Nat
    BY <1>1 DEF Claims, Claim, Listening, TypeOK, ConnState, Messages, Values
  <2>. QED
    BY <1>1, <2>1, <2>2 DEF Used
<1>5. ClaimInv'
  BY <1>1, <1>3, <1>4 DEF Inv, ClaimInv
<1>6. ToldInv' /\ PromiseInv'
  <2>1. ASSUME NEW p \in told PROVE p[1] # 0 /\ p[2] <= resets + 1 /\ p[2] \in Nat
    BY <1>1 DEF Inv, ToldInv, TypeOK
  <2>2. ToldInv'
    BY <1>1, <2>1 DEF ToldInv
  <2>3. ASSUME NEW n \in Promised PROVE Used(n)' /\ n \in Ids(disk) /\ Settled(n)'
    <3>1. Used(n) /\ n \in Ids(disk) /\ Settled(n)
      BY DEF Inv, PromiseInv
    <3>2. n \in Nat /\ n # 0
      BY <1>1, <3>1 DEF Ids, TypeOK, Stored
    <3>3. Used(n)'
      BY <1>1, <3>1, <3>2 DEF Used
    <3>4. Settled(n)'
      BY <1>1, <1>3, <3>1, <3>2 DEF Settled
    <3>. QED
      BY <3>1, <3>3, <3>4
  <2>. QED
    BY <1>3, <2>2, <2>3 DEF PromiseInv
<1>7. ClientInv'
  BY <1>1 DEF ClientInv, PubLoaded, CredLoaded, Begun, InSetup, InSession, FilesAgree
<1>8. RegistryInv' /\ TypeOK'
  BY <1>1 DEF RegistryInv, Ids, TypeOK
<1>. QED
  BY <1>1, <1>2, <1>5, <1>6, <1>7, <1>8 DEF Inv, NotRefusing

\* The device's credential is removed, when no thread works on a request with
\* it.  What it was told with that credential is not held against the server.
LEMMA ResetCredentialInv ==
    ASSUME Inv, ResetCredential
    PROVE  Inv' /\ NotRefusing
<1>1. /\ TypeOK /\ ClientInv /\ RegistryInv /\ (\A t \in Thread : Talking(t)) /\ "none" \notin Thread
      /\ pc = "idle" /\ link = "none" /\ \A t \in Thread : conn[t].at = "gone"
      /\ files' = [files EXCEPT !.cred = 0] /\ files \in Values
      /\ told' = {p \in told : p[1] # files.root}
      /\ resets' = resets + 1 /\ resets \in Nat /\ sk \in Nat
      /\ UNCHANGED <<pc, args, mem, link, sk, reg, disk, conn>>
  <2>1. /\ TypeOK /\ ClientInv /\ RegistryInv /\ (\A t \in Thread : Talking(t)) /\ "none" \notin Thread
        /\ pc = "idle" /\ \A t \in Thread : conn[t].at = "gone"
        /\ files' = [files EXCEPT !.cred = 0] /\ files \in Values
        /\ told' = {p \in told : p[1] # files.root}
        /\ resets' = resets + 1 /\ resets \in Nat /\ sk \in Nat
        /\ UNCHANGED <<pc, args, mem, link, sk, reg, disk, conn>>
    BY DeviceAssumption DEF Inv, TypeOK, ResetCredential, Reset, server
  <2>. QED
    BY <2>1 DEF ClientInv
<1>2. /\ files' \in Values /\ files'.root = files.root /\ files'.pub = files.pub /\ files'.pin = files.pin
      /\ files.root \in Nat
  BY <1>1 DEF Values
<1>3. ASSUME NEW t \in Thread PROVE Talking(t)'
  BY <1>1, <1>2 DEF Talking, Done, Verified
<1>4. Claims' = {} /\ ClaimInv'
  <2>1. Claims' = {}
    BY <1>1 DEF Claims, Listening
  <2>. QED
    BY <2>1 DEF ClaimInv
<1>5. \A p \in told' : p \in told /\ p[1] # files.root
  BY <1>1
<1>6. ToldInv'
  BY <1>1, <1>2, <1>5 DEF Inv, TypeOK, ToldInv
<1>7. PromiseInv'
  <2>. SUFFICES ASSUME NEW n \in Promised' PROVE Used(n)' /\ n \in Ids(disk)' /\ Settled(n)'
    BY DEF PromiseInv
  <2>1. \A t \in Thread : ~Saved(conn'[t])
    BY <1>1 DEF Saved, Talking
  <2>2. n \in Promised /\ n # files.root
    BY <1>1, <1>5, <2>1 DEF Promised
  <2>3. Used(n) /\ n \in Ids(disk) /\ n \in Nat
    BY <1>1, <2>2 DEF Inv, PromiseInv, Ids, TypeOK, Stored
  <2>4. Used(n)'
    BY <1>1, <1>2, <2>3 DEF Used
  <2>. QED
    BY <1>1, <1>2, <1>4, <2>2, <2>3, <2>4 DEF Settled, Ids
<1>8. ClientInv'
  BY <1>1, <1>2 DEF ClientInv, PubLoaded, CredLoaded, Begun, InSetup, InSession, FilesAgree, TypeOK
<1>9. RegistryInv' /\ TypeOK'
  BY <1>1, <1>2, <1>5 DEF RegistryInv, Ids, TypeOK
<1>. QED
  BY <1>1, <1>3, <1>4, <1>6, <1>7, <1>8, <1>9 DEF Inv, NotRefusing

\* A device that was told that it is enrolled by this server is in the registry
\* that the server has in memory, with the key and the credential of all its
\* requests, so its proofs verify.
LEMMA EntitledServed ==
    ASSUME Inv, NEW t \in Thread, TurnAway(t)
    PROVE  ~(Entitled(conn[t].up) /\ Permitted(conn[t].up))
<1>. DEFINE m == conn[t].up
<1>1. /\ RegistryInv /\ Talking(t) /\ m.kind = "auth" /\ Acceptable(m) = {}
  BY DEF Inv, TurnAway, Reads
<1>. SUFFICES ASSUME Entitled(m), Permitted(m) PROVE FALSE
  OBVIOUS
<1>2. m.from.pub = m.from.root /\ m.from.pin = sk
  BY <1>1 DEF Talking, Entitled
<1>3. m.from.root \in Ids(disk) /\ Settled(m.from.root)
  <2>1. m.from.root \in Promised
    <3>. DEFINE p == <<m.from.root, m.from.pin>>
    <3>1. p \in told /\ p[2] = sk /\ p[1] = m.from.root
      BY DEF Entitled
    <3>. HIDE DEF p
    <3>. QED
      BY <3>1 DEF Promised
  <2>. QED
    BY <2>1 DEF Inv, PromiseInv
<1>4. PICK r \in reg : r.id = m.from.root
  BY <1>1, <1>3 DEF RegistryInv, Ids
<1>5. r.pk = r.id
  BY <1>1 DEF RegistryInv
<1>6. RoleProven(m, r)
  <2>1. CASE m.args.deviceOnly
    BY <2>1 DEF RoleProven
  <2>2. CASE ~m.args.deviceOnly
    <3>1. t \in Listening
      BY DEF TurnAway, Listening
    <3>2. Claim(m) \in Claims /\ Claim(m)[1] = m.from.root /\ Claim(m)[2] = m.from.cred
      BY <1>1, <2>2, <3>1 DEF Claims, HasCred, Claim
    <3>4. m.from.cred = r.cred
      BY <1>3, <1>4, <3>2 DEF Settled
    <3>. QED
      BY <3>4 DEF RoleProven
  <2>. QED
    BY <2>1, <2>2
<1>7. r \in Acceptable(m)
  BY <1>2, <1>4, <1>5, <1>6 DEF Acceptable, Known, PossessionProven
<1>. QED
  BY <1>1, <1>7

\* Every step of the client and of the server keeps the invariant.
LEMMA StepInv == Inv /\ [Next]_vars => Inv' /\ NoneWronged
<1>. SUFFICES ASSUME Inv, [Next]_vars PROVE Inv' /\ NoneWronged
  OBVIOUS
<1>0. NotRefusing => NoneWronged
  BY DEF NotRefusing, NoneWronged
<1>1. CASE \/ \E a \in Setup : RunSetup(a)
           \/ \E a \in Session : RunSession(a)
           \/ PrintIdentity \/ PinServer
           \/ LoadRoot \/ LoadPub \/ LoadCred \/ LoadPin \/ StopWithoutPin
  <2>1. UNCHANGED <<server, conn, told, resets>>
    BY <1>1
    DEF RunSetup, RunSession, PrintIdentity, PinServer, LoadRoot, LoadPub, LoadCred, LoadPin,
        StopWithoutPin, bounds
  <2>2. Inv'
    BY <1>1, <2>1, SilentStep
  <2>. QED
    BY <2>1, <2>2 DEF NoneWronged
<1>2. CASE \/ \E t \in Thread : Connect(t)
           \/ Send \/ AcceptChallenge \/ Prove
           \/ WrongKey \/ EndOfFile \/ ClientStops \/ Finish \/ HearAck
  BY <1>0, <1>2, ConnectInv, GoesOn, StopInv
<1>3. ASSUME NEW t \in Thread, Enrol(t) PROVE Inv' /\ NoneWronged
  BY <1>0, <1>3, EnrolInv
<1>4. ASSUME NEW t \in Thread,
             \/ ServeSetup(t) \/ SendAck(t) \/ Authenticate(t) \/ TurnAway(t) \/ Confirm(t)
             \/ ThreadSeesEnd(t) \/ ThreadStops(t)
      PROVE  Inv' /\ NoneWronged
  <2>1. /\ Inv' /\ (conn'[t].refused => conn[t].refused \/ TurnAway(t))
        /\ \A u \in Thread \ {t} : conn'[u].refused => conn[u].refused
    BY <1>4, ServeInv
  <2>2. TurnAway(t) => ~(Entitled(conn[t].up) /\ Permitted(conn[t].up))
    BY EntitledServed
  <2>. QED
    BY <2>1, <2>2 DEF NoneWronged
<1>5. CASE ServerRestarts \/ ResetServer \/ ResetClient \/ ResetCredential
  BY <1>0, <1>5, RestartInv, ResetClientInv, ResetCredentialInv
<1>6. CASE UNCHANGED vars
  <2>1. UNCHANGED <<files, pc, args, mem, link, sk, reg, disk, conn, told, faults, resets>>
    BY <1>6 DEF vars, client, server, bounds
  <2>2. TypeOK' /\ ClientInv' /\ RegistryInv' /\ ToldInv'
    BY <2>1
    DEF Inv, TypeOK, ClientInv, PubLoaded, CredLoaded, Begun, FilesAgree, RegistryInv, Ids, ToldInv
  <2>3. \A t \in Thread : Talking(t)'
    BY <2>1 DEF Inv, Talking, Done, Verified
  <2>4. Claims' = Claims /\ Promised' = Promised /\ Ids(disk)' = Ids(disk)
    BY <2>1 DEF Claims, Listening, Promised, Ids
  <2>5. ClaimInv' /\ PromiseInv'
    BY <2>1, <2>4 DEF Inv, ClaimInv, PromiseInv, Used, Settled
  <2>6. Inv'
    BY <2>2, <2>3, <2>5 DEF Inv
  <2>. QED
    BY <1>6, <2>6 DEF vars, NoneWronged
<1>. QED
  BY <1>1, <1>2, <1>3, <1>4, <1>5, <1>6 DEF Next, ClientStep, ServerStep

\* What client, connections, registry and history of one device have to do with
\* each other, in every reachable state, through any number of resets.
THEOREM DeviceInvariant == Spec => []Inv
BY InitInv, StepInv, PTL DEF Spec

\* load_or_compute_device_pub takes a cached public key without a look at the
\* root secret beside it: the two always belong together.
THEOREM KeysBelongTogether == Spec => []FilesAgree
<1>1. Inv => FilesAgree
  BY DEF Inv, ClientInv
<1>. QED
  BY <1>1, DeviceInvariant, PTL

\* What do_setup tells a device that returns from it is so, on disk, for as
\* long as the server keeps its key.
THEOREM ToldIsEnrolled == Spec => []ToldMeansEnrolled
<1>1. Inv => ToldMeansEnrolled
  <2>. SUFFICES ASSUME Inv, NEW root \in Number \ {0}, <<root, sk>> \in told
                PROVE  \E r \in disk :
                          /\ r.id = root /\ r.pk = root
                          /\ files.root = root =>
                               files = [root |-> root, pub |-> r.pk, cred |-> r.cred, pin |-> sk]
    BY DEF ToldMeansEnrolled
  <2>. DEFINE p == <<root, sk>>
  <2>0. p \in told /\ p[1] = root /\ p[2] = sk
    OBVIOUS
  <2>. HIDE DEF p
  <2>1. /\ root \in Ids(disk) /\ Settled(root)
        /\ root = files.root => files.pub = files.root /\ files.pin = sk
    <3>1. root \in Promised
      BY <2>0 DEF Promised
    <3>. QED
      BY <2>0, <3>1 DEF Inv, PromiseInv, ToldInv
  <2>2. PICK r \in disk : r.id = root
    BY <2>1 DEF Ids
  <2>3. r.pk = root
    BY <2>2 DEF Inv, RegistryInv
  <2>4. ASSUME files.root = root
        PROVE  files = [root |-> root, pub |-> r.pk, cred |-> r.cred, pin |-> sk]
    <3>2. r.cred = files.cred
      BY <2>1, <2>2, <2>4 DEF Settled
    <3>3. files \in Values
      BY DEF Inv, TypeOK
    <3>4. files = [root |-> files.root, pub |-> files.pub, cred |-> files.cred, pin |-> files.pin]
      BY <3>3 DEF Values
    <3>5. files.pub = r.pk /\ files.pin = sk
      BY <2>1, <2>3, <2>4
    <3>. QED
      BY <2>4, <3>2, <3>4, <3>5
  <2>. QED
    BY <2>2, <2>3, <2>4
<1>. QED
  BY <1>1, DeviceInvariant, PTL

\* What the two sides report of a session is the same session: a server that
\* saw the tag faces a client that reported success, and a client that reported
\* success was accepted under its own id, public key and credential by a server
\* with the key it has pinned.
THEOREM ReportsAgree == Spec => []SessionsAgree
<1>1. Inv => SessionsAgree
  BY DEF Inv, Talking, SessionsAgree, Verified
<1>. QED
  BY <1>1, DeviceInvariant, PTL

\* handle_auth_common turns away no session of a device that was told that it
\* is enrolled.
THEOREM EnrolledAreServed == Spec => NeverTurnedAway
<1>1. Inv /\ [Next]_vars => NoneWronged
  BY StepInv
<1>2. NoneWronged
        => [\A t \in Thread :
              conn'[t].refused /\ ~conn[t].refused
                  => ~(Entitled(conn[t].up) /\ Permitted(conn[t].up))]_vars
  BY DEF NoneWronged
<1>. QED
  BY <1>1, <1>2, DeviceInvariant, PTL DEF Spec, NeverTurnedAway
=============================================================================
