------------------------------- MODULE Device -------------------------------
(***************************************************************************)
(* One device: the four files that zkarche_client keeps in its state       *)
(* directory, the client process that is run over them again and again,    *)
(* and the server at the other end of its connections.                     *)
(*                                                                         *)
(* A secret, a commitment and a server key are numbers, 0 for a missing    *)
(* file; a number is used for one value only.  Public key and device id    *)
(* are derived from the root secret and stand under its number.  A proof   *)
(* made with a secret is modelled by that secret.  What threads of the     *)
(* server do to each other is in Enrollment and ReplayServer: here a setup *)
(* enters the registry in one step, and a nonce is fresh, so never refused *)
(* as a replay.                                                            *)
(***************************************************************************)
EXTENDS Naturals

CONSTANTS
    Thread,                     \* connections, each with its server thread
    AllowDeviceOnly,            \* ZKARCHE_ALLOW_DEVICE_ONLY on the server
    MaxFaults, MaxResets        \* bounds of the model

ASSUME DeviceAssumption ==
    /\ AllowDeviceOnly \in BOOLEAN
    /\ MaxFaults \in Nat /\ MaxResets \in Nat
    /\ "none" \notin Thread

VARIABLES
    files,          \* device_root.bin, device_pub.bin, role_cred.bin, server_pub.bin
    pc, args, mem,  \* the client process, its command line, what it has loaded
    link,           \* the connection it has open, or "none"
    sk,             \* the server's static key
    reg, disk,      \* the registry, in memory and in registry.bin
    conn,           \* connections
    told,           \* history: <<root, sk>> of setups that ended well, with
                    \* the credential that the device still has
    faults, resets

client == <<files, pc, args, mem, link>>
server == <<sk, reg, disk>>
bounds == <<faults, resets>>
vars == <<client, server, conn, told, bounds>>

NoFiles == [root |-> 0, pub |-> 0, cred |-> 0, pin |-> 0]
Setup == [mode : {"setup"}, tofu : BOOLEAN]
Session == [mode : {"session"}, deviceOnly : BOOLEAN]
NoArgs == [mode |-> "none"]

\* A message: its kind, the sender's values, and what it asks for.
Message(kind) == [kind |-> kind, from |-> mem, args |-> args]
SetupRequest == Message("setup")
SetupProof == Message("proof")
AuthPayload == Message("auth")      \* with the role proofs, unless device-only
ClientTag == Message("tag")
Nothing == [kind |-> "none", from |-> NoFiles, args |-> NoArgs]
Reply(kind) == [kind |-> kind, key |-> sk]
Challenge == Reply("challenge")
EnrolAck == Reply("ack")
ServerProof == Reply("payload2")
NoReply == [kind |-> "none", key |-> 0]

\* up and down are what is under way to and from the server, req what the
\* server thread works on.  Of how it ended: by is the secret the client has,
\* accepted the record and the own key that the server verified it with,
\* reported the message with which the client reported success, if it did,
\* confirmed whether the server saw the final tag.
NewConn == [at |-> "start", up |-> Nothing, down |-> NoReply, req |-> Nothing, open |-> TRUE,
            by |-> mem.root, accepted |-> NoFiles, reported |-> Nothing,
            confirmed |-> FALSE, refused |-> FALSE]
Over == [NewConn EXCEPT !.at = "gone", !.open = FALSE, !.by = 0]
Done(c) == c.reported.kind = "tag"
Free(c) == c.at = "gone" /\ ~c.open

\* t's connection becomes c; connections that both ends left are forgotten.
Put(t, c) == [u \in Thread |-> IF u = t THEN c ELSE IF Free(conn[u]) THEN Over ELSE conn[u]]

Fresh == resets + 1             \* a number not used before
Fault == faults < MaxFaults /\ faults' = faults + 1
-----------------------------------------------------------------------------
Init ==
    /\ files = NoFiles /\ mem = NoFiles
    /\ pc = "idle" /\ args = NoArgs /\ link = "none"
    /\ sk = 1
    /\ reg = {} /\ disk = {}
    /\ conn = [t \in Thread |-> Over]
    /\ told = {}
    /\ faults = 0 /\ resets = 0

\* The process ends; the kernel closes its connection.
Exit ==
    /\ pc' = "idle" /\ args' = NoArgs /\ mem' = NoFiles /\ link' = "none"

\* main with --setup, and without; a session without a root secret ends at once.
RunSetup(a) ==
    /\ pc = "idle"
    /\ args' = a /\ pc' = "root"
    /\ UNCHANGED <<files, mem, link, server, conn, told, bounds>>

RunSession(a) ==
    /\ pc = "idle" /\ files.root # 0
    /\ args' = a /\ pc' = "root"
    /\ UNCHANGED <<files, mem, link, server, conn, told, bounds>>

\* Faulty variant: a new secret although there is one.
NewRoot(f) == Fresh

RootOf(f) == IF f.root = 0 THEN Fresh ELSE f.root

\* --print-device-identity
PrintIdentity ==
    /\ pc = "idle"
    /\ files' = [files EXCEPT !.root = RootOf(files)]
    /\ UNCHANGED <<pc, args, mem, link, server, conn, told, bounds>>

\* --pin-server-pub with what the server printed (--print-pubkey).
PinServer ==
    /\ pc = "idle"
    /\ files' = [files EXCEPT !.pin = sk]
    /\ UNCHANGED <<pc, args, mem, link, server, conn, told, bounds>>

LoadRoot ==
    /\ pc = "root"
    /\ files' = [files EXCEPT !.root = RootOf(files)]
    /\ mem' = [mem EXCEPT !.root = RootOf(files)]
    /\ pc' = IF args.mode = "setup" THEN "pub" ELSE "pin"
    /\ UNCHANGED <<args, link, server, conn, told, bounds>>

\* A cached public key is taken as it is, without a look at the secret.
LoadPub ==
    /\ pc = "pub"
    /\ LET pub == IF files.pub # 0 THEN files.pub ELSE mem.root
       IN  files' = [files EXCEPT !.pub = pub] /\ mem' = [mem EXCEPT !.pub = pub]
    /\ pc' = IF args.mode = "session" /\ args.deviceOnly THEN "send" ELSE "cred"
    /\ UNCHANGED <<args, link, server, conn, told, bounds>>

LoadCred ==
    /\ pc = "cred"
    /\ LET cred == IF files.cred # 0 THEN files.cred ELSE Fresh
       IN  files' = [files EXCEPT !.cred = cred] /\ mem' = [mem EXCEPT !.cred = cred]
    /\ pc' = IF args.mode = "setup" THEN "pin" ELSE "send"
    /\ UNCHANGED <<args, link, server, conn, told, bounds>>

PinMissing == files.pin = 0 /\ (args.mode = "setup" => ~args.tofu)

LoadPin ==
    /\ pc = "pin" /\ ~PinMissing
    /\ mem' = [mem EXCEPT !.pin = files.pin]
    /\ pc' = "connect"
    /\ UNCHANGED <<files, args, link, server, conn, told, bounds>>

StopWithoutPin ==
    /\ pc = "pin" /\ PinMissing
    /\ Exit
    /\ UNCHANGED <<files, server, conn, told, bounds>>

\* Which slot a new connection takes makes no difference.
FreeSlot == CHOOSE t \in Thread \cup {"none"} :
                IF \E u \in Thread : Free(conn[u]) THEN t # "none" /\ Free(conn[t]) ELSE t = "none"

\* A setup sends its request on connecting; a session first looks up its
\* public key and its credential.
Connect(t) ==
    /\ pc = "connect" /\ t = FreeSlot
    /\ link' = t
    /\ IF args.mode = "setup"
       THEN pc' = "challenge" /\ conn' = Put(t, [NewConn EXCEPT !.up = SetupRequest])
       ELSE pc' = "pub" /\ conn' = Put(t, NewConn)
    /\ UNCHANGED <<files, args, mem, server, told, bounds>>

Send ==
    /\ pc = "send"
    /\ conn' = Put(link, [conn[link] EXCEPT !.up = AuthPayload])
    /\ pc' = "payload2"
    /\ UNCHANGED <<files, args, mem, link, server, told, bounds>>

\* The end of a client process, for whatever reason: the kernel closes the
\* connection it had open, c.
Ends(c) ==
    /\ Exit
    /\ conn' = IF link = "none" THEN conn ELSE Put(link, [c EXCEPT !.open = FALSE, !.down = NoReply])

Mine == IF link = "none" THEN Over ELSE conn[link]
Heard(kind) == Mine.down.kind = kind
Key == Mine.down.key

\* do_setup on the server's challenge: the key must be the pinned one, or is
\* pinned now (TOFU), before the server's proof is verified.
AcceptChallenge ==
    /\ pc = "challenge" /\ Heard("challenge")
    /\ mem.pin \in {0, Key}
    /\ files' = [files EXCEPT !.pin = Key]
    /\ mem' = [mem EXCEPT !.pin = Key]
    /\ pc' = "prove"
    /\ UNCHANGED <<args, link, server, conn, told, bounds>>

WrongKey ==
    /\ pc \in {"challenge", "payload2"} /\ Heard(pc)
    /\ mem.pin \notin {0, Key}
    /\ Ends(Mine)
    /\ UNCHANGED <<files, server, told, bounds>>

\* The server's proof verifies; the device answers with its own.
Prove ==
    /\ pc = "prove"
    /\ conn' = Put(link, [conn[link] EXCEPT !.up = SetupProof, !.down = NoReply])
    /\ pc' = "ack"
    /\ UNCHANGED <<files, args, mem, link, server, told, bounds>>

HearAck ==
    /\ pc = "ack" /\ Heard("ack")
    /\ files' = [files EXCEPT !.pin = mem.pin]
    /\ told' = told \cup {<<mem.root, mem.pin>>}
    /\ Ends(Mine)
    /\ UNCHANGED <<server, bounds>>

\* do_auth_v2_session on the server's answer: the final tag is sent and the
\* session reported as done.  (--repeat: the next process does the next one.)
Finish ==
    /\ pc = "payload2" /\ Heard("payload2")
    /\ mem.pin = Key
    /\ Ends([Mine EXCEPT !.up = ClientTag, !.reported = ClientTag])
    /\ UNCHANGED <<files, server, told, bounds>>

\* The server has closed the connection and nothing is left to read.
EndOfFile ==
    /\ pc \in {"send", "challenge", "prove", "ack", "payload2"}
    /\ Mine.at = "gone" /\ ~Heard(pc)
    /\ Ends(Mine)
    /\ UNCHANGED <<files, server, told, bounds>>

\* IO_TIMEOUT, a refused connection, a kill.
ClientStops ==
    /\ pc # "idle" /\ Fault
    /\ Ends(Mine)
    /\ UNCHANGED <<files, server, told, resets>>
-----------------------------------------------------------------------------
Upsert(r, rec) == {x \in r : x.id # rec.id} \cup {rec}

\* The server thread of t reads a message, and leaves or goes on with c.
Reads(t, kind) == conn[t].up.kind = kind
Becomes(t, c) ==
    conn' = Put(t, [c EXCEPT !.up = Nothing, !.down = IF c.open THEN @ ELSE NoReply])
Gone(c) == [c EXCEPT !.at = "gone", !.req = Nothing]

\* Faulty variant: an id that is enrolled is refused, under any key.
IdTaken(m) == \E r \in reg : r.id = m.from.root

Collision(m) == \E r \in reg : r.id = m.from.root /\ r.pk # m.from.pub

\* handle_setup up to the challenge, the pairing policy (see Enrollment) willing.
ServeSetup(t) ==
    /\ conn[t].at = "start" /\ Reads(t, "setup")
    /\ LET m == conn[t].up IN
       Becomes(t, IF ~Collision(m)
                  THEN [conn[t] EXCEPT !.at = "challenged", !.req = m, !.down = Challenge]
                  ELSE Gone(conn[t]))
    /\ UNCHANGED <<client, server, told, bounds>>

\* schnorr_verify_setup: made with the secret of the key sent before.
SetupProven(t) == conn[t].up.from.root = conn[t].req.from.pub

RecordOf(m) == [id |-> m.from.root, pk |-> m.from.pub, cred |-> m.from.cred]

\* Faulty variant: a failed save is ignored.
EnrolUnsaved(t) ==
    /\ conn[t].at = "challenged" /\ Reads(t, "proof") /\ SetupProven(t)
    /\ reg' = Upsert(reg, RecordOf(conn[t].req))
    /\ disk' = reg' \/ disk' = disk
    /\ Becomes(t, [conn[t] EXCEPT !.at = "enrolled"])
    /\ UNCHANGED <<client, sk, told, bounds>>

\* The rest of handle_setup: verify, insert and save; without the save no answer.
Enrol(t) ==
    /\ conn[t].at = "challenged" /\ Reads(t, "proof") /\ SetupProven(t)
    /\ reg' = Upsert(reg, RecordOf(conn[t].req))
    /\ \/ disk' = reg' /\ Becomes(t, [conn[t] EXCEPT !.at = "enrolled"]) /\ UNCHANGED faults
       \/ Fault /\ Becomes(t, Gone(conn[t])) /\ UNCHANGED disk
    /\ UNCHANGED <<client, sk, told, resets>>

SendAck(t) ==
    /\ conn[t].at = "enrolled"
    /\ Becomes(t, [Gone(conn[t]) EXCEPT !.down = EnrolAck])
    /\ UNCHANGED <<client, server, told, bounds>>

\* The record whose pseudonym (a hash of public key and server key) this is.
Known(m) == {r \in reg : r.pk = m.from.pub /\ m.from.pin = sk}

PossessionProven(m, r) == m.from.root = r.pk
RoleProven(m, r) == m.args.deviceOnly \/ m.from.cred = r.cred
Permitted(m) == m.args.deviceOnly => AllowDeviceOnly

\* Faulty variant: the role proofs are not verified.
RoleTaken(m) == {r \in Known(m) : Permitted(m) /\ PossessionProven(m, r)}

Acceptable(m) ==
    {r \in Known(m) : Permitted(m) /\ PossessionProven(m, r) /\ RoleProven(m, r)}

\* What the server then takes the client to be: r, under its own key.
With(r) == [root |-> r.id, pub |-> r.pk, cred |-> r.cred, pin |-> sk]

\* handle_auth_common up to the server's answer.
Authenticate(t) ==
    /\ conn[t].at = "start" /\ Reads(t, "auth")
    /\ \E r \in Acceptable(conn[t].up) :
          Becomes(t, [conn[t] EXCEPT !.at = "confirm", !.accepted = With(r), !.down = ServerProof])
    /\ UNCHANGED <<client, server, told, bounds>>

TurnAway(t) ==
    /\ conn[t].at = "start" /\ Reads(t, "auth")
    /\ Acceptable(conn[t].up) = {}
    /\ Becomes(t, [Gone(conn[t]) EXCEPT !.refused = TRUE])
    /\ UNCHANGED <<client, server, told, bounds>>

\* Its end: the client's tag.
Confirm(t) ==
    /\ conn[t].at = "confirm" /\ Reads(t, "tag")
    /\ Becomes(t, [Gone(conn[t]) EXCEPT !.confirmed = TRUE])
    /\ UNCHANGED <<client, server, told, bounds>>

\* The client is gone and nothing is left to read.
ThreadSeesEnd(t) ==
    /\ conn[t].at \in {"start", "challenged", "confirm"}
    /\ ~conn[t].open /\ conn[t].up = Nothing
    /\ Becomes(t, Gone(conn[t]))
    /\ UNCHANGED <<client, server, told, bounds>>

\* IO_TIMEOUT, or a failed read or write.
ThreadStops(t) ==
    /\ conn[t].at # "gone" /\ Fault
    /\ Becomes(t, Gone(conn[t]))
    /\ UNCHANGED <<client, server, told, resets>>

AllGone == [t \in Thread |-> Gone([conn[t] EXCEPT !.up = Nothing])]

\* Faulty variant: registry.bin is not loaded.
ServerRestartsEmpty ==
    /\ Fault
    /\ reg' = {} /\ conn' = AllGone
    /\ UNCHANGED <<client, sk, disk, told, resets>>

\* The server dies and is started again.
ServerRestarts ==
    /\ Fault
    /\ reg' = disk /\ conn' = AllGone
    /\ UNCHANGED <<client, sk, disk, told, resets>>

Reset == pc = "idle" /\ resets < MaxResets /\ resets' = resets + 1

\* Its state directory is removed: a new key, an empty registry.
ResetServer ==
    /\ Reset
    /\ sk' = Fresh + 1 /\ reg' = {} /\ disk' = {} /\ conn' = AllGone
    /\ UNCHANGED <<client, told, faults>>

\* The device's state directory is removed.
ResetClient ==
    /\ Reset
    /\ files' = NoFiles
    /\ UNCHANGED <<pc, args, mem, link, server, conn, told, faults>>

\* role_cred.bin alone is removed, when all that was under way is over: the
\* next process that looks makes another credential, without a word, under
\* the root secret that is enrolled.
ResetCredential ==
    /\ Reset
    /\ files.cred # 0 /\ \A t \in Thread : conn[t].at = "gone"
    /\ files' = [files EXCEPT !.cred = 0]
    /\ told' = {p \in told : p[1] # files.root}
    /\ UNCHANGED <<pc, args, mem, link, server, conn, faults>>
-----------------------------------------------------------------------------
ClientStep ==
    \/ LoadRoot \/ LoadPub \/ LoadCred \/ LoadPin \/ StopWithoutPin
    \/ \E t \in Thread : Connect(t)
    \/ Send \/ AcceptChallenge \/ WrongKey \/ Prove \/ HearAck
    \/ Finish \/ EndOfFile

ServerStep(t) ==
    \/ ServeSetup(t) \/ Enrol(t) \/ SendAck(t)
    \/ Authenticate(t) \/ TurnAway(t) \/ Confirm(t) \/ ThreadSeesEnd(t)

Next ==
    \/ \E a \in Setup : RunSetup(a)
    \/ \E a \in Session : RunSession(a)
    \/ PrintIdentity \/ PinServer
    \/ ClientStep \/ ClientStops
    \/ \E t \in Thread : ServerStep(t) \/ ThreadStops(t)
    \/ ServerRestarts \/ ResetServer \/ ResetClient \/ ResetCredential

Spec == Init /\ [][Next]_vars

\* Whoever can go on does: running processes and threads are scheduled and
\* their reads and writes return.
Progress == ClientStep \/ \E t \in Thread : ServerStep(t)

\* An operator who does not give up: pins the server's key and runs the setup
\* again and again.
FairSpec ==
    /\ Spec /\ WF_vars(Progress)
    /\ SF_vars(PinServer) /\ SF_vars(\E a \in Setup : RunSetup(a))
-----------------------------------------------------------------------------
Number == 0 .. MaxResets + 2

\* A cached public key is the one of the root secret beside it, whatever the
\* process that wrote either was interrupted at, since load_or_compute_device_pub
\* does not look at the secret when there is a cached key.
FilesAgree == files.pub # 0 => files.pub = files.root

\* A device that was told that it is enrolled (do_setup returned Ok), whose
\* credential was not taken away since, and whose server has the key it had then,
\* is in registry.bin under its id, with its key; and as long as its own state is
\* there, with its credential, and the server's key is pinned.
ToldMeansEnrolled ==
    \A root \in Number \ {0} :
        <<root, sk>> \in told =>
            \E r \in disk :
                /\ r.id = root /\ r.pk = root
                /\ files.root = root => files = [root |-> root, pub |-> r.pk, cred |-> r.cred, pin |-> sk]

Entitled(m) == <<m.from.root, m.from.pin>> \in told /\ m.from.pin = sk

\* No session of such a device is turned away by the server (handle_auth_common
\* returning PermissionDenied), through restarts, failed saves, repeated setups
\* and setups still going on for clients that have left; unless it asks for the
\* device-only mode and the server does not offer it.
NeverTurnedAway ==
    [][\A t \in Thread :
          conn'[t].refused /\ ~conn[t].refused
              => ~(Entitled(conn[t].up) /\ Permitted(conn[t].up))]_vars

\* Mutual authentication, as each side's report has it: a server that saw the
\* final tag faces a client that reported success; and a client that reported
\* success was accepted by a server that has the key the client has pinned,
\* under a record with the client's id, its public key and, unless the role
\* proofs were left out and the server allows that, the credential it used: a
\* record from before the credential was made anew will not do.
\* (The client does not wait for the server's verdict on its tag: its success
\* does not mean that the server will report one.)
SessionsAgree ==
    \A t \in Thread :
        LET c == conn[t]
            m == c.reported IN
        /\ c.confirmed => Done(c)
        /\ Done(c) =>
             /\ c.accepted.root = m.from.root /\ m.from.root # 0
             /\ c.accepted.pub = m.from.pub /\ c.accepted.pin = m.from.pin
             /\ IF m.args.deviceOnly THEN AllowDeviceOnly ELSE c.accepted.cred = m.from.cred

\* Nothing that an interruption leaves behind, on either side, keeps a device
\* from being enrolled: under FairSpec it is in the end told so by the server
\* that is there, for the root secret that it has (main calls a setup with an
\* existing root idempotent).
Settles == <>[](<<files.root, sk>> \in told)
=============================================================================
