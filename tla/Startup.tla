-------------------------------- MODULE Startup --------------------------------
(***************************************************************************)
(* What the gateway does with its disk before it serves, and the           *)
(* certificate it serves with: the migrations of the database, the cached  *)
(* ACME certificate, and the task that renews it.                          *)
(*                                                                         *)
(* One atomic step is one SQLite statement (execute_batch commits each of  *)
(* a file that opens no transaction), one call to the certificate          *)
(* authority, one truncation or write of a file.  The process may end      *)
(* between any two, and a supervisor starts it again.                      *)
(*                                                                         *)
(* A certificate is known by the key it is for and the end of its          *)
(* validity; a private key by its name.  Of the database the model keeps   *)
(* which statements ran and the unit of two columns of the audit table.    *)
(*                                                                         *)
(* Operators named Mutant... are no part of the model: each is the next    *)
(* definition with a bug put in, for the check that a property notices it. *)
(***************************************************************************)
EXTENDS Integers, FiniteSets

CONSTANTS
  NumVersions, \* of migrations
  Statements,  \* how many a migration has; one that is a transaction has one
  Repeatable,  \* versions whose statements do no harm when run again
  Rescale,     \* V006: ts and ts_close of the audit table from ms to s
  Life,        \* validity of a certificate
  RenewBefore, \* acme_renew_before_days
  None,        \* no file, nothing served
  Torn,        \* what a file holds between its truncation and its write
  MaxTime,     \* bound on the clock
  MaxFaults    \* bound on crashes, errors of the authority and of writes

Versions == 1 .. NumVersions
Columns == {1, 2} \* ts, ts_close
Keys == 0 .. 4 \* one more than can be in use at once
Certs == [key : Keys, until : 0 .. MaxTime + Life]

ASSUME StartupAssumptions ==
  /\ NumVersions \in Nat /\ Statements \in [Versions -> Nat \ {0}]
  /\ Repeatable \subseteq Versions /\ Rescale \in Repeatable /\ Statements[Rescale] = 2
  /\ Life \in Nat /\ RenewBefore \in Nat /\ RenewBefore < Life
  /\ MaxTime \in Nat /\ MaxFaults \in Nat
  /\ None # Torn /\ {None, Torn} \cap (Keys \cup Certs) = {} /\ "stored" \notin {None, Torn}

VARIABLES
  now,
  pc,       \* of the process: "off", "migrate", "tls", "serve"
  recorded, \* _migrations
  done,     \* how many statements of each version have been committed
  unit,     \* of the two columns: "ms", "s", or "wrong"
  cursor,   \* of migrations::run
  certFile, keyFile, account, \* the ACME cache
  rest, tunnels, \* TlsState: axum_config and acceptor
  acq,      \* acquire_and_cache, of the boot or of the renewer
  order,    \* the order at the authority
  port80,   \* who listens: nobody, the challenge server, or one left behind
  interrupted, \* history: what was cut short by a crash or an error
  faults

schema == <<recorded, done, unit, cursor>>
files == <<certFile, keyFile, account>>
tls == <<files, rest, tunnels, acq, order, port80>>
vars == <<now, pc, schema, tls, interrupted, faults>>

Idle == [pc |-> "idle", cert |-> None]

(* Any older gateway may have left its database. *)
Init ==
  /\ now = 0 /\ pc = "off"
  /\ \E v \in 0 .. NumVersions :
       /\ recorded = 1 .. v
       /\ done = [w \in Versions |-> IF w <= v THEN Statements[w] ELSE 0]
       /\ unit = [c \in Columns |-> IF v < Rescale THEN "ms" ELSE "s"]
  /\ cursor = [v |-> 1, i |-> 0]
  /\ certFile = None /\ keyFile = None /\ account = None
  /\ rest = None /\ tunnels = None /\ acq = Idle /\ order = "none" /\ port80 = "free"
  /\ interrupted = {} /\ faults = 0

Tick ==
  /\ now < MaxTime /\ now' = now + 1
  /\ UNCHANGED <<pc, schema, tls, interrupted, faults>>

(* The end of the process takes what is in memory, and frees the port. *)
Exit ==
  /\ pc' = "off" /\ rest' = None /\ tunnels' = None
  /\ acq' = Idle /\ order' = "none" /\ port80' = "free"

Fault == faults < MaxFaults /\ faults' = faults + 1

-----------------------------------------------------------------------------
(* migrations::run *)

Start ==
  /\ pc = "off" /\ pc' = "migrate" /\ cursor' = [v |-> 1, i |-> 0]
  /\ UNCHANGED <<now, recorded, done, unit, tls, interrupted, faults>>

NextVersion == cursor' = [v |-> cursor.v + 1, i |-> 0]

Migrating == pc = "migrate" /\ cursor.v \in Versions

MutantApplied(v) == FALSE \* every boot runs them all

Applied(v) == v \in recorded

SkipApplied ==
  /\ Migrating /\ cursor.i = 0 /\ Applied(cursor.v)
  /\ NextVersion
  /\ UNCHANGED <<now, pc, recorded, done, unit, tls, interrupted, faults>>

MutantRescaled(c) == IF unit[c] = "ms" THEN "s" ELSE "wrong" \* without the WHERE on the value

(* ts / 1000 where ts > 10000000000 *)
Rescaled(c) == IF unit[c] = "ms" THEN "s" ELSE unit[c]

(* CREATE TABLE and ADD COLUMN fail when they are repeated. *)
Runs(v, i) == v \in Repeatable \/ done[v] < i

Current == cursor.i + 1

ToExecute == Migrating /\ ~ Applied(cursor.v) /\ cursor.i < Statements[cursor.v]

Execute ==
  /\ ToExecute /\ Runs(cursor.v, Current)
  /\ done' = [done EXCEPT ![cursor.v] = IF @ < Current THEN Current ELSE @]
  /\ unit' = IF cursor.v = Rescale THEN [unit EXCEPT ![Current] = Rescaled(Current)] ELSE unit
  /\ cursor' = [cursor EXCEPT !.i = Current]
  /\ UNCHANGED <<now, pc, recorded, tls, interrupted, faults>>

StatementRefused ==
  /\ ToExecute /\ ~ Runs(cursor.v, Current)
  /\ Exit
  /\ UNCHANGED <<now, schema, files, interrupted, faults>>

ToRecord == Migrating /\ ~ Applied(cursor.v) /\ cursor.i = Statements[cursor.v]

Record ==
  /\ ToRecord
  /\ recorded' = recorded \cup {cursor.v} /\ NextVersion
  /\ UNCHANGED <<now, pc, done, unit, tls, interrupted, faults>>

DatabaseReady ==
  /\ pc = "migrate" /\ cursor.v = NumVersions + 1
  /\ pc' = "tls"
  /\ UNCHANGED <<now, schema, tls, interrupted, faults>>

-----------------------------------------------------------------------------
(* tls::init_acme *)

Due(cert) == cert.until - now <= RenewBefore \* needs_renewal

(* rustls refuses a certificate with the key of another. *)
Usable(cert, key) == cert.key = key

Serve(cert) == pc' = "serve" /\ rest' = cert /\ tunnels' = cert

Cached == certFile # None /\ keyFile # None

InitAcme == pc = "tls" /\ acq.pc = "idle"

Acquire(next) == acq' = [acq EXCEPT !.pc = next]

UseCached ==
  /\ InitAcme /\ Cached /\ certFile # Torn
  /\ ~ Due(certFile) /\ Usable(certFile, keyFile)
  /\ Serve(certFile)
  /\ UNCHANGED <<now, schema, files, acq, order, port80, interrupted, faults>>

CacheUnusable ==
  Cached /\ (certFile # Torn => ~ Due(certFile) /\ ~ Usable(certFile, keyFile))

CachedRefused ==
  /\ InitAcme /\ CacheUnusable
  /\ Exit
  /\ UNCHANGED <<now, schema, files, interrupted, faults>>

FirstCertificate ==
  /\ InitAcme /\ (Cached => certFile # Torn /\ Due(certFile))
  /\ Acquire("account")
  /\ UNCHANGED <<now, pc, schema, files, rest, tunnels, order, port80, interrupted, faults>>

(* try_renew, from the cached certificate and not from the served one. *)
TryRenew ==
  /\ pc = "serve" /\ acq.pc = "idle"
  /\ certFile \notin {None, Torn} /\ Due(certFile)
  /\ Acquire("account")
  /\ UNCHANGED <<now, pc, schema, files, rest, tunnels, order, port80, interrupted, faults>>

-----------------------------------------------------------------------------
(* tls::acquire_and_cache *)

MutantFailed == /\ acq' = [pc |-> "dead", cert |-> None] \* an error ends the renewer
                /\ order' = "none" /\ port80' = IF port80 = "own" THEN "leaked" ELSE port80
                /\ UNCHANGED <<pc, rest, tunnels>>

(* An error ends the boot, and a round of the renewer.  The challenge *)
(* server, if it was spawned, is left behind.                         *)
Failed ==
  \/ pc = "tls" /\ Exit
  \/ /\ pc = "serve" /\ acq' = Idle /\ order' = "none"
     /\ port80' = IF port80 = "own" THEN "leaked" ELSE port80
     /\ UNCHANGED <<pc, rest, tunnels>>

(* load_or_create_account, with the truncation of the file it writes. *)
LoadAccount ==
  /\ acq.pc = "account" /\ account # Torn
  /\ IF account = None THEN account' = Torn /\ Acquire("store account")
                       ELSE account' = account /\ Acquire("order")
  /\ UNCHANGED <<now, pc, schema, certFile, keyFile, rest, tunnels, order, port80,
                 interrupted, faults>>

AccountRefused ==
  /\ acq.pc = "account" /\ account = Torn
  /\ Failed
  /\ UNCHANGED <<now, schema, files, interrupted, faults>>

StoreAccount ==
  /\ acq.pc = "store account" /\ account' = "stored" /\ Acquire("order")
  /\ UNCHANGED <<now, pc, schema, certFile, keyFile, rest, tunnels, order, port80,
                 interrupted, faults>>

(* new_order, and set_ready on its challenge. *)
Order ==
  /\ acq.pc = "order" /\ order' = "pending" /\ Acquire("listen")
  /\ UNCHANGED <<now, pc, schema, files, rest, tunnels, port80, interrupted, faults>>

(* spawn_challenge_server *)
Listen ==
  /\ acq.pc = "listen" /\ port80 = "free"
  /\ port80' = "own" /\ Acquire("poll")
  /\ UNCHANGED <<now, pc, schema, files, rest, tunnels, order, interrupted, faults>>

PortTaken ==
  /\ acq.pc = "listen" /\ port80 # "free"
  /\ Failed
  /\ UNCHANGED <<now, schema, files, interrupted, faults>>

(* The authority asks for the proof, whenever it likes. *)
Validate ==
  /\ order = "pending"
  /\ order' = IF port80 = "own" THEN "valid" ELSE "invalid"
  /\ UNCHANGED <<now, pc, schema, files, rest, tunnels, acq, port80, interrupted, faults>>

OrderInvalid ==
  /\ acq.pc = "poll" /\ order = "invalid"
  /\ Failed
  /\ UNCHANGED <<now, schema, files, interrupted, faults>>

InUse == {keyFile} \cup {c.key : c \in {certFile, rest, tunnels} \ {None, Torn}}
FreshKey(k) == k \in Keys \ InUse /\ \A j \in Keys \ InUse : k <= j

(* poll_ready, finalize, poll_certificate, and the server is aborted. *)
Issue ==
  /\ acq.pc = "poll" /\ order = "valid"
  /\ \E k \in Keys : /\ FreshKey(k)
                     /\ acq' = [pc |-> "truncate cert", cert |-> [key |-> k, until |-> now + Life]]
  /\ order' = "none" /\ port80' = "free"
  /\ UNCHANGED <<now, pc, schema, files, rest, tunnels, interrupted, faults>>

WriteCert ==
  /\ \/ acq.pc = "truncate cert" /\ certFile' = Torn /\ Acquire("write cert")
     \/ acq.pc = "write cert" /\ certFile' = acq.cert /\ Acquire("truncate key")
  /\ UNCHANGED <<now, pc, schema, keyFile, account, rest, tunnels, order, port80,
                 interrupted, faults>>

WriteKey ==
  /\ \/ /\ acq.pc = "truncate key" /\ keyFile' = Torn /\ Acquire("write key")
        /\ UNCHANGED interrupted
     \/ /\ acq.pc = "write key" /\ keyFile' = acq.cert.key /\ Acquire("install")
        /\ interrupted' = interrupted \ {"cert"}
  /\ UNCHANGED <<now, pc, schema, certFile, account, rest, tunnels, order, port80, faults>>

MutantInstall == \* the acceptor of the tunnels is forgotten
  /\ acq.pc = "install" /\ acq' = Idle
  /\ pc' = "serve" /\ rest' = acq.cert
  /\ tunnels' = IF pc = "tls" THEN acq.cert ELSE tunnels
  /\ UNCHANGED <<now, schema, files, order, port80, interrupted, faults>>

(* build_state_from_pem, or TlsState::reload of one listener and the other. *)
Install ==
  /\ \/ acq.pc = "install" /\ pc = "tls" /\ Serve(acq.cert) /\ acq' = Idle
     \/ /\ acq.pc = "install" /\ pc = "serve"
        /\ rest' = acq.cert /\ Acquire("accept") /\ UNCHANGED <<pc, tunnels>>
     \/ /\ acq.pc = "accept"
        /\ tunnels' = acq.cert /\ acq' = Idle /\ UNCHANGED <<pc, rest>>
  /\ UNCHANGED <<now, schema, files, order, port80, interrupted, faults>>

-----------------------------------------------------------------------------
(* Faults. *)

Writing == acq.pc \in {"write cert", "truncate key", "write key"}

Cut ==
  (IF Writing THEN {"cert"} ELSE {}) \cup
  (IF acq.pc = "store account" THEN {"account"} ELSE {})

(* An error of the authority or of a write, or a timeout. *)
Error ==
  /\ Fault /\ acq.pc \notin {"idle", "install", "accept"}
  /\ Failed
  /\ interrupted' = interrupted \cup Cut
  /\ UNCHANGED <<now, schema, files>>

(* The process ends: it is killed, or a statement or a listener fails. *)
Crash ==
  /\ Fault /\ pc # "off"
  /\ Exit
  /\ interrupted' = interrupted \cup Cut \cup
       (IF Migrating /\ cursor.i > 0 THEN {"schema"} ELSE {})
  /\ UNCHANGED <<now, schema, files>>

Database ==
  \/ Start \/ SkipApplied \/ Execute \/ StatementRefused \/ Record \/ DatabaseReady

Certificate ==
  \/ UseCached \/ CachedRefused \/ FirstCertificate \/ TryRenew
  \/ LoadAccount \/ AccountRefused \/ StoreAccount \/ Order \/ Listen \/ PortTaken
  \/ OrderInvalid \/ Issue \/ WriteCert \/ WriteKey \/ Install

Next == Tick \/ Database \/ Certificate \/ Validate \/ Error \/ Crash

Spec == Init /\ [][Next]_vars

(* The process runs, a supervisor starts it, and the authority answers. *)
FairSpec == Spec /\ WF_vars(Database) /\ WF_vars(Certificate) /\ WF_vars(Validate)

-----------------------------------------------------------------------------
(* Properties. *)

Phases ==
  {"idle", "account", "store account", "order", "listen", "poll", "truncate cert",
   "write cert", "truncate key", "write key", "install", "accept"}

TypeOK ==
  /\ now \in 0 .. MaxTime /\ pc \in {"off", "migrate", "tls", "serve"}
  /\ recorded \subseteq Versions /\ done \in [Versions -> Nat]
  /\ unit \in [Columns -> {"ms", "s", "wrong"}]
  /\ cursor \in [v : 1 .. NumVersions + 1, i : Nat]
  /\ certFile \in Certs \cup {None, Torn} /\ keyFile \in Keys \cup {None, Torn}
  /\ account \in {None, Torn, "stored"}
  /\ rest \in Certs \cup {None} /\ tunnels \in Certs \cup {None}
  /\ acq \in [pc : Phases, cert : Certs \cup {None}]
  /\ order \in {"none", "pending", "valid", "invalid"}
  /\ port80 \in {"free", "own", "leaked"}
  /\ interrupted \subseteq {"schema", "cert", "account"} /\ faults \in 0 .. MaxFaults
  /\ pc = "serve" <=> rest # None
  /\ rest = None <=> tunnels = None
  /\ acq.pc # "idle" => pc \in {"tls", "serve"}
  /\ port80 = "own" <=> acq.pc = "poll"
  /\ port80 = "leaked" => pc = "serve"

(* The API is served on a schema on which every migration ran to its end,  *)
(* whatever crashes came before, and with the times of the audit table     *)
(* divided once, although V006 may run twice.                              *)
ServesFullSchema ==
  pc \in {"tls", "serve"} =>
    /\ \A v \in Versions : done[v] = Statements[v]
    /\ \A c \in Columns : unit[c] = "s"

(* The boot cannot get past what is on the disk. *)
Stuck(part) ==
  CASE part = "schema"  -> ToExecute /\ ~ Runs(cursor.v, Current)
    [] part = "cert"    -> InitAcme /\ CacheUnusable
    [] part = "account" -> acq.pc = "account" /\ account = Torn

(* It is stuck there only after a crash or an error between the first      *)
(* statement of a migration and its record, between the truncation of the  *)
(* cached certificate and the end of the write of its key, or within the   *)
(* write of the account.                                                   *)
StuckOnlyByInterruption ==
  \A part \in {"schema", "cert", "account"} : Stuck(part) => part \in interrupted

(* While the renewer sleeps, the REST listener and the tunnels serve one   *)
(* certificate, which is the cached one unless its write was cut short.    *)
ServesCached ==
  pc = "serve" /\ acq.pc = "idle"
    => rest = tunnels /\ (rest = certFile \/ "cert" \in interrupted)

(* A certificate that is due is replaced, unless a challenge server was    *)
(* left on the port by an error, or a file was left torn.                  *)
CertificateRenewed ==
  (pc = "serve" /\ Due(rest))
    ~> \/ pc # "serve" \/ ~ Due(rest)
       \/ port80 = "leaked" \/ interrupted \cap {"cert", "account"} # {}
=============================================================================
