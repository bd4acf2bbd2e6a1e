---------------------------- MODULE StartupProofs ------------------------------
(***************************************************************************)
(* The start of the gateway, for any migrations and any number of faults:  *)
(* what it serves with, and when a boot gets stuck on its disk.            *)
(*                                                                         *)
(* A version that is not recorded has run just the statements before the   *)
(* cursor, unless a boot was cut short within it (Progress).  The cached   *)
(* certificate and key fit each other but while the two are being written  *)
(* (Paired), and what is served is what is cached (Served).                *)
(***************************************************************************)
EXTENDS Startup, ConnPool, FiniteSetTheorems, TLAPS

(* The migrations so far. *)
Progress ==
  /\ \A v \in Versions : done[v] <= Statements[v]
  /\ \A v \in recorded : done[v] = Statements[v]
  /\ pc = "migrate" =>
       /\ \A v \in Versions : v < cursor.v => v \in recorded
       /\ cursor.v \in recorded => cursor.i = 0
       /\ cursor.v \in Versions => cursor.i <= done[cursor.v]
  /\ pc \in {"tls", "serve"} => Versions \subseteq recorded
  /\ "schema" \notin interrupted =>
       \A v \in Versions \ recorded :
         done[v] = IF pc = "migrate" /\ v = cursor.v THEN cursor.i ELSE 0

(* The unit of a column follows from the statements of V006 that ran. *)
Units ==
  \A c \in Columns : unit[c] # "wrong" /\ (c <= done[Rescale] => unit[c] = "s")

(* The cached certificate and key. *)
Paired ==
  /\ acq.pc \in {"truncate cert", "write cert", "truncate key", "write key", "install", "accept"}
       => acq.cert \in Certs
  /\ acq.pc \in {"truncate key", "write key", "install", "accept"} => certFile = acq.cert
  /\ "cert" \notin interrupted /\ ~ Writing =>
       \/ certFile = None /\ keyFile = None
       \/ certFile \in Certs /\ keyFile = certFile.key
  /\ account = Torn => acq.pc = "store account" \/ "account" \in interrupted

(* The two listeners. *)
Served ==
  /\ acq.pc = "accept" => pc = "serve" /\ rest = acq.cert
  /\ pc = "serve" /\ acq.pc # "accept" => rest = tunnels
  /\ pc = "serve" /\ ~ Writing /\ acq.pc # "install"
       => rest = certFile \/ "cert" \in interrupted

IInv == TypeOK /\ Progress /\ Units /\ Paired /\ Served

LEMMA Distinct ==
  /\ None # Torn /\ None \notin Certs /\ Torn \notin Certs
  /\ None \notin Keys /\ Torn \notin Keys
BY StartupAssumptions

LEMMA RescaleFacts ==
  /\ Rescale \in Versions /\ Rescale \in Repeatable /\ Statements[Rescale] = 2
  /\ Statements \in [Versions -> Nat \ {0}]
BY StartupAssumptions

LEMMA Initially == Init => IInv
<1> SUFFICES ASSUME Init PROVE IInv
  OBVIOUS
<1> USE StartupAssumptions, Distinct, RescaleFacts
<1>1. PICK v \in 0 .. NumVersions :
        /\ recorded = 1 .. v
        /\ done = [w \in Versions |-> IF w <= v THEN Statements[w] ELSE 0]
        /\ unit = [c \in Columns |-> IF v < Rescale THEN "ms" ELSE "s"]
  BY DEF Init
<1>2. TypeOK
  <2>1. recorded \subseteq Versions /\ done \in [Versions -> Nat]
    BY <1>1 DEF Versions
  <2>2. unit \in [Columns -> {"ms", "s", "wrong"}]
    BY <1>1
  <2>3. QED
    BY <2>1, <2>2 DEF Init, TypeOK, Idle, Phases
<1>3. Progress
  BY <1>1 DEF Init, Progress, Versions
<1>4. Units
  BY <1>1 DEF Units, Versions, Columns
<1>5. Paired /\ Served
  BY DEF Init, Paired, Served, Idle, Writing
<1>6. QED
  BY <1>2, <1>3, <1>4, <1>5 DEF IInv

-----------------------------------------------------------------------------
(* The steps of the migrations leave the files and the listeners alone. *)
LEMMA DatabaseTypes ==
  ASSUME IInv, Database
  PROVE  TypeOK'
<1> USE StartupAssumptions DEF IInv, TypeOK, tls, files, schema
<1>1. CASE Start
  BY <1>1 DEF Start
<1>2. CASE SkipApplied
  BY <1>2, SMTT(30) DEF SkipApplied, NextVersion, Migrating, Versions
<1>3. CASE Execute
  <2>1. cursor' \in [v : 1 .. NumVersions + 1, i : Nat]
    BY <1>3 DEF Execute, Current
  <2>2. done' \in [Versions -> Nat]
    <3>1. cursor.v \in Versions /\ done[cursor.v] \in Nat /\ Current \in Nat
      BY <1>3 DEF Execute, ToExecute, Migrating, Current
    <3>2. QED
      BY <1>3, <3>1 DEF Execute
  <2>3. unit' \in [Columns -> {"ms", "s", "wrong"}]
    BY <1>3 DEF Execute, Rescaled
  <2>4. QED
    BY <1>3, <2>1, <2>2, <2>3 DEF Execute
<1>4. CASE StatementRefused
  BY <1>4 DEF StatementRefused, Exit, Idle, Phases, ToExecute, Migrating
<1>5. CASE Record
  <2>1. cursor.v \in Versions /\ cursor' = [v |-> cursor.v + 1, i |-> 0]
    BY <1>5 DEF Record, ToRecord, NextVersion, Migrating
  <2>2. cursor' \in [v : 1 .. NumVersions + 1, i : Nat]
    BY <2>1 DEF Versions
  <2>3. QED
    BY <1>5, <2>1, <2>2 DEF Record
<1>6. CASE DatabaseReady
  BY <1>6 DEF DatabaseReady
<1>7. QED
  BY <1>1, <1>2, <1>3, <1>4, <1>5, <1>6 DEF Database

LEMMA DatabaseProgress ==
  ASSUME IInv, Database
  PROVE  Progress' /\ Units'
<1> USE StartupAssumptions, RescaleFacts DEF IInv, TypeOK, Progress, Units
<1>1. CASE Start
  <2>1. cursor' = [v |-> 1, i |-> 0] /\ pc = "off" /\ pc' = "migrate"
        /\ UNCHANGED <<recorded, done, unit, interrupted>>
    BY <1>1 DEF Start
  <2>2. Units'
    BY <2>1
  <2>3. \A v \in Versions : v \in Nat /\ ~ (v < 1) /\ 0 <= done[v]
    BY DEF Versions
  <2>4. QED
    BY <2>1, <2>2, <2>3
<1>2. CASE SkipApplied
  <2>1. /\ cursor.v \in recorded /\ pc = "migrate" /\ pc' = pc /\ cursor.i = 0
        /\ cursor' = [v |-> cursor.v + 1, i |-> 0]
        /\ UNCHANGED <<recorded, done, unit, interrupted>>
    BY <1>2 DEF SkipApplied, NextVersion, Migrating, Applied
  <2>2. cursor.v \in Nat /\ cursor'.v = cursor.v + 1 /\ cursor'.i = 0
    BY <2>1 DEF Versions
  <2>3. \A v \in Versions : v \in Nat /\ done[v] \in Nat
    BY DEF Versions
  <2>4. \A v \in Versions : v < cursor'.v => v \in recorded'
    BY <2>1, <2>2, <2>3
  <2>5. "schema" \notin interrupted' => \A v \in Versions \ recorded' :
          done'[v] = IF pc' = "migrate" /\ v = cursor'.v THEN cursor'.i ELSE 0
    BY <2>1, <2>2, <2>3
  <2>6. cursor'.v \in Versions => cursor'.i <= done'[cursor'.v]
    BY <2>1, <2>2, <2>3
  <2>7. QED
    BY <2>1, <2>2, <2>4, <2>5, <2>6
<1>3. CASE Execute
  <2>1. /\ cursor.v \in Versions \ recorded /\ cursor.i < Statements[cursor.v]
        /\ cursor.i <= done[cursor.v] /\ cursor.i \in Nat /\ pc = "migrate"
    BY <1>3 DEF Execute, ToExecute, Migrating, Applied
  <2>2. /\ done'[cursor.v] = IF done[cursor.v] < cursor.i + 1 THEN cursor.i + 1
                                                             ELSE done[cursor.v]
        /\ \A v \in Versions : v # cursor.v => done'[v] = done[v]
    BY <1>3, <2>1 DEF Execute, Current
  <2>3. cursor'.v = cursor.v /\ cursor'.i = cursor.i + 1
    BY <1>3 DEF Execute, Current
  <2>4. recorded' = recorded /\ pc' = pc /\ interrupted' = interrupted
    BY <1>3 DEF Execute
  <2>5. Progress'
    BY <2>1, <2>2, <2>3, <2>4
  <2>6. Units'
    <3>1. CASE cursor.v # Rescale
      BY <3>1, <1>3, <2>2 DEF Execute
    <3>2. CASE cursor.v = Rescale
      <4>1. cursor.i + 1 \in Columns
        BY <2>1, <3>2 DEF Columns
      <4>2. unit'[cursor.i + 1] = "s" /\ \A c \in Columns : c # cursor.i + 1 => unit'[c] = unit[c]
        BY <1>3, <3>2, <4>1 DEF Execute, Current, Rescaled
      <4>3. \A c \in Columns : c \in Nat
        BY DEF Columns
      <4>4. QED
        BY <2>1, <2>2, <3>2, <4>1, <4>2, <4>3
    <3>3. QED
      BY <3>1, <3>2
  <2>7. QED
    BY <2>5, <2>6
<1>4. CASE StatementRefused
  <2>1. "schema" \in interrupted
    BY <1>4 DEF StatementRefused, ToExecute, Migrating, Applied, Runs, Current
  <2>2. QED
    BY <1>4, <2>1 DEF StatementRefused, Exit, schema
<1>5. CASE Record
  <2>1. /\ cursor.v \in Versions \ recorded /\ cursor.i = Statements[cursor.v]
        /\ pc = "migrate" /\ pc' = pc /\ recorded' = recorded \cup {cursor.v}
        /\ cursor'.v = cursor.v + 1 /\ cursor'.i = 0
        /\ done' = done /\ unit' = unit /\ interrupted' = interrupted
    BY <1>5 DEF Record, ToRecord, Migrating, Applied, NextVersion
  <2>2. cursor.v \in Nat /\ \A v \in Versions : v \in Nat /\ done[v] \in Nat
    BY DEF Versions
  <2>3. cursor'.v \in recorded' => cursor'.i = 0
    BY <2>1
  <2>4. done[cursor.v] = Statements[cursor.v]
    BY <2>1, <2>2
  <2>5. /\ \A v \in Versions : done'[v] <= Statements[v]
        /\ \A v \in recorded' : done'[v] = Statements[v]
    BY <2>1, <2>4
  <2>6. \A v \in Versions : v < cursor'.v => v \in recorded'
    BY <2>1, <2>2
  <2>7. cursor'.v \in Versions => cursor'.i <= done'[cursor'.v]
    BY <2>1, <2>2
  <2>8. "schema" \notin interrupted' => \A v \in Versions \ recorded' :
          done'[v] = IF pc' = "migrate" /\ v = cursor'.v THEN cursor'.i ELSE 0
    BY <2>1, <2>2
  <2>9. Units'
    BY <2>1
  <2>10. QED
    BY <2>1, <2>3, <2>5, <2>6, <2>7, <2>8, <2>9
<1>6. CASE DatabaseReady
  BY <1>6 DEF DatabaseReady, schema, Versions
<1>7. QED
  BY <1>1, <1>2, <1>3, <1>4, <1>5, <1>6 DEF Database

LEMMA DatabaseServed ==
  ASSUME IInv, Database
  PROVE  Paired' /\ Served'
<1> USE DEF IInv, TypeOK, Paired, Served, Writing, tls, files
<1>1. pc \in {"off", "migrate"} /\ acq.pc = "idle"
  BY DEF Database, Start, SkipApplied, Execute, StatementRefused, Record, DatabaseReady,
         ToExecute, ToRecord, Migrating
<1>2. pc' # "serve" /\ acq'.pc = "idle"
  BY <1>1 DEF Database, Start, SkipApplied, Execute, StatementRefused, Record, DatabaseReady,
              Exit, Idle
<1>3. UNCHANGED <<files, interrupted>>
  BY DEF Database, Start, SkipApplied, Execute, StatementRefused, Record, DatabaseReady
<1>4. QED
  BY <1>1, <1>2, <1>3

-----------------------------------------------------------------------------
(* The steps of the certificate leave the schema alone. *)

(* What Acquire, Exit and Failed do. *)
LEMMA AcquireFacts ==
  ASSUME TypeOK, NEW p \in Phases, Acquire(p)
  PROVE  /\ acq' \in [pc : Phases, cert : Certs \cup {None}]
         /\ acq'.pc = p /\ acq'.cert = acq.cert
BY DEF TypeOK, Acquire

LEMMA ExitFacts ==
  ASSUME Exit
  PROVE  /\ acq' \in [pc : Phases, cert : Certs \cup {None}] /\ acq'.pc = "idle"
         /\ pc' = "off" /\ rest' = None /\ tunnels' = None
         /\ order' = "none" /\ port80' = "free"
BY DEF Exit, Idle, Phases

LEMMA FailedFacts ==
  ASSUME TypeOK, Failed
  PROVE  /\ acq' \in [pc : Phases, cert : Certs \cup {None}] /\ acq'.pc = "idle"
         /\ order' = "none" /\ port80' \in {"free", "leaked"}
         /\ \/ pc = "tls" /\ pc' = "off" /\ rest' = None /\ tunnels' = None /\ port80' = "free"
            \/ pc = "serve" /\ UNCHANGED <<pc, rest, tunnels>>
<1>1. CASE pc = "tls" /\ Exit
  BY <1>1, ExitFacts
<1>2. CASE ~ (pc = "tls" /\ Exit)
  <2>1. acq' = Idle /\ "idle" \in Phases
    BY <1>2 DEF Failed, Phases
  <2>2. acq' \in [pc : Phases, cert : Certs \cup {None}] /\ acq'.pc = "idle"
    BY <2>1 DEF Idle
  <2>3. port80' \in {"free", "leaked"} /\ order' = "none" /\ pc = "serve"
        /\ UNCHANGED <<pc, rest, tunnels>>
    BY <1>2 DEF Failed, TypeOK
  <2>4. QED
    BY <2>2, <2>3
<1>3. QED
  BY <1>1, <1>2

LEMMA CertificateTypes ==
  ASSUME IInv, Certificate
  PROVE  TypeOK'
<1> USE DEF IInv
<1>1. CASE UseCached
  BY <1>1, Distinct DEF UseCached, InitAcme, Cached, Serve, TypeOK, files, schema
<1>2. CASE CachedRefused
  BY <1>2, ExitFacts DEF CachedRefused, InitAcme, TypeOK, files, schema
<1>3. CASE FirstCertificate
  <2>1. "account" \in Phases /\ Acquire("account")
    BY <1>3 DEF FirstCertificate, Phases
  <2>2. QED
    BY <1>3, <2>1, AcquireFacts DEF FirstCertificate, InitAcme, TypeOK, files, schema
<1>4. CASE TryRenew
  <2>1. "account" \in Phases /\ Acquire("account")
    BY <1>4 DEF TryRenew, Phases
  <2>2. QED
    BY <1>4, <2>1, AcquireFacts DEF TryRenew, TypeOK, files, schema
<1>5. CASE StoreAccount
  <2>1. "order" \in Phases /\ Acquire("order")
    BY <1>5 DEF StoreAccount, Phases
  <2>2. QED
    BY <1>5, <2>1, AcquireFacts DEF StoreAccount, TypeOK, files, schema
<1>6. CASE Order
  <2>1. "listen" \in Phases /\ Acquire("listen")
    BY <1>6 DEF Order, Phases
  <2>2. QED
    BY <1>6, <2>1, AcquireFacts DEF Order, TypeOK, files, schema
<1>7. CASE Listen
  <2>1. "poll" \in Phases /\ Acquire("poll")
    BY <1>7 DEF Listen, Phases
  <2>2. QED
    BY <1>7, <2>1, AcquireFacts DEF Listen, TypeOK, files, schema
<1>8. CASE LoadAccount
  <2>1. "order" \in Phases /\ "store account" \in Phases
    BY DEF Phases
  <2>2. \E p \in {"order", "store account"} : Acquire(p)
    BY <1>8 DEF LoadAccount
  <2>3. /\ acq' \in [pc : Phases, cert : Certs \cup {None}]
        /\ acq'.pc \in {"order", "store account"}
    BY <2>1, <2>2, AcquireFacts
  <2>4. QED
    BY <1>8, <2>3, ZenonT(40) DEF LoadAccount, TypeOK, schema
<1>9. CASE AccountRefused
  BY <1>9, FailedFacts DEF AccountRefused, TypeOK, files, schema
<1>10. CASE PortTaken
  BY <1>10, FailedFacts DEF PortTaken, TypeOK, files, schema
<1>11. CASE OrderInvalid
  BY <1>11, FailedFacts DEF OrderInvalid, TypeOK, files, schema
<1>12. CASE Issue
  <2>1. PICK k \in Keys :
          acq' = [pc |-> "truncate cert", cert |-> [key |-> k, until |-> now + Life]]
    BY <1>12 DEF Issue
  <2>2. [key |-> k, until |-> now + Life] \in Certs
    BY StartupAssumptions DEF TypeOK, Certs
  <2>3. acq' \in [pc : Phases, cert : Certs \cup {None}] /\ acq'.pc = "truncate cert"
    BY <2>1, <2>2 DEF Phases
  <2>4. QED
    BY <1>12, <2>3 DEF Issue, TypeOK, files, schema
<1>13. CASE WriteCert
  <2>1. "write cert" \in Phases /\ "truncate key" \in Phases
    BY DEF Phases
  <2>2. /\ acq' \in [pc : Phases, cert : Certs \cup {None}]
        /\ acq'.pc \in {"write cert", "truncate key"}
        /\ certFile' \in Certs \cup {None, Torn}
    BY <1>13, <2>1, AcquireFacts DEF WriteCert, Paired
  <2>3. acq.pc \in {"truncate cert", "write cert"}
    BY <1>13 DEF WriteCert
  <2>4. QED
    BY <1>13, <2>2, <2>3 DEF WriteCert, TypeOK, schema
<1>14. CASE WriteKey
  <2>1. "write key" \in Phases /\ "install" \in Phases
    BY DEF Phases
  <2>2. acq.pc = "write key" => acq.cert.key \in Keys
    BY DEF Paired, Certs
  <2>3. /\ acq' \in [pc : Phases, cert : Certs \cup {None}]
        /\ acq'.pc \in {"write key", "install"}
        /\ keyFile' \in Keys \cup {None, Torn}
    BY <1>14, <2>1, <2>2, AcquireFacts DEF WriteKey
  <2>4. acq.pc \in {"truncate key", "write key"} /\ interrupted' \subseteq interrupted
    BY <1>14 DEF WriteKey
  <2>5. QED
    BY <1>14, <2>3, <2>4, ZenonT(40) DEF WriteKey, TypeOK, schema
<1>15. CASE Install
  <2>1. "accept" \in Phases /\ "idle" \in Phases /\ Idle \in [pc : Phases, cert : Certs \cup {None}]
    BY DEF Phases, Idle
  <2>2. /\ acq' \in [pc : Phases, cert : Certs \cup {None}]
        /\ acq'.pc \in {"accept", "idle"} /\ (acq'.pc = "accept" => pc' = "serve")
    BY <1>15, <2>1, AcquireFacts DEF Install, Idle
  <2>3. acq.pc \in {"install", "accept"} /\ acq.cert \in Certs
    BY <1>15 DEF Install, Paired
  <2>4. acq.pc = "accept" => pc = "serve" /\ rest \in Certs
    BY Distinct DEF Served, TypeOK
  <2>5. pc = "serve" => tunnels \in Certs
    BY Distinct DEF TypeOK
  <2>6. /\ pc' = "serve" /\ rest' \in Certs /\ tunnels' \in Certs
    BY <1>15, <2>3, <2>4, <2>5 DEF Install, Serve
  <2>7. QED
    BY <1>15, <2>2, <2>3, <2>6, Distinct DEF Install, TypeOK, files, schema
<1>16. QED
  BY <1>1, <1>2, <1>3, <1>4, <1>5, <1>6, <1>7, <1>8, <1>9, <1>10, <1>11, <1>12, <1>13, <1>14, <1>15 DEF Certificate

LEMMA SchemaKept ==
  ASSUME IInv, UNCHANGED schema, pc \in {"tls", "serve"} \/ pc' = pc,
         pc' = pc \/ pc' \in {"off", "serve"},
         interrupted' \ {"cert", "account"} = interrupted \ {"cert", "account"}
  PROVE  Progress' /\ Units'
<1>1. "schema" \in interrupted' <=> "schema" \in interrupted
  OBVIOUS
<1>2. pc \in {"tls", "serve"} => Versions \ recorded = {}
  BY DEF IInv, Progress
<1>3. Units'
  BY DEF IInv, Units, schema
<1>4. Progress'
  <2>1. CASE pc' = pc
    BY <2>1, <1>1 DEF IInv, Progress, schema
  <2>2. CASE pc' # pc
    BY <2>2, <1>1, <1>2 DEF IInv, Progress, schema
  <2>3. QED
    BY <2>1, <2>2
<1>5. QED
  BY <1>3, <1>4

LEMMA CertificateProgress ==
  ASSUME IInv, Certificate
  PROVE  Progress' /\ Units'
<1> USE DEF IInv, TypeOK, schema
<1>1. UNCHANGED schema
  BY DEF Certificate, UseCached, CachedRefused, FirstCertificate, TryRenew, LoadAccount,
         AccountRefused, StoreAccount, Order, Listen, PortTaken, OrderInvalid, Issue,
         WriteCert, WriteKey, Install
<1>2. pc \in {"tls", "serve"}
  BY DEF Certificate, UseCached, CachedRefused, FirstCertificate, TryRenew, LoadAccount,
         AccountRefused, StoreAccount, Order, Listen, PortTaken, OrderInvalid, Issue,
         WriteCert, WriteKey, Install, InitAcme
<1>3. pc' = pc \/ pc' \in {"off", "serve"}
  BY DEF Certificate, UseCached, CachedRefused, FirstCertificate, TryRenew, LoadAccount,
         AccountRefused, StoreAccount, Order, Listen, PortTaken, OrderInvalid, Issue,
         WriteCert, WriteKey, Install, Exit, Failed, Serve
<1>4. interrupted' \in {interrupted, interrupted \ {"cert"}}
  BY DEF Certificate, UseCached, CachedRefused, FirstCertificate, TryRenew, LoadAccount,
         AccountRefused, StoreAccount, Order, Listen, PortTaken, OrderInvalid, Issue,
         WriteCert, WriteKey, Install
<1>5. QED
  BY <1>1, <1>2, <1>3, <1>4, SchemaKept

(* A step that neither writes the certificate nor installs it. *)
LEMMA PairKept ==
  ASSUME IInv, UNCHANGED <<certFile, keyFile, interrupted>>,
         acq.pc \notin {"write cert", "truncate key", "write key", "install", "accept"},
         acq'.pc \in {"idle", "account", "store account", "order", "listen", "poll"},
         UNCHANGED <<pc, rest, tunnels>> \/ pc' = "off",
         account' = Torn => acq'.pc = "store account" \/ "account" \in interrupted
  PROVE  Paired' /\ Served'
BY DEF IInv, Paired, Served, Writing

LEMMA CertificateServed ==
  ASSUME IInv, Certificate
  PROVE  Paired' /\ Served'
<1> USE DEF IInv
<1>1. CASE FirstCertificate
  <2>1. acq'.pc = "account" /\ acq.pc \in {"idle", "account", "store account", "order", "listen"}
    BY <1>1, AcquireFacts DEF FirstCertificate, InitAcme, Phases
  <2>2. account' = Torn => acq'.pc = "store account" \/ "account" \in interrupted
    BY <1>1, <2>1, StartupAssumptions DEF FirstCertificate, InitAcme, Paired, files
  <2>3. QED
    BY <1>1, <2>1, <2>2, PairKept DEF FirstCertificate, files
<1>2. CASE TryRenew
  <2>1. acq'.pc = "account" /\ acq.pc \in {"idle", "account", "store account", "order", "listen"}
    BY <1>2, AcquireFacts DEF TryRenew, Phases
  <2>2. account' = Torn => acq'.pc = "store account" \/ "account" \in interrupted
    BY <1>2, <2>1, StartupAssumptions DEF TryRenew, Paired, files
  <2>3. QED
    BY <1>2, <2>1, <2>2, PairKept DEF TryRenew, files
<1>3. CASE StoreAccount
  <2>1. acq'.pc = "order" /\ acq.pc \in {"idle", "account", "store account", "order", "listen"}
    BY <1>3, AcquireFacts DEF StoreAccount, Phases
  <2>2. account' = Torn => acq'.pc = "store account" \/ "account" \in interrupted
    BY <1>3, <2>1, StartupAssumptions DEF StoreAccount, Paired, files
  <2>3. QED
    BY <1>3, <2>1, <2>2, PairKept DEF StoreAccount, files
<1>4. CASE Order
  <2>1. acq'.pc = "listen" /\ acq.pc \in {"idle", "account", "store account", "order", "listen"}
    BY <1>4, AcquireFacts DEF Order, Phases
  <2>2. account' = Torn => acq'.pc = "store account" \/ "account" \in interrupted
    BY <1>4, <2>1, StartupAssumptions DEF Order, Paired, files
  <2>3. QED
    BY <1>4, <2>1, <2>2, PairKept DEF Order, files
<1>5. CASE Listen
  <2>1. acq'.pc = "poll" /\ acq.pc \in {"idle", "account", "store account", "order", "listen"}
    BY <1>5, AcquireFacts DEF Listen, Phases
  <2>2. account' = Torn => acq'.pc = "store account" \/ "account" \in interrupted
    BY <1>5, <2>1, StartupAssumptions DEF Listen, Paired, files
  <2>3. QED
    BY <1>5, <2>1, <2>2, PairKept DEF Listen, files
<1>6. CASE LoadAccount
  <2>1. acq.pc = "account" /\ account # Torn
    BY <1>6 DEF LoadAccount
  <2>2. \/ account' = Torn /\ Acquire("store account")
        \/ account' = account /\ Acquire("order")
    BY <1>6 DEF LoadAccount
  <2>3. \/ account' = Torn /\ acq'.pc = "store account"
        \/ account' # Torn /\ acq'.pc = "order"
    BY <2>1, <2>2, AcquireFacts DEF Phases
  <2>4. QED
    BY <1>6, <2>1, <2>3, PairKept DEF LoadAccount
<1>7. CASE AccountRefused
  <2>1. acq.pc = "account" /\ acq'.pc = "idle" /\ (UNCHANGED <<pc, rest, tunnels>> \/ pc' = "off")
    BY <1>7, FailedFacts DEF AccountRefused
  <2>2. account = Torn => "account" \in interrupted
    BY <2>1 DEF Paired
  <2>3. QED
    BY <1>7, <2>1, <2>2, PairKept DEF AccountRefused, files
<1>8. CASE PortTaken
  <2>1. acq.pc = "listen" /\ acq'.pc = "idle" /\ (UNCHANGED <<pc, rest, tunnels>> \/ pc' = "off")
    BY <1>8, FailedFacts DEF PortTaken
  <2>2. account = Torn => "account" \in interrupted
    BY <2>1 DEF Paired
  <2>3. QED
    BY <1>8, <2>1, <2>2, PairKept DEF PortTaken, files
<1>9. CASE OrderInvalid
  <2>1. acq.pc = "poll" /\ acq'.pc = "idle" /\ (UNCHANGED <<pc, rest, tunnels>> \/ pc' = "off")
    BY <1>9, FailedFacts DEF OrderInvalid
  <2>2. account = Torn => "account" \in interrupted
    BY <2>1 DEF Paired
  <2>3. QED
    BY <1>9, <2>1, <2>2, PairKept DEF OrderInvalid, files
<1>10. CASE CachedRefused
  <2>1. acq.pc = "idle" /\ acq'.pc = "idle" /\ pc' = "off"
    BY <1>10, ExitFacts DEF CachedRefused, InitAcme
  <2>2. account = Torn => "account" \in interrupted
    BY <2>1 DEF Paired
  <2>3. QED
    BY <1>10, <2>1, <2>2, PairKept DEF CachedRefused, files
<1>11. CASE UseCached
  <2>1. /\ acq.pc = "idle" /\ acq' = acq /\ rest' = certFile /\ tunnels' = certFile
        /\ UNCHANGED <<certFile, keyFile, account, interrupted>>
    BY <1>11 DEF UseCached, InitAcme, Serve, files
  <2>2. QED
    BY <2>1 DEF Paired, Served, Writing
<1>12. CASE Issue
  <2>1. PICK k \in Keys :
          acq' = [pc |-> "truncate cert", cert |-> [key |-> k, until |-> now + Life]]
    BY <1>12 DEF Issue
  <2>2. acq'.pc = "truncate cert" /\ acq'.cert \in Certs
    <3>1. [key |-> k, until |-> now + Life] \in Certs
      BY StartupAssumptions DEF TypeOK, Certs
    <3>2. QED
      BY <2>1, <3>1
  <2>3. acq.pc = "poll" /\ UNCHANGED <<certFile, keyFile, account, interrupted, pc, rest, tunnels>>
    BY <1>12 DEF Issue, files
  <2>4. QED
    BY <2>2, <2>3 DEF Paired, Served, Writing
<1>13. CASE WriteCert
  <2>1. UNCHANGED <<keyFile, account, interrupted, pc, rest, tunnels>> /\ acq.cert \in Certs
    BY <1>13 DEF WriteCert, Paired
  <2>2. CASE acq.pc = "truncate cert" /\ Acquire("write cert")
    <3>1. acq'.pc = "write cert" /\ acq'.cert = acq.cert
      BY <2>2, AcquireFacts DEF Phases
    <3>2. QED
      BY <2>1, <2>2, <3>1 DEF Paired, Served, Writing
  <2>3. CASE acq.pc = "write cert" /\ Acquire("truncate key") /\ certFile' = acq.cert
    <3>1. acq'.pc = "truncate key" /\ acq'.cert = acq.cert
      BY <2>3, AcquireFacts DEF Phases
    <3>2. QED
      BY <2>1, <2>3, <3>1 DEF Paired, Served, Writing
  <2>4. QED
    BY <1>13, <2>2, <2>3 DEF WriteCert
<1>14. CASE WriteKey
  <2>1. UNCHANGED <<certFile, account, pc, rest, tunnels>> /\ acq.cert \in Certs
    BY <1>14 DEF WriteKey, Paired
  <2>2. CASE acq.pc = "truncate key" /\ Acquire("write key") /\ UNCHANGED interrupted
    <3>1. acq'.pc = "write key" /\ acq'.cert = acq.cert
      BY <2>2, AcquireFacts DEF Phases
    <3>2. QED
      BY <2>1, <2>2, <3>1 DEF Paired, Served, Writing
  <2>3. CASE /\ acq.pc = "write key" /\ Acquire("install") /\ keyFile' = acq.cert.key
             /\ interrupted' = interrupted \ {"cert"}
    <3>1. acq'.pc = "install" /\ acq'.cert = acq.cert
      BY <2>3, AcquireFacts DEF Phases
    <3>2. QED
      BY <2>1, <2>3, <3>1 DEF Paired, Served, Writing
  <2>4. QED
    BY <1>14, <2>2, <2>3 DEF WriteKey
<1>15. CASE Install
  <2>1. /\ UNCHANGED <<certFile, keyFile, account, interrupted>> /\ certFile = acq.cert
        /\ acq.cert \in Certs /\ acq.pc \in {"install", "accept"}
    BY <1>15 DEF Install, Paired, files
  <2>2. CASE acq.pc = "install" /\ pc = "tls" /\ Serve(acq.cert) /\ acq' = Idle
    BY <2>1, <2>2 DEF Paired, Served, Writing, Serve, Idle
  <2>3. CASE acq.pc = "install" /\ pc = "serve" /\ rest' = acq.cert /\ Acquire("accept")
             /\ UNCHANGED <<pc, tunnels>>
    <3>1. acq'.pc = "accept" /\ acq'.cert = acq.cert
      BY <2>3, AcquireFacts DEF Phases
    <3>2. QED
      BY <2>1, <2>3, <3>1 DEF Paired, Served, Writing
  <2>4. CASE acq.pc = "accept" /\ tunnels' = acq.cert /\ acq' = Idle /\ UNCHANGED <<pc, rest>>
    BY <2>1, <2>4 DEF Paired, Served, Writing, Idle
  <2>5. QED
    BY <1>15, <2>2, <2>3, <2>4 DEF Install
<1>16. QED
  BY <1>1, <1>2, <1>3, <1>4, <1>5, <1>6, <1>7, <1>8, <1>9, <1>10, <1>11, <1>12, <1>13, <1>14, <1>15 DEF Certificate

-----------------------------------------------------------------------------
(* The clock, the authority and the faults. *)
LEMMA OtherStep ==
  ASSUME IInv, Tick \/ Validate
  PROVE  IInv'
<1> USE DEF IInv
<1>1. TypeOK'
  <2>1. CASE Tick
    <3>1. now' \in 0 .. MaxTime
      BY <2>1, StartupAssumptions DEF Tick, TypeOK
    <3>2. QED
      BY <2>1, <3>1 DEF TypeOK, Tick, schema, tls, files
  <2>2. CASE Validate
    BY <2>2 DEF TypeOK, Validate, schema, files
  <2>3. QED
    BY <2>1, <2>2
<1>2. UNCHANGED <<schema, files, pc, acq, rest, tunnels, interrupted>>
  BY DEF Tick, Validate, schema, tls, files
<1>3. Progress' /\ Units' /\ Paired' /\ Served'
  BY <1>2 DEF Progress, Units, Paired, Served, Writing, schema, files
<1>4. QED
  BY <1>1, <1>3

(* What a fault cuts short is remembered. *)
LEMMA CutFacts ==
  /\ Cut \subseteq {"cert", "account"}
  /\ Writing <=> "cert" \in Cut
  /\ acq.pc = "store account" <=> "account" \in Cut
BY DEF Cut

(* After a fault there is no acquisition, and the files are as they were. *)
LEMMA FaultServed ==
  ASSUME IInv, UNCHANGED files, acq'.pc = "idle", Cut \subseteq interrupted',
         interrupted \subseteq interrupted',
         pc' = "off" \/ UNCHANGED <<pc, rest, tunnels>>,
         acq.pc \notin {"install", "accept"} \/ pc' = "off"
  PROVE  Paired' /\ Served'
<1>1. ("cert" \notin interrupted' => ~ Writing /\ "cert" \notin interrupted)
      /\ (acq.pc = "store account" => "account" \in interrupted')
  BY CutFacts
<1>2. Paired'
  BY <1>1 DEF IInv, Paired, Writing, files
<1>3. Served'
  BY <1>1 DEF IInv, Served, Writing, files
<1>4. QED
  BY <1>2, <1>3

LEMMA ErrorStep ==
  ASSUME IInv, Error
  PROVE  IInv'
<1> USE DEF IInv
<1>1. /\ acq.pc \notin {"idle", "install", "accept"} /\ UNCHANGED <<now, schema, files>>
      /\ interrupted' = interrupted \cup Cut /\ faults' \in 0 .. MaxFaults
  BY StartupAssumptions DEF Error, Fault, TypeOK
<1>2. /\ acq' \in [pc : Phases, cert : Certs \cup {None}] /\ acq'.pc = "idle"
      /\ order' = "none" /\ port80' \in {"free", "leaked"}
      /\ \/ pc = "tls" /\ pc' = "off" /\ rest' = None /\ tunnels' = None /\ port80' = "free"
         \/ pc = "serve" /\ UNCHANGED <<pc, rest, tunnels>>
  BY FailedFacts DEF Error
<1>3. TypeOK'
  BY <1>1, <1>2, CutFacts DEF TypeOK, schema, files
<1>4. Progress' /\ Units'
  BY <1>1, <1>2, CutFacts, SchemaKept
<1>5. Paired' /\ Served'
  BY <1>1, <1>2, FaultServed
<1>6. QED
  BY <1>3, <1>4, <1>5

LEMMA CrashStep ==
  ASSUME IInv, Crash
  PROVE  IInv'
<1> USE DEF IInv
<1>1. /\ UNCHANGED <<now, schema, files>> /\ faults' \in 0 .. MaxFaults
      /\ interrupted' = interrupted \cup Cut \cup
           (IF Migrating /\ cursor.i > 0 THEN {"schema"} ELSE {})
  BY StartupAssumptions DEF Crash, Fault, TypeOK
<1>2. /\ acq' \in [pc : Phases, cert : Certs \cup {None}] /\ acq'.pc = "idle"
      /\ pc' = "off" /\ rest' = None /\ tunnels' = None
      /\ order' = "none" /\ port80' = "free"
  BY ExitFacts DEF Crash
<1>3. TypeOK'
  BY <1>1, <1>2, CutFacts DEF TypeOK, schema, files
<1>4. Units'
  BY <1>1 DEF Units, schema
<1>5. Progress'
  <2>1. "schema" \notin interrupted' => "schema" \notin interrupted /\ ~ (Migrating /\ cursor.i > 0)
    BY <1>1
  <2>2. ASSUME "schema" \notin interrupted', NEW v \in Versions \ recorded
        PROVE  done[v] = 0
    BY <2>1, <2>2 DEF Progress, Migrating, TypeOK
  <2>3. QED
    BY <1>1, <1>2, <2>2 DEF Progress, schema
<1>6. Paired' /\ Served'
  BY <1>1, <1>2, FaultServed
<1>7. QED
  BY <1>3, <1>4, <1>5, <1>6

-----------------------------------------------------------------------------
LEMMA Stuttering ==
  ASSUME IInv, UNCHANGED vars
  PROVE  IInv'
<1>1. UNCHANGED <<now, pc, recorded, done, unit, cursor, certFile, keyFile, account, rest,
                  tunnels, acq, order, port80, interrupted, faults>>
  BY DEF vars, schema, tls, files
<1>2. TypeOK'
  BY <1>1 DEF IInv, TypeOK
<1>3. Progress' /\ Units' /\ Paired' /\ Served'
  BY <1>1, ZenonT(40) DEF IInv, Progress, Units, Paired, Served, Writing
<1>4. QED
  BY <1>2, <1>3 DEF IInv

(* The inductive invariant. *)
LEMMA Invariance == Spec => []IInv
<1>1. IInv /\ [Next]_vars => IInv'
  <2> SUFFICES ASSUME IInv, [Next]_vars PROVE IInv'
    OBVIOUS
  <2>1. CASE Database
    BY <2>1, DatabaseTypes, DatabaseProgress, DatabaseServed DEF IInv
  <2>2. CASE Certificate
    BY <2>2, CertificateTypes, CertificateProgress, CertificateServed DEF IInv
  <2>3. CASE Tick \/ Validate
    BY <2>3, OtherStep
  <2>4. CASE Error
    BY <2>4, ErrorStep
  <2>5. CASE Crash
    BY <2>5, CrashStep
  <2>6. CASE UNCHANGED vars
    BY <2>6, Stuttering
  <2>7. QED
    BY <2>1, <2>2, <2>3, <2>4, <2>5, <2>6 DEF Next
<1>2. QED
  BY Initially, <1>1, PTL DEF Spec

(* Every variable keeps its type, whatever is interrupted; among others the *)
(* two listeners have certificates exactly while the process serves.        *)
THEOREM StartupTypes == Spec => []TypeOK
<1>1. IInv => TypeOK
  BY DEF IInv
<1>2. QED
  BY <1>1, Invariance, PTL

(* No request is served on a part of the schema, and no time of the audit *)
(* table is divided twice or not at all.                                  *)
THEOREM FullSchema == Spec => []ServesFullSchema
<1>1. IInv => ServesFullSchema
  <2> SUFFICES ASSUME IInv, pc \in {"tls", "serve"} PROVE ServesFullSchema
    BY DEF ServesFullSchema
  <2>1. \A v \in Versions : done[v] = Statements[v]
    BY DEF IInv, Progress
  <2>2. \A c \in Columns : unit[c] = "s"
    BY <2>1, RescaleFacts DEF IInv, Units, Columns
  <2>3. QED
    BY <2>1, <2>2 DEF ServesFullSchema
<1>2. QED
  BY <1>1, Invariance, PTL

(* A boot gets stuck on the disk only after a crash or an error in one of *)
(* the three windows.                                                     *)
THEOREM StuckAfterInterruption == Spec => []StuckOnlyByInterruption
<1>1. IInv => StuckOnlyByInterruption
  <2> SUFFICES ASSUME IInv PROVE StuckOnlyByInterruption
    OBVIOUS
  <2>1. Stuck("schema") => "schema" \in interrupted
    BY DEF Stuck, IInv, TypeOK, Progress, ToExecute, Migrating, Applied, Runs, Current
  <2>2. Stuck("cert") => "cert" \in interrupted
    BY Distinct DEF Stuck, IInv, TypeOK, Paired, InitAcme, CacheUnusable, Cached, Usable, Writing
  <2>3. Stuck("account") => "account" \in interrupted
    BY DEF Stuck, IInv, Paired
  <2>4. QED
    BY <2>1, <2>2, <2>3 DEF StuckOnlyByInterruption
<1>2. QED
  BY <1>1, Invariance, PTL

(* Between renewals the two listeners serve one certificate, the cached one. *)
THEOREM CachedIsServed == Spec => []ServesCached
<1>1. IInv => ServesCached
  BY DEF IInv, Served, ServesCached, Writing
<1>2. QED
  BY <1>1, Invariance, PTL

-----------------------------------------------------------------------------
(* The connection pool of the process, for any requests, size of the pool   *)
(* and number of workers.                                                   *)
(*                                                                          *)
(* PoolTypeOK is inductive: a step of a request either gives it no          *)
(* connection, so that the set Held can only shrink, or happens while one   *)
(* is free.                                                                 *)

LEMMA HeldFinite == IsFiniteSet(Held) /\ Cardinality(Held) \in Nat
<1>1. IsFiniteSet(Requests)
  BY PoolAssumptions, FS_Union DEF Requests
<1>2. IsFiniteSet({1, 2})
  <2>1. IsFiniteSet({1}) /\ IsFiniteSet({2}) /\ {1, 2} = {1} \cup {2}
    BY FS_Singleton
  <2>2. IsFiniteSet({1} \cup {2})
    BY <2>1, FS_Union
  <2>3. QED
    BY <2>1, <2>2
<1>3. IsFiniteSet(Requests \X {1, 2})
  BY <1>1, <1>2, FS_Product
<1>4. IsFiniteSet(Held)
  BY <1>3, FS_Subset, Held \in SUBSET (Requests \X {1, 2}) DEF Held
<1>5. QED
  BY <1>4, FS_CardinalityType

(* A step that gives no connection. *)
LEMMA ConnectionReleased ==
  ASSUME PoolTypeOK, NEW r \in Requests, NEW from, NEW to \in Points,
         Goto(r, from, to), Holds(to) <= Holds(from)
  PROVE  Cardinality(Held') <= MaxSize
<1>1. at' = [at EXCEPT ![r] = to] /\ at[r] = from
  BY DEF Goto
<1>2. \A p : Holds(p) \in Nat
  BY DEF Holds
<1>3. Held' \subseteq Held
  BY <1>1, <1>2 DEF Held, PoolTypeOK
<1>4. Cardinality(Held') <= Cardinality(Held)
  BY <1>3, HeldFinite, FS_Subset
<1>5. IsFiniteSet(Held') /\ Cardinality(Held') \in Nat
  BY <1>3, HeldFinite, FS_Subset, FS_CardinalityType
<1>6. QED
  BY <1>4, <1>5, HeldFinite, PoolAssumptions DEF PoolTypeOK

(* A step that takes a connection. *)
LEMMA ConnectionTaken ==
  ASSUME PoolTypeOK, NEW r \in Requests, NEW from, NEW to \in Points,
         Goto(r, from, to), Holds(to) = Holds(from) + 1, Free
  PROVE  Cardinality(Held') <= MaxSize
<1> DEFINE slot == <<r, Holds(to)>>
<1>1. at' = [at EXCEPT ![r] = to] /\ at[r] = from
  BY DEF Goto
<1>2. \A p : Holds(p) \in Nat
  BY DEF Holds
<1>3. Held' \subseteq Held \cup {slot}
  <2>1. SUFFICES ASSUME NEW x \in Held', x \notin Held PROVE x = slot
    OBVIOUS
  <2>2. PICK s \in Requests, i \in {1, 2} : x = <<s, i>>
    BY <2>1 DEF Held
  <2>3. i <= Holds(at'[s]) /\ ~ (i <= Holds(at[s]))
    BY <2>1, <2>2 DEF Held
  <2>4. s = r
    BY <2>3, <1>1 DEF PoolTypeOK
  <2>5. i <= Holds(to) /\ ~ (i <= Holds(from))
    BY <2>3, <2>4, <1>1 DEF PoolTypeOK
  <2>6. i = Holds(to)
    BY <2>5, <1>2
  <2>7. QED
    BY <2>2, <2>4, <2>6
<1>4. /\ IsFiniteSet(Held \cup {slot})
      /\ Cardinality(Held \cup {slot}) <= Cardinality(Held) + 1
  <2>1. /\ IsFiniteSet(Held \cup {slot})
        /\ Cardinality(Held \cup {slot}) =
             IF slot \in Held THEN Cardinality(Held) ELSE Cardinality(Held) + 1
    BY HeldFinite, FS_AddElement
  <2>2. QED
    BY <2>1, HeldFinite
<1>5. /\ Cardinality(Held') <= Cardinality(Held \cup {slot})
      /\ Cardinality(Held') \in Nat /\ Cardinality(Held \cup {slot}) \in Nat
  BY <1>3, <1>4, FS_Subset, FS_CardinalityType
<1>6. QED
  BY <1>4, <1>5, HeldFinite, PoolAssumptions DEF Free

(* Where a request may go, as far as PoolTypeOK asks. *)
LEMMA RequestMoved ==
  ASSUME PoolTypeOK, NEW r \in Requests, NEW from, NEW to \in Points, Goto(r, from, to),
         r \in Others => to \in {"idle", "auth", "authing", "authed", "get", "job", "answer"},
         r \in Creates => to \notin {"get", "job"},
         Cardinality(Held') <= MaxSize
  PROVE  PoolTypeOK'
BY DEF PoolTypeOK, Goto, Requests

LEMMA PoolTypingInit == PoolInit => PoolTypeOK
<1> SUFFICES ASSUME PoolInit PROVE PoolTypeOK
  OBVIOUS
<1>1. Holds("idle") = 0
  BY DEF Holds, Jobs
<1>2. Held = {}
  BY <1>1 DEF PoolInit, Held
<1>3. Cardinality(Held) <= MaxSize
  BY <1>2, FS_EmptySet, PoolAssumptions
<1>4. QED
  BY <1>3 DEF PoolInit, PoolTypeOK, Points, Requests

LEMMA PoolTypingStep == PoolTypeOK /\ [PoolNext]_at => PoolTypeOK'
<1> SUFFICES ASSUME PoolTypeOK, [PoolNext]_at PROVE PoolTypeOK'
  OBVIOUS
<1> USE DEF Points, GetOnWorker, GetOnBlocking, Jobs, Ready
<1>1. ASSUME NEW r \in Requests, Arrive(r) PROVE PoolTypeOK'
  <2>1. Goto(r, "idle", "auth")
    BY <1>1 DEF Arrive
  <2>2. QED
    BY <2>1, ConnectionReleased, RequestMoved DEF Holds
<1>2. ASSUME NEW r \in Requests, Poll(r) PROVE PoolTypeOK'
  <2>1. CASE Goto(r, "authed", IF r \in Creates THEN "first" ELSE "get")
    <3>1. CASE r \in Creates
      <4>1. r \notin Others
        BY <3>1, PoolAssumptions
      <4>2. QED
        BY <2>1, <3>1, <4>1, ConnectionReleased, RequestMoved DEF Holds
    <3>2. CASE r \notin Creates
      BY <2>1, <3>2, ConnectionReleased, RequestMoved DEF Holds
    <3>3. QED
      BY <3>1, <3>2
  <2>2. ASSUME NEW from \in {"checked", "inserted", "answer"},
               NEW to \in {"inserting", "idle", "third", "audit"},
               Goto(r, from, to), from = "checked" <=> to = "inserting",
               from \in {"checked", "inserted"} \/ to = "idle"
        PROVE  PoolTypeOK'
    <3>1. r \in Others => from = "answer"
      BY <2>2 DEF Goto, PoolTypeOK
    <3>2. Cardinality(Held') <= MaxSize
      BY <2>2, ConnectionReleased DEF Holds
    <3>3. QED
      BY <2>2, <3>1, <3>2, RequestMoved
  <2>3. CASE Goto(r, "looked_up", "audit")
    <3>1. r \notin Others
      BY <2>3 DEF Goto, PoolTypeOK
    <3>2. QED
      BY <2>3, <3>1, ConnectionReleased, RequestMoved DEF Holds
  <2>4. CASE Goto(r, "checked", "idle")
    BY <2>4, ConnectionReleased, RequestMoved DEF Holds
  <2>5. QED
    BY <1>2, <2>1, <2>2, <2>3, <2>4 DEF Poll
<1>3. ASSUME NEW r \in Requests, Connect(r) PROVE PoolTypeOK'
  <2>1. ASSUME NEW from \in {"auth", "get", "first", "second", "third", "audit"},
               NEW to \in {"authing", "job", "second", "checking", "lookup", "auditing"},
               Goto(r, from, to), from = "auth" <=> to = "authing", from = "get" <=> to = "job",
               from = "first" <=> to = "second", from = "second" <=> to = "checking"
        PROVE  PoolTypeOK'
    <3>1. Cardinality(Held') <= MaxSize
      <4>1. Holds(to) = Holds(from) + 1
        BY <2>1 DEF Holds
      <4>2. QED
        BY <1>3, <2>1, <4>1, ConnectionTaken DEF Connect
    <3>2. r \in Others => from \in {"auth", "get"}
      BY <2>1 DEF Goto, PoolTypeOK
    <3>3. r \in Creates => from # "get"
      BY <2>1 DEF Goto, PoolTypeOK
    <3>4. QED
      BY <2>1, <3>1, <3>2, <3>3, RequestMoved
  <2>2. QED
    BY <1>3, <2>1 DEF Connect
<1>4. ASSUME NEW r \in Requests, Timeout(r) PROVE PoolTypeOK'
  <2>1. ASSUME NEW from \in GetOnWorker \cup GetOnBlocking, NEW to \in {"idle", "answer"},
               Goto(r, from, to)
        PROVE  PoolTypeOK'
    <3>1. Cardinality(Held') <= MaxSize
      BY <2>1, ConnectionReleased DEF Holds
    <3>2. QED
      BY <2>1, <3>1, RequestMoved
  <2>2. QED
    BY <1>4, <2>1 DEF Timeout
<1>5. ASSUME NEW r \in Requests, Finish(r) PROVE PoolTypeOK'
  <2>1. ASSUME NEW from \in Jobs, NEW to \in Ready, Goto(r, from, to),
               to = "checked" => from = "checking",
               to \in {"answer", "authed"} \/ from \in {"checking", "inserting", "lookup"}
        PROVE  PoolTypeOK'
    <3>1. Cardinality(Held') <= MaxSize
      BY <2>1, ConnectionReleased DEF Holds
    <3>2. r \in Others => from \in {"authing", "job"}
      BY <2>1 DEF Goto, PoolTypeOK
    <3>3. QED
      BY <2>1, <3>1, <3>2, RequestMoved
  <2>2. QED
    BY <1>5, <2>1 DEF Finish
<1>6. CASE UNCHANGED at
  BY <1>6 DEF PoolTypeOK, Held
<1>7. QED
  BY <1>1, <1>2, <1>3, <1>4, <1>5, <1>6 DEF PoolNext

(* Each request keeps to its handler, and the pool to its size. *)
THEOREM PoolTyping == PoolSpec => []PoolTypeOK
BY PoolTypingInit, PoolTypingStep, PTL DEF PoolSpec

(* Every connection that is out while the gateway is frozen belongs to a   *)
(* request in Waiting, which has one each.                                 *)
LEMMA FrozenHolders ==
  ASSUME PoolTypeOK, Frozen
  PROVE  Held = Waiting \X {1}
<1>1. ASSUME NEW r \in Requests
      PROVE  Holds(at[r]) = IF r \in Waiting THEN 1 ELSE 0
  <2>1. at[r] \notin Jobs
    BY DEF Frozen
  <2>2. at[r] \in {"second", "checked"} => r \in Creates
    BY DEF PoolTypeOK, Requests
  <2>3. QED
    BY <2>1, <2>2 DEF Holds, Waiting, Jobs
<1>2. Waiting \subseteq Requests
  BY DEF Waiting, Requests
<1>3. QED
  BY <1>1, <1>2 DEF Held

LEMMA FrozenFull == PoolTypeOK => FreezeNeedsFullPoolOfCreates
<1> SUFFICES ASSUME PoolTypeOK, Frozen PROVE Cardinality(Waiting) = MaxSize
  BY DEF FreezeNeedsFullPoolOfCreates
<1>1. Cardinality(Held) = MaxSize
  BY HeldFinite, PoolAssumptions DEF PoolTypeOK, Frozen, Free
<1>2. IsFiniteSet(Waiting)
  BY PoolAssumptions, FS_Subset, Waiting \in SUBSET Creates DEF Waiting
<1>3. IsFiniteSet({1}) /\ Cardinality({1}) = 1
  BY FS_Singleton
<1>4. Cardinality(Waiting \X {1}) = Cardinality(Waiting) * 1
  BY <1>2, <1>3, FS_Product
<1>5. Cardinality(Waiting) \in Nat
  BY <1>2, FS_CardinalityType
<1>6. Cardinality(Held) = Cardinality(Waiting \X {1})
  BY FrozenHolders
<1>7. Cardinality(Waiting) * 1 = Cardinality(Waiting)
  BY <1>5
<1>8. QED
  BY <1>1, <1>4, <1>6, <1>7

(* The gateway freezes only when handlers of POST /v1/tunnels have all the *)
(* connections of the pool.                                                *)
THEOREM FreezeByCreates == PoolSpec => []FreezeNeedsFullPoolOfCreates
BY PoolTyping, FrozenFull, PTL
=============================================================================
