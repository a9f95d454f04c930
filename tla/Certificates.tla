---------------------------- MODULE Certificates ----------------------------
(***************************************************************************)
(* The certificate of the encrypted listeners (sift-dns/src/tls.rs): the   *)
(* reloadable slot, the saves that install into it (sift/src/wiring.rs:    *)
(* reload_certificate, handlers/misc.rs: tls_configure), and the watch     *)
(* that picks up what a renewal tool left on disk (sift/src/main.rs:       *)
(* CertWatch, load_tls).                                                   *)
(*                                                                         *)
(* A certificate and a key are the number of the pair they belong to, and  *)
(* 0 is a file that is being rewritten and holds nothing that parses.  A   *)
(* part of a source is <<>> when it is read from its file, and <<n>> when  *)
(* the settings hold it.                                                   *)
(***************************************************************************)
EXTENDS Integers, FiniteSets

CONSTANTS
    TlsRequests,    \* the settings /control/tls/configure is sent
    MaxIssued,      \* bound on the pairs the renewal tool issues
    Lifetime,       \* pair n expires at n * Lifetime
    ExpiryWarning,  \* EXPIRY_WARNING
    WarningEvery,   \* EXPIRY_WARNING_EVERY
    MaxCertTime     \* bound on the clock

ASSUME CertificateAssumption ==
    /\ MaxIssued \in Nat /\ MaxCertTime \in Nat
    /\ Lifetime \in Nat /\ ExpiryWarning \in Nat /\ WarningEvery \in Nat \ {0}
    /\ \A tls \in TlsRequests, part \in {"cert", "key"} :
            tls.src[part] = <<>> \/ tls.src[part][1] \in Nat

VARIABLES
    disk,        \* what the two files hold
    issued,      \* the pair the renewal tool is writing, or wrote
    tlsConfig,   \* the tls block: whether it is enabled, and the source
    slot,        \* Reloadable::current: none or one pair
    encrypted,   \* what load_tls reported when the process started
    installing,  \* the watch and the save, on their way to an install
    certTime,
    warned,      \* CertWatch::warned: none or one time
    quiet        \* ghost: what happened since the last round of the watch began

certVars == <<disk, issued, tlsConfig, slot, encrypted, installing, certTime, warned, quiet>>

Installers == {"watch", "save"}
AtRest == [at |-> "rest"]
Resting(i) == installing[i] = AtRest

\* Source::reads_files.
ReadsFiles(src) == src.cert = <<>> \/ src.key = <<>>

\* Source::cert_pem and key_pem.
Pem(src, part) == IF src[part] = <<>> THEN disk[part] ELSE src[part][1]

\* parse_chain and parse_key.
Parses(part) == part # 0

\* Mutant of Builds: the pair is not proven before it is installed.
BuildsUnproven(cert, key) == Parses(cert) /\ Parses(key)

\* build: both parse, and the key is the certificate's.
Builds(cert, key) == Parses(cert) /\ Parses(key) /\ cert = key

\* inspect: valid_cert and valid_pair of a source that is not installed.
Inspect(src) ==
    [validCert |-> Parses(Pem(src, "cert")),
     validPair |-> Builds(Pem(src, "cert"), Pem(src, "key"))]

\* load_tls: at the start, and never again before the next one.
LoadTls(tls) ==
    LET cert == Pem(tls.src, "cert")
        key  == Pem(tls.src, "key")
    IN  IF tls.enabled /\ Builds(cert, key) THEN {[cert |-> cert, key |-> key]} ELSE {}

CertInit ==
    /\ disk = [part \in {"cert", "key"} |-> 1]
    /\ issued = 1
    /\ tlsConfig \in TlsRequests
    /\ tlsConfig.enabled => Pem(tlsConfig.src, "cert") = Pem(tlsConfig.src, "key")
    /\ slot = LoadTls(tlsConfig)
    /\ encrypted = (slot # {})
    /\ installing = [i \in Installers |-> AtRest]
    /\ certTime = 0
    /\ warned = {}
    /\ quiet = "no"

-----------------------------------------------------------------------------
(* The renewal tool: it rewrites the two files in either order, and each   *)
(* is empty for a while.                                                   *)

IssuePair ==
    /\ issued < MaxIssued
    /\ \A part \in {"cert", "key"} : disk[part] = issued
    /\ issued' = issued + 1
    /\ UNCHANGED <<disk, tlsConfig, slot, encrypted, installing, certTime, warned, quiet>>

WritePart(part) ==
    /\ disk[part] # issued
    /\ disk' = [disk EXCEPT ![part] = IF @ = 0 THEN issued ELSE 0]
    /\ quiet' = "no"
    /\ UNCHANGED <<issued, tlsConfig, slot, encrypted, installing, certTime, warned>>

CertTick ==
    /\ certTime < MaxCertTime
    /\ certTime' = certTime + 1
    /\ quiet' = "no"
    /\ UNCHANGED <<disk, issued, tlsConfig, slot, encrypted, installing, warned>>

-----------------------------------------------------------------------------
(* Installs: both read the certificate, then the key, prove the pair, and  *)
(* put it into the slot; the watch leaves it alone when the digest of what *)
(* it read is the served pair's.                                           *)

\* reload_certificate: the save goes on to install what it stored.
ReloadCertificate(tls) ==
    installing' = IF tls.enabled
                  THEN [installing EXCEPT !["save"] = [at |-> "cert", src |-> tls.src, got |-> 0]]
                  ELSE installing

\* settings_to_config and save_config, and the copy reload works from.
\* Saves of other settings come here with the tls block they found.
StoreSettings(tls) ==
    /\ Resting("save")
    /\ tlsConfig' = tls
    /\ ReloadCertificate(tls)
    /\ quiet' = "no"
    /\ UNCHANGED <<disk, issued, slot, encrypted, certTime, warned>>

\* tls_configure: encryption is not enabled with a pair that cannot be served,
\* and a certificate that does not parse is refused.
TlsConfigure(tls) ==
    /\ tls.enabled => Inspect(tls.src).validPair
    /\ Inspect(tls.src).validCert
    /\ StoreSettings(tls)

\* CertWatch::check: the source is copied and the lock released.  The watch
\* exists only when encryption could run.
BeginWatch ==
    /\ encrypted
    /\ Resting("watch")
    /\ quiet' = IF Resting("save") THEN "watched" ELSE "no"
    /\ installing' = [installing EXCEPT !["watch"] =
            IF tlsConfig.enabled /\ ReadsFiles(tlsConfig.src)
            THEN [at |-> "cert", src |-> tlsConfig.src, got |-> 0]
            ELSE [at |-> "warn"]]
    /\ UNCHANGED <<disk, issued, tlsConfig, slot, encrypted, certTime, warned>>

ReadCert(i) ==
    /\ installing[i].at = "cert"
    /\ installing' = [installing EXCEPT ![i] =
            [at |-> "key", src |-> @.src, got |-> Pem(@.src, "cert")]]
    /\ UNCHANGED <<disk, issued, tlsConfig, slot, encrypted, certTime, warned, quiet>>

ReadKey(i) ==
    /\ installing[i].at = "key"
    /\ installing' = [installing EXCEPT ![i] =
            [at |-> "install", pair |-> [cert |-> @.got, key |-> Pem(@.src, "key")]]]
    /\ UNCHANGED <<disk, issued, tlsConfig, slot, encrypted, certTime, warned, quiet>>

\* refresh has nothing to do for the pair that is served; install always has.
Replaces(i, pair) == i = "watch" => slot # {pair}

\* install_pem and Reloadable::set: a pair that is not proven leaves the slot
\* as it is.
InstallPem(pair) == IF Builds(pair.cert, pair.key) THEN {pair} ELSE slot

\* CertWatch::reload, and the end of reload_certificate.  A pair the watch
\* installed gets its own warning.
Install(i) ==
    LET pair == installing[i].pair
    IN  /\ installing[i].at = "install"
        /\ slot' = IF Replaces(i, pair) THEN InstallPem(pair) ELSE slot
        /\ warned' = IF i = "watch" /\ slot' # slot THEN {} ELSE warned
        /\ installing' = [installing EXCEPT ![i] = IF i = "watch" THEN [at |-> "warn"] ELSE AtRest]
        /\ UNCHANGED <<disk, issued, tlsConfig, encrypted, certTime, quiet>>

\* warn_if_expiring and expiry: at most one warning in an hour, and none
\* for a certificate that has time in hand.
WarnIfExpiring ==
    LET left == {p.cert * Lifetime - certTime : p \in slot}
    IN  /\ installing["watch"].at = "warn"
        /\ warned' = IF \A l \in left : l > ExpiryWarning
                     THEN IF left = {} THEN warned ELSE {}
                     ELSE IF \E w \in warned : certTime - w < WarningEvery THEN warned ELSE {certTime}
        /\ installing' = [installing EXCEPT !["watch"] = AtRest]
        /\ quiet' = IF quiet = "watched" THEN "settled" ELSE quiet
        /\ UNCHANGED <<disk, issued, tlsConfig, slot, encrypted, certTime>>

\* The process is started again, at any moment of a renewal.
RestartTls ==
    /\ slot' = LoadTls(tlsConfig)
    /\ encrypted' = (slot' # {})
    /\ installing' = [i \in Installers |-> AtRest]
    /\ warned' = {}
    /\ quiet' = "no"
    /\ UNCHANGED <<disk, issued, tlsConfig, certTime>>

CertNext ==
    \/ IssuePair \/ CertTick \/ BeginWatch \/ WarnIfExpiring \/ RestartTls
    \/ \E part \in {"cert", "key"} : WritePart(part)
    \/ StoreSettings(tlsConfig) \/ \E tls \in TlsRequests : TlsConfigure(tls)
    \/ \E i \in Installers : ReadCert(i) \/ ReadKey(i) \/ Install(i)

CertSpec == CertInit /\ [][CertNext]_certVars

-----------------------------------------------------------------------------
\* The pair that is served is one key and its certificate at every moment of
\* a renewal, and encrypted listeners always have one; and when a round of
\* the watch passes with no save beside it and the files at rest, what is
\* served is what the files hold, and an operator who has less than
\* ExpiryWarning left was told within WarningEvery
\* (tls.rs: refresh, install_pem; main.rs: CertWatch::check, expiry).
CertificateFollows ==
    /\ \A p \in slot : p.cert = p.key /\ p.cert # 0
    /\ encrypted => slot # {}
    /\ quiet = "settled" =>
        /\ (/\ tlsConfig.enabled /\ ReadsFiles(tlsConfig.src)
            /\ Builds(Pem(tlsConfig.src, "cert"), Pem(tlsConfig.src, "key")))
           => slot = {[cert |-> Pem(tlsConfig.src, "cert"), key |-> Pem(tlsConfig.src, "key")]}
        /\ \A p \in slot : p.cert * Lifetime - certTime <= ExpiryWarning
                => \E w \in warned : certTime - w < WarningEvery

\* The pair of the settings is the one that is served once neither the watch
\* nor a save is under way ("PEM held inline in the config is replaced
\* through /control/tls/configure, which installs it itself", tls.rs:41-43).
\* A round of the watch that copied the files' source before the save, and
\* installs after it, leaves the files' pair, which no later round replaces.
InlineIsServed ==
    (/\ \A i \in Installers : Resting(i)
     /\ encrypted /\ tlsConfig.enabled /\ ~ReadsFiles(tlsConfig.src))
        => \A p \in slot : p.cert = Pem(tlsConfig.src, "cert")

\* Encryption that is enabled runs.  It does not after a start in the middle
\* of a renewal, and nothing tries again before the next start (main.rs:519).
EnabledRuns ==
    (/\ \A i \in Installers : Resting(i)
     /\ tlsConfig.enabled) => slot # {}
=============================================================================
