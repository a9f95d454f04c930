---------------------------- MODULE MCConfigStore ----------------------------
(* The configuration file: upgraded by load_migrating when it is old, and   *)
(* from then on saved by requests that pause protection, switch it and      *)
(* change something else.  The first is over before the second begins, so a *)
(* behaviour follows one of them and the other stays where it began.        *)
EXTENDS ConfigStore, Migrations, FiniteSets

CONSTANTS
    Followed,  \* the parts a behaviour may follow
    t1, t2

VARIABLE focus

Both == {"upgrade", "store"}

OneThread == {t1}
TwoThreads == {t1, t2}

Protection(enabled, duration) ==
    [kind |-> "protection", enabled |-> enabled, duration |-> duration]
DnsConfig(enabled, valid) ==
    [kind |-> "dns_config", enabled |-> enabled, valid |-> valid]
Other(value) == [kind |-> "other", value |-> value]

Everyday == {Protection(FALSE, 1), Protection(FALSE, 0), Protection(TRUE, 0),
             DnsConfig(FALSE, FALSE), Other(1)}
Settings == {Other(1), Other(2)}
PauseOnly == {Protection(FALSE, 1)}
PauseOrOff == {Protection(FALSE, 1), Protection(FALSE, 0)}
PauseThenOff == {Protection(FALSE, 2), DnsConfig(FALSE, TRUE)}
OffThenRefused == {Protection(FALSE, 0), DnsConfig(TRUE, FALSE)}

\* Documents of version 0 with everything in them, and with up to two of their
\* parts missing or unusual.
Server(scheme, authority) == <<"server", [scheme |-> scheme, authority |-> authority]>>

DnsFields ==
    [bootstrap_dns |-> Str("9.9.9.10"), bind_host |-> Str("10.0.0.1"),
     autohost_tld |-> Str("lan"), resolve_clients |-> Bool(TRUE),
     upstream_dns |-> List(<<Server("quic", "host"), Server("quic", "host:853"),
                             Server("https", "host")>>),
     querylog_interval |-> Num(7), querylog_enabled |-> Bool(FALSE),
     safesearch_enabled |-> Bool(FALSE), protection_enabled |-> Bool(FALSE),
     blocked_services |-> List(<<Str("svc")>>), edns_client_subnet |-> Bool(TRUE),
     fastest_addr |-> Bool(TRUE), cache_size |-> Num(0)]

\* One alternative for each part of a document; the first is the usual one.
Parts ==
    [dns |-> <<"coredns", "bare", "none">>,
     interval |-> <<"days", "zero", "none">>,
     dhcp |-> <<"yes", "none">>,
     tls |-> <<"yes", "none">>,
     bind |-> <<"10.0.0.1", "::1", "nonsense", "none">>,
     auth |-> <<"both", "name", "none">>,
     clients |-> <<"map", "scalar", "none">>,
     filters |-> <<"path", "url", "none">>]

PartChoices == [DOMAIN Parts -> 1..4]
UsedChoices ==
    {c \in PartChoices :
        /\ \A part \in DOMAIN Parts : c[part] <= Len(Parts[part])
        /\ Cardinality({part \in DOMAIN Parts : c[part] # 1}) <= 2}

None == [p \in {} |-> Str("")]
Fields(at, f) == WithMap(None, at, f)

Doc(c) ==
    LET Is(part) == Parts[part][c[part]]
        dns == CASE Is("dns") = "coredns" ->
                        (IF Is("interval") = "none" THEN None
                         ELSE <<"coredns", "statistics_interval">> :>
                                Num(IF Is("interval") = "zero" THEN 0 ELSE 7))
                        @@ (<<"coredns", "rewrites">> :> Maps)
                        @@ Fields(<<"coredns", "rewrites", "*">>, [domain |-> Str("d")])
                        @@ Fields(<<"coredns">>, DnsFields)
                 [] Is("dns") = "bare" -> <<"coredns">> :> Map
                 [] OTHER -> None
        dhcp == IF Is("dhcp") = "yes"
                THEN Fields(<<"dhcp">>, [gateway_ip |-> Str("10.0.0.1"), lease_duration |-> Num(9)])
                ELSE None
        tls == IF Is("tls") = "yes"
               THEN Fields(<<"tls">>, [allow_unencrypted_doh |-> Bool(TRUE)]) ELSE None
        bind == IF Is("bind") = "none" THEN None ELSE <<"bind_host">> :> Str(Is("bind"))
        auth == CASE Is("auth") = "both" ->
                        (<<"auth_name">> :> Str("n")) @@ (<<"auth_pass">> :> Str("p"))
                  [] Is("auth") = "name" -> <<"auth_name">> :> Str("n")
                  [] OTHER -> None
        clients == CASE Is("clients") = "map" ->
                            (<<"clients">> :> Maps)
                            @@ Fields(<<"clients", "*">>,
                                [ip |-> Str("10.0.0.2"), mac |-> Str(""),
                                 safesearch_enabled |-> Bool(FALSE),
                                 blocked_services |-> List(<<Str("svc")>>)])
                     [] Is("clients") = "scalar" ->
                            (<<"clients">> :> Maps) @@ (<<"clients", "*">> :> Str("x"))
                     [] OTHER -> None
        filters == IF Is("filters") = "none" THEN None
                   ELSE (<<"filters">> :> Maps)
                        @@ Fields(<<"filters", "*">>, [url |-> <<Is("filters"), "list">>])
    IN  dns @@ dhcp @@ tls @@ bind @@ auth @@ clients @@ filters
        @@ Fields(<<>>, [bind_port |-> Num(3000), web_session_ttl |-> Num(720),
                         debug_pprof |-> Bool(TRUE), rlimit_nofile |-> Num(1),
                         verbose |-> Bool(TRUE)])

OldDocuments == {Doc(c) : c \in UsedChoices}
SomeReleases == {0, 15, 23, 33}

FileInit ==
    /\ focus \in Followed
    /\ StoreInit
    /\ IF focus = "upgrade" THEN MigrationInit
       ELSE /\ tree = None /\ onDisk = None /\ wanted = None
            /\ litter = {} /\ upgrading = "refused"

FileNext ==
    \/ focus = "store" /\ StoreNext /\ UNCHANGED <<focus, migrationVars>>
    \/ focus = "upgrade" /\ MigrationNext /\ UNCHANGED <<focus, storeVars>>

\* The fairness of the store is assumed where the store runs.
FileSpec ==
    /\ FileInit /\ [][FileNext]_<<focus, storeVars, migrationVars>>
    /\ focus = "store" => StoreFairness
=============================================================================
