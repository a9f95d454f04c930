----------------------------- MODULE Migrations -----------------------------
(***************************************************************************)
(* Upgrading an older configuration file (sift-config/src/migrate.rs and   *)
(* load_migrating of file.rs).                                             *)
(*                                                                         *)
(* A YAML document is a function from paths to tagged values.  A mapping   *)
(* or a list of mappings has a value of its own at its path, and its       *)
(* fields below it; every element of a list of mappings is treated alike,  *)
(* so one element, at index "*", stands for all of them.                   *)
(***************************************************************************)
EXTENDS Integers, Sequences, SequencesExt, TLC

CONSTANTS
    Target,         \* sift_core::SCHEMA_VERSION
    Documents,      \* the version 0 documents that are upgraded
    Releases        \* versions at which an older build last wrote the file

VARIABLES
    onDisk,         \* the configuration file
    tree,           \* the document being upgraded, in memory
    wanted,         \* the file as its user last left it
    litter,         \* the files that early versions used and later ones delete
    upgrading       \* what is reading the file: see UpgradePhases

migrationVars == <<onDisk, tree, wanted, litter, upgrading>>

UpgradePhases == {"older", "stopped", "steps", "save", "serving", "refused"}

-----------------------------------------------------------------------------
(* Values and paths. *)

Str(s) == <<"str", s>>
Num(n) == <<"int", n>>
Bool(b) == <<"bool", b>>
List(s) == <<"seq", s>>         \* a list of scalars
Hours(n) == <<"hours", n>>      \* a duration, written "<n>h"
Map == <<"map">>
Maps == <<"maps">>              \* a list of mappings

Has(d, p) == p \in DOMAIN d
IsMap(d, p) == Has(d, p) /\ d[p] = Map
IsList(d, p) == Has(d, p) /\ (d[p] = Maps \/ d[p][1] = "seq")
Below(d, p) == {q \in DOMAIN d : IsPrefix(p, q)}

\* Value::as_i64 and as_bool, with the default of unwrap_or.
AsInt(d, p, default) == IF Has(d, p) /\ d[p][1] = "int" THEN d[p][2] ELSE default
AsBool(d, p) == Has(d, p) /\ d[p] = Bool(TRUE)
ValueOr(d, p, default) == IF Has(d, p) THEN d[p] ELSE default

Without(d, p) == [q \in DOMAIN d \ Below(d, p) |-> d[q]]
With(d, p, v) == (p :> v) @@ Without(d, p)

\* mapping: a mapping with the scalar fields f, inserted at p.
WithMap(d, p, f) ==
    [q \in {p \o <<k>> : k \in DOMAIN f} |-> f[q[Len(q)]]] @@ With(d, p, Map)

\* move_val and move_same: nothing happens when the source is absent.
Move(d, src, dst) ==
    IF ~Has(d, src) THEN d
    ELSE LET moved == {dst \o SubSeq(q, Len(src) + 1, Len(q)) : q \in Below(d, src)}
         IN  [q \in moved |-> d[src \o SubSeq(q, Len(dst) + 1, Len(q))]]
                @@ Without(Without(d, src), dst)

\* The moves of a sequence of <<from, to>> keys out of src and into dst.
MoveKeys(d, src, dst, keys) ==
    FoldLeft(LAMBDA e, k : Move(e, src \o <<k[1]>>, dst \o <<k[2]>>), d, keys)

Same(keys) == [i \in 1..Len(keys) |-> <<keys[i], keys[i]>>]

\* A block that is inserted only when a key moved into it.
MoveToBlock(d, src, dst, keys) ==
    IF \E i \in 1..Len(keys) : Has(d, src \o <<keys[i][1]>>)
    THEN MoveKeys(With(d, dst, Map), src, dst, keys)
    ELSE d

DNS == <<"dns">>
Client == <<"clients", "persistent", "*">>

\* default_safe_search: the six engines stand for one field.
default_safe_search == [enabled |-> Bool(TRUE), engines |-> Bool(TRUE)]

schema_version(d) ==
    LET v == AsInt(d, <<"schema_version">>, 0) IN IF v < 0 THEN 0 ELSE v

-----------------------------------------------------------------------------
(* The steps: to_N(d) is the document of schema N.  The conditions under   *)
(* which a step returns an error are in Refuses.                           *)

to_2(d) == Move(d, <<"coredns">>, DNS)

to_3(d) ==
    LET p == <<"dns", "bootstrap_dns">>
    IN  IF IsMap(d, DNS) /\ Has(d, p) THEN With(d, p, List(<<d[p]>>)) ELSE d

to_4(d) ==
    IF IsMap(d, <<"clients", "*">>)
    THEN With(d, <<"clients", "*", "use_global_blocked_services">>, Bool(TRUE))
    ELSE d

\* The name is taken from the root whether or not there is a password for it.
to_5(d) ==
    LET bare == Without(Without(d, <<"auth_name">>), <<"auth_pass">>)
        user == WithMap(With(bare, <<"users">>, Maps), <<"users", "*">>,
                        [password |-> <<"hash", d[<<"auth_pass">>][2]>>])
    IN  CASE ~Has(d, <<"auth_pass">>) -> bare
          [] Has(d, <<"auth_pass">>) /\ Has(d, <<"auth_name">>) -> With(user, <<"users", "*", "name">>, d[<<"auth_name">>])
          [] OTHER -> user

to_6(d) ==
    LET Id(k) == LET p == <<"clients", "*", k>>
                 IN  IF Has(d, p) /\ d[p] # Str("") THEN <<d[p]>> ELSE <<>>
    IN  IF Has(d, <<"clients", "*">>)
        THEN With(d, <<"clients", "*", "ids">>, List(Id("ip") \o Id("mac")))
        ELSE d

to_7(d) ==
    LET v4 == <<"dhcp", "dhcpv4">>
    IN  IF IsMap(d, <<"dhcp">>)
        THEN MoveKeys(With(d, v4, Map), <<"dhcp">>, v4,
                Same(<<"gateway_ip", "subnet_mask", "range_start", "range_end",
                       "lease_duration", "icmp_timeout_msec">>))
        ELSE d

to_8(d) ==
    LET p == <<"dns", "bind_host">>
    IN  IF IsMap(d, DNS) /\ Has(d, p)
        THEN With(Without(d, p), <<"dns", "bind_hosts">>, List(<<d[p]>>))
        ELSE d

to_9(d) == Move(d, <<"dns", "autohost_tld">>, <<"dns", "local_domain_name">>)

\* add_quic_port: a server's specification is its scheme and what follows it;
\* only a bare host gets the port, whether or not domains precede it.
add_quic_port(u) ==
    IF u[2].scheme = "quic" /\ u[2].authority = "host"
    THEN <<"server", [u[2] EXCEPT !.authority = "host:784"]>>
    ELSE u

to_10(d) ==
    [p \in DOMAIN d |->
        IF p \in {<<"dns", "upstream_dns">>, <<"dns", "local_ptr_upstreams">>} /\ IsList(d, p)
        THEN List([i \in 1..Len(d[p][2]) |-> add_quic_port(d[p][2][i])])
        ELSE d[p]]

to_11(d) ==
    WithMap(Without(d, <<"rlimit_nofile">>), <<"os">>,
            [group |-> Str(""), user |-> Str(""),
             rlimit_nofile |-> ValueOr(d, <<"rlimit_nofile">>, Num(0))])

to_12(d) ==
    LET p == <<"dns", "querylog_interval">>
    IN  IF IsMap(d, DNS) THEN With(d, p, Hours(24 * AsInt(d, p, 90))) ELSE d

\* Without a dhcp block the name is dropped.
to_13(d) ==
    IF IsMap(d, <<"dhcp">>)
    THEN Move(d, <<"dns", "local_domain_name">>, <<"dhcp", "local_domain_name">>)
    ELSE Without(d, <<"dns", "local_domain_name">>)

to_14(d) ==
    LET c == <<"clients">>
        persistent == <<"clients", "persistent">>
        moved == IF IsList(d, c) THEN Move(d, c, persistent)
                 ELSE With(Without(d, c), persistent, Maps)
        rdns == <<"dns", "resolve_clients">>
    IN  WithMap((c :> Map) @@ Without(moved, rdns), <<"clients", "runtime_sources">>,
            [whois |-> Bool(TRUE), arp |-> Bool(TRUE), rdns |-> ValueOr(d, rdns, Bool(FALSE)),
             dhcp |-> Bool(TRUE), hosts |-> Bool(TRUE)])

\* Mutant of to_15: the defaults are inserted after the old values.
to_15DefaultsLast(d) ==
    WithMap(MoveKeys(d, DNS, <<"querylog">>, << <<"querylog_interval", "interval">> >>),
            <<"querylog">>, [ignored |-> List(<<>>), enabled |-> Bool(TRUE),
                             file_enabled |-> Bool(TRUE), interval |-> Hours(2160),
                             size_memory |-> Num(1000)])

to_15(d) ==
    MoveKeys(WithMap(d, <<"querylog">>,
                     [ignored |-> List(<<>>), enabled |-> Bool(TRUE), file_enabled |-> Bool(TRUE),
                      interval |-> Hours(2160), size_memory |-> Num(1000)]),
             DNS, <<"querylog">>,
             << <<"querylog_enabled", "enabled">>, <<"querylog_file_enabled", "file_enabled">>,
                <<"querylog_interval", "interval">>, <<"querylog_size_memory", "size_memory">> >>)

\* An interval of zero meant off.
to_16(d) ==
    LET p == <<"dns", "statistics_interval">>
        ivl == AsInt(d, p, 0)
    IN  IF IsMap(d, DNS) /\ Has(d, p)
        THEN WithMap(Without(d, p), <<"statistics">>,
                     [enabled |-> Bool(ivl # 0), interval |-> Num(IF ivl = 0 THEN 1 ELSE ivl),
                      ignored |-> List(<<>>)])
        ELSE d

to_17(d) ==
    LET p == <<"dns", "edns_client_subnet">>
    IN  IF IsMap(d, DNS)
        THEN WithMap(d, p, [enabled |-> Bool(AsBool(d, p)), use_custom |-> Bool(FALSE),
                            custom_ip |-> Str("")])
        ELSE d

\* to_18 for the dns block and to_19 for each persistent client.
SafeSearchBlock(d, at) ==
    LET p == at \o <<"safesearch_enabled">>
    IN  WithMap(Without(d, p), at \o <<"safe_search">>,
                [default_safe_search EXCEPT !.enabled = ValueOr(d, p, @)])

to_18(d) == IF IsMap(d, DNS) THEN SafeSearchBlock(d, DNS) ELSE d
to_19(d) == IF IsMap(d, Client) THEN SafeSearchBlock(d, Client) ELSE d

to_20(d) ==
    LET p == <<"statistics", "interval">>
        days == AsInt(d, p, 0)
    IN  IF IsMap(d, <<"statistics">>)
        THEN With(d, p, Hours(24 * (IF days = 0 THEN 1 ELSE days)))
        ELSE d

\* The block of to_21 and to_22, with the identifiers, if any, inside.
ServicesBlock(d, at) ==
    LET p == at \o <<"blocked_services">>
        ids == IF Has(d, p) THEN [ids |-> d[p]] ELSE <<>>
    IN  WithMap(WithMap(d, p, ids), p \o <<"schedule">>, [time_zone |-> Str("Local")])

to_21(d) == IF IsMap(d, DNS) THEN ServicesBlock(d, DNS) ELSE d
to_22(d) ==
    IF Has(d, Client \o <<"blocked_services">>) THEN ServicesBlock(d, Client) ELSE d

\* Without a bind_host there is no http block, and the port and the session
\* lifetime stay where nothing reads them.
to_23(d) ==
    LET host == d[<<"bind_host">>][2]
        bare == Without(Without(Without(d, <<"bind_host">>), <<"bind_port">>),
                        <<"web_session_ttl">>)
    IN  IF Has(d, <<"bind_host">>)
        THEN WithMap(bare, <<"http">>,
                [address |-> <<"address", [host |-> host, bracketed |-> host = "::1",
                                           port |-> AsInt(d, <<"bind_port">>, 0)]>>,
                 session_ttl |-> Hours(AsInt(d, <<"web_session_ttl">>, 0))])
        ELSE d

to_24(d) ==
    MoveToBlock(d, <<>>, <<"log">>,
        << <<"log_file", "file">>, <<"log_max_backups", "max_backups">>,
           <<"log_max_size", "max_size">>, <<"log_max_age", "max_age">>,
           <<"log_compress", "compress">>, <<"log_localtime", "local_time">>,
           <<"verbose", "verbose">> >>)

\* The flag is removed whether or not there is an http block to take it.
to_25(d) ==
    LET bare == Without(d, <<"debug_pprof">>)
    IN  IF IsMap(d, <<"http">>)
        THEN WithMap(bare, <<"http", "pprof">>,
                     [enabled |-> ValueOr(d, <<"debug_pprof">>, Bool(FALSE)), port |-> Num(6060)])
        ELSE bare

to_26(d) ==
    IF IsMap(d, DNS)
    THEN MoveToBlock(d, DNS, <<"filtering">>,
            Same(<<"filtering_enabled", "filters_update_interval", "parental_enabled",
                   "safebrowsing_enabled", "safebrowsing_cache_size", "safesearch_cache_size",
                   "parental_cache_size", "safe_search", "rewrites", "blocked_services",
                   "protection_enabled", "blocking_mode", "blocking_ipv4", "blocking_ipv6",
                   "blocked_response_ttl", "protection_disabled_until", "parental_block_host",
                   "safebrowsing_block_host">>))
    ELSE d

IgnoreLists == {<<"querylog", "ignored">>, <<"statistics", "ignored">>}

to_27(d) ==
    [p \in DOMAIN d |->
        IF p \in IgnoreLists /\ IsList(d, p)
        THEN List([i \in 1..Len(d[p][2]) |->
                    IF d[p][2][i] = Str(".") THEN Str("|.^") ELSE d[p][2][i]])
        ELSE d[p]]

to_28(d) ==
    LET all == <<"dns", "all_servers">>
        fastest == <<"dns", "fastest_addr">>
        mode == CASE AsBool(d, all) -> "parallel"
                  [] ~AsBool(d, all) /\ AsBool(d, fastest) -> "fastest_addr"
                  [] OTHER -> "load_balance"
    IN  IF IsMap(d, DNS)
        THEN With(Without(Without(d, all), fastest), <<"dns", "upstream_mode">>, Str(mode))
        ELSE d

\* A local list is one whose URL is an absolute path.
to_29(d) ==
    LET url == <<"filters", "*", "url">>
        own == IF Has(d, url) /\ d[url][1] = "path" THEN <<d[url]>> ELSE <<>>
    IN  IF IsList(d, <<"filters">>) /\ IsMap(d, <<"filtering">>)
        THEN With(d, <<"filtering", "safe_fs_patterns">>, List(<<Str("userfilters/*")>> \o own))
        ELSE d

to_30(d) ==
    LET size == <<"dns", "cache_size">>
    IN  IF Has(d, size) /\ d[size][1] = "int"
        THEN With(d, <<"dns", "cache_enabled">>, Bool(d[size][2] > 0))
        ELSE d

to_31(d) ==
    IF IsMap(d, <<"filtering", "rewrites", "*">>)
    THEN With(d, <<"filtering", "rewrites", "*", "enabled">>, Bool(TRUE))
    ELSE d

to_32(d) ==
    IF IsMap(d, DNS)
    THEN With(With(d, <<"dns", "cache_optimistic_answer_ttl">>, Str("30s")),
              <<"dns", "cache_optimistic_max_age">>, Hours(12))
    ELSE d

to_33(d) ==
    LET on == {p \in IgnoreLists : IsList(d, p)}
    IN  [q \in {<<p[1], "ignored_enabled">> : p \in on} |->
            Bool(d[<<q[1], "ignored">>][2] # <<>>)] @@ d

\* The flag is removed from tls whether or not there is an http block to take it.
to_34(d) ==
    LET flag == <<"tls", "allow_unencrypted_doh">>
        doh == <<"http", "doh">>
    IN  IF IsMap(d, <<"http">>)
        THEN Move(WithMap(d, doh, [routes |-> Str("four routes")]), flag,
                  doh \o <<"insecure_enabled">>)
        ELSE Without(d, flag)

\* The documents that the step to version n returns an error for.
Refuses(d, n) ==
    LET NotMaps(p) == Has(d, p) /\ d[p] # Map
    IN  \/ n = 6 /\ NotMaps(<<"clients", "*">>)
        \/ n = 22 /\ NotMaps(Client)
        \/ n = 29 /\ NotMaps(<<"filters", "*">>)
        \/ n = 10 /\ \E p \in {<<"dns", "upstream_dns">>, <<"dns", "local_ptr_upstreams">>} :
                /\ IsMap(d, DNS) /\ IsList(d, p)
                /\ \E i \in 1..Len(d[p][2]) : d[p][2][i][1] # "server"
        \/ n = 23 /\ Has(d, <<"bind_host">>) /\ d[<<"bind_host">>][2] \notin {"10.0.0.1", "::1"}

\* step
MigrationStep(d, n) ==
    CASE n = 1 -> d          [] n = 2 -> to_2(d)     [] n = 3 -> to_3(d)
      [] n = 4 -> to_4(d)    [] n = 5 -> to_5(d)     [] n = 6 -> to_6(d)
      [] n = 7 -> to_7(d)    [] n = 8 -> to_8(d)     [] n = 9 -> to_9(d)
      [] n = 10 -> to_10(d)  [] n = 11 -> to_11(d)   [] n = 12 -> to_12(d)
      [] n = 13 -> to_13(d)  [] n = 14 -> to_14(d)   [] n = 15 -> to_15(d)
      [] n = 16 -> to_16(d)  [] n = 17 -> to_17(d)   [] n = 18 -> to_18(d)
      [] n = 19 -> to_19(d)  [] n = 20 -> to_20(d)   [] n = 21 -> to_21(d)
      [] n = 22 -> to_22(d)  [] n = 23 -> to_23(d)   [] n = 24 -> to_24(d)
      [] n = 25 -> to_25(d)  [] n = 26 -> to_26(d)   [] n = 27 -> to_27(d)
      [] n = 28 -> to_28(d)  [] n = 29 -> to_29(d)   [] n = 30 -> to_30(d)
      [] n = 31 -> to_31(d)  [] n = 32 -> to_32(d)   [] n = 33 -> to_33(d)
      [] n = 34 -> to_34(d)

\* What upgrade does for one version: the step, then the version is recorded.
Upgraded(d) ==
    LET n == schema_version(d) + 1
    IN  With(MigrationStep(d, n), <<"schema_version">>, Num(n))

-----------------------------------------------------------------------------
(* The file is written by older builds up to some release, whose own       *)
(* migrator makes the same steps, and its user may edit it there.          *)

MigrationInit ==
    /\ tree \in Documents
    /\ onDisk = tree
    /\ wanted = tree
    /\ litter = {"dnsfilter.txt", "Corefile"}
    /\ upgrading = "older"

OlderStep ==
    /\ upgrading = "older"
    /\ \E r \in Releases : schema_version(tree) < r
    /\ ~Refuses(tree, schema_version(tree) + 1)
    /\ tree' = Upgraded(tree)
    /\ UNCHANGED <<onDisk, wanted, litter, upgrading>>

\* From version 33 on an ignore list has a switch of its own.
UserEdits(d) ==
    {d} \cup {With(d, p, List(<<Str("."), Str("example.org")>>)) :
                p \in {q \in IgnoreLists \cap DOMAIN d : schema_version(d) < 33}}

OlderStops ==
    /\ upgrading = "older"
    /\ schema_version(tree) \in Releases
    /\ \E d \in UserEdits(tree) : onDisk' = d /\ wanted' = d /\ tree' = d
    /\ upgrading' = "stopped"
    /\ UNCHANGED litter

(* load_migrating: the file is read, a newer schema is refused, an older   *)
(* one is upgraded in memory, parsed and saved.                            *)
Load ==
    /\ upgrading = "stopped"
    /\ tree' = onDisk
    /\ upgrading' = CASE schema_version(onDisk) > Target -> "refused"
                      [] schema_version(onDisk) = Target -> "serving"
                      [] OTHER -> "steps"
    /\ UNCHANGED <<onDisk, wanted, litter>>

UpgradeStep ==
    LET n == schema_version(tree) + 1
    IN  /\ upgrading = "steps"
        /\ n <= Target
        /\ IF IsMap(tree, <<>>) /\ ~Refuses(tree, n)
           THEN /\ tree' = Upgraded(tree)
                /\ litter' = litter \ CASE n = 1 -> {"dnsfilter.txt"}
                                        [] n = 2 -> {"Corefile"}
                                        [] OTHER -> {}
                /\ UNCHANGED upgrading
           ELSE upgrading' = "refused" /\ UNCHANGED <<tree, litter>>
        /\ UNCHANGED <<onDisk, wanted>>

\* from_value may refuse a value that no step looked at.
ParseUpgraded ==
    /\ upgrading = "steps"
    /\ schema_version(tree) = Target
    /\ upgrading' \in {"save", "refused"}
    /\ UNCHANGED <<onDisk, tree, wanted, litter>>

\* save is atomic on the disk, and may fail; its steps are ConfigStore's.
SaveUpgraded ==
    /\ upgrading = "save"
    /\ \/ onDisk' = tree /\ upgrading' = "serving"
       \/ upgrading' = "refused" /\ UNCHANGED onDisk
    /\ UNCHANGED <<tree, wanted, litter>>

\* The program exits after an error, crashes, or is stopped, and is started again.
StopUpgrade ==
    /\ upgrading \in {"steps", "save", "serving", "refused"}
    /\ upgrading' = "stopped"
    /\ tree' = onDisk
    /\ UNCHANGED <<onDisk, wanted, litter>>

MigrationNext ==
    OlderStep \/ OlderStops \/ Load \/ UpgradeStep \/ ParseUpgraded \/ SaveUpgraded \/ StopUpgrade

MigrationSpec == MigrationInit /\ [][MigrationNext]_migrationVars

-----------------------------------------------------------------------------
(* Where a setting of an old document is in a current one, and in what     *)
(* form.  A row of needs names what else the document must have.           *)

Row(from, to, by, needs) == [from |-> from, to |-> to, by |-> by, needs |-> needs]

\* The settings of the dns block, under its first name too.
DnsRows(dns) ==
    {Row(dns \o <<"bootstrap_dns">>, <<"dns", "bootstrap_dns">>, "list", {}),
     Row(dns \o <<"bind_host">>, <<"dns", "bind_hosts">>, "list", {}),
     Row(dns \o <<"autohost_tld">>, <<"dhcp", "local_domain_name">>, "same", {<<"dhcp">>}),
     Row(dns \o <<"local_domain_name">>, <<"dhcp", "local_domain_name">>, "same", {<<"dhcp">>}),
     Row(dns \o <<"resolve_clients">>, <<"clients", "runtime_sources", "rdns">>, "same", {}),
     Row(dns \o <<"querylog_interval">>, <<"querylog", "interval">>, "days", {}),
     Row(dns \o <<"querylog_enabled">>, <<"querylog", "enabled">>, "same", {}),
     Row(dns \o <<"statistics_interval">>, <<"statistics", "interval">>, "days", {}),
     Row(dns \o <<"statistics_interval">>, <<"statistics", "enabled">>, "nonzero", {}),
     Row(dns \o <<"safesearch_enabled">>, <<"filtering", "safe_search", "enabled">>, "same", {}),
     Row(dns \o <<"protection_enabled">>, <<"filtering", "protection_enabled">>, "same", {}),
     Row(dns \o <<"cache_size">>, <<"dns", "cache_enabled">>, "nonzero", {})}

RootRows ==
    {Row(<<"auth_name">>, <<"users", "*", "name">>, "same", {<<"auth_pass">>}),
     Row(<<"bind_port">>, <<"http", "address">>, "port", {<<"bind_host">>}),
     Row(<<"web_session_ttl">>, <<"http", "session_ttl">>, "hours", {<<"bind_host">>}),
     Row(<<"debug_pprof">>, <<"http", "pprof", "enabled">>, "same", {<<"bind_host">>}),
     Row(<<"tls", "allow_unencrypted_doh">>, <<"http", "doh", "insecure_enabled">>, "same",
         {<<"bind_host">>}),
     Row(<<"rlimit_nofile">>, <<"os", "rlimit_nofile">>, "same", {}),
     Row(<<"verbose">>, <<"log", "verbose">>, "same", {}),
     Row(<<"clients", "*", "ip">>, <<"clients", "persistent", "*", "ids">>, "first", {}),
     Row(<<"clients", "*", "safesearch_enabled">>,
         <<"clients", "persistent", "*", "safe_search", "enabled">>, "same", {}),
     Row(<<"clients", "*", "blocked_services">>,
         <<"clients", "persistent", "*", "blocked_services", "ids">>, "same", {})}
    \cup {Row(p, <<p[1], "ignored_enabled">>, "nonempty", {}) : p \in IgnoreLists}

Rows == DnsRows(<<"coredns">>) \cup DnsRows(DNS) \cup RootRows

InNewForm(by, old, new) ==
    CASE by = "same" -> new = old
      [] by = "list" -> new = List(<<old>>) \/ new = old
      [] by = "first" -> new[2][1] = old
      [] by = "days" -> IF old[1] # "int" THEN new = old
                        ELSE new = Hours(24 * (IF old[2] = 0 THEN 1 ELSE old[2]))
      [] by = "hours" -> new = Hours(old[2])
      [] by = "nonzero" -> new = Bool(old[2] # 0)
      [] by = "nonempty" -> new = Bool(old[2] # <<>>)
      [] by = "port" -> new[2].port = old[2]

Arrives(row) ==
    Has(wanted, row.from) =>
        /\ Has(onDisk, row.to)
        /\ InNewForm(row.by, wanted[row.from], onDisk[row.to])

\* However many versions lie between, and however often the upgrade failed or
\* was interrupted before, the file is either the one the user left or one of
\* the current schema with every setting at its new place in its new form
\* (migrate.rs: upgrade; file.rs: load_migrating).
SettingsArrive ==
    \/ onDisk = wanted
    \/ upgrading = "older"
    \/ /\ schema_version(onDisk) = Target
       /\ \A row \in Rows : row.needs \subseteq DOMAIN wanted => Arrives(row)

\* The same without the conditions on what else the document has.
SettingsAlwaysArrive ==
    \/ onDisk = wanted
    \/ upgrading = "older"
    \/ \A row \in Rows : Arrives(row)

=============================================================================
