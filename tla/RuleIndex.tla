----------------------------- MODULE RuleIndex -----------------------------
(***************************************************************************)
(* The two indexes of the rule engine: `domidx.rs` (domain to rules, open  *)
(* addressing by hash, no keys stored) and `shortcut.rs` (which literal    *)
(* shortcuts occur in a host name).                                        *)
(*                                                                         *)
(* Both are tables that a key is hashed into and probed from.  The tables  *)
(* are modelled slot by slot; runs of several rules under one key are      *)
(* sequences instead of offsets into a spill array.                        *)
(***************************************************************************)
EXTENDS Rules

CONSTANTS
    Hash(_),       \* the hash of a sequence of characters, at least 1
    InitialSlots,  \* slots of a new domain index (1024)
    Window,        \* WINDOW: the length a shortcut is filed under
    MaxText,       \* MAX_TEXT: what is kept of a shortcut
    LineSlots,     \* LINE: keys per line
    GateBits       \* GATE_BITS, LONG_GATE_BITS

\* The first of n places, from home on and around, that is one of `open`.
FirstFrom(home, n, open) ==
    LET at(d) == (home + d) % n
    IN at(Min({d \in 0 .. n - 1 : at(d) \in open}))

\* The slots in which a probe for a hash ends.
EndsProbe(slots, h) == {s \in DOMAIN slots : slots[s] = <<>> \/ slots[s].hash = h}

(***************************************************************************)
(* DomainIndex.  A slot is <<>> or a record of the hash and the run of     *)
(* rules filed under it, in load order.                                    *)
(***************************************************************************)
EmptySlots(n) == [i \in 0 .. n - 1 |-> <<>>]

\* grow: twice the slots, the entries in slot order, each probed to a free one.
Grow(slots) ==
    LET n == 2 * Cardinality(DOMAIN slots)
        Move(t, i) ==
            IF slots[i] = <<>> THEN t
            ELSE [t EXCEPT ![FirstFrom(slots[i].hash % n, n, {s \in DOMAIN t : t[s] = <<>>})] = slots[i]]
    IN FoldLeft(Move, EmptySlots(n), [i \in 1 .. n \div 2 |-> i - 1])

\* Mutant of FileDomain: a slot that is taken is taken for the domain's own.
FileDomainUnhashed(slots, domain, rule) ==
    LET used == Cardinality({i \in DOMAIN slots : slots[i] # <<>>})
        t == IF (used + 1) * 10 > Cardinality(DOMAIN slots) * 7 THEN Grow(slots) ELSE slots
        n == Cardinality(DOMAIN t)
        at == Hash(domain) % n
    IN [t EXCEPT ![at] = IF @ = <<>> THEN [hash |-> Hash(domain), run |-> <<rule>>]
                         ELSE [@ EXCEPT !.run = Append(@, rule)]]

\* One (domain, rule) pair of build: grown first if it might pass 70 per cent.
FileDomain(slots, domain, rule) ==
    LET used == Cardinality({i \in DOMAIN slots : slots[i] # <<>>})
        t == IF (used + 1) * 10 > Cardinality(DOMAIN slots) * 7 THEN Grow(slots) ELSE slots
        n == Cardinality(DOMAIN t)
        h == Hash(domain)
        at == FirstFrom(h % n, n, EndsProbe(t, h))
    IN [t EXCEPT ![at] = IF @ = <<>> THEN [hash |-> h, run |-> <<rule>>]
                         ELSE [@ EXCEPT !.run = Append(@, rule)]]

BuildDomains(pairs) ==
    FoldLeft(LAMBDA t, p : FileDomain(t, p[1], p[2]), EmptySlots(InitialSlots), pairs)

\* get: the run under the key's hash if the first rule of it is the key's own.
DomainGet(slots, key, own) ==
    LET n == Cardinality(DOMAIN slots)
        h == Hash(key)
        at == FirstFrom(h % n, n, EndsProbe(slots, h))
    IN IF slots[at] = <<>> \/ slots[at].run[1] \notin own THEN {} ELSE Range(slots[at].run)

(***************************************************************************)
(* ShortcutIndex.  `patterns` maps a shortcut to the set of its rules.     *)
(***************************************************************************)
Windows(text) == [i \in 1 .. Len(text) - Window + 1 |-> SubSeq(text, i, i + Window - 1)]
OccursIn(text, s) == \E i \in 0 .. Len(s) - Len(text) : SubSeq(s, i + 1, i + Len(text)) = text

NextPowerOfTwo(n) == CHOOSE p \in {2^k : k \in 0 .. n} : p >= n /\ \A k \in 0 .. n : 2^k >= n => p <= 2^k

\* Table::with_capacity: a power of two of lines, at least two.
TableLines(n) == LET lines == NextPowerOfTwo((n + n \div 2) \div LineSlots)
                 IN IF lines < 2 THEN 2 ELSE lines

\* Table::insert: the first line from the key's own that has a free slot.
TableInsert(table, key, entry) ==
    LET n == Cardinality(DOMAIN table)
        l == FirstFrom(Hash(key) % n, n, {i \in DOMAIN table : Len(table[i]) < LineSlots})
    IN [table EXCEPT ![l] = Append(@, [key |-> key, entry |-> entry])]

\* probe, without the verification: lines are read up to one with a free slot.
TableProbe(table, key) ==
    LET n == Cardinality(DOMAIN table)
        home == Hash(key) % n
        last == Min({d \in 0 .. n - 1 : Len(table[(home + d) % n]) < LineSlots})
    IN {s.entry : s \in {t \in UNION {Range(table[(home + d) % n]) : d \in 0 .. last} : t.key = key}}

Gate(keys) == {Hash(k) % GateBits : k \in keys}

\* A pattern of at least a window is filed under its rarest window, the least
\* filed under of equally rare ones, the first of those; `load` counts the
\* patterns filed under each window so far.
RarestWindow(text, texts, load) ==
    LET ws == Windows(text)
        freq(w) == Cardinality({o \in texts \X (1 .. Len(text) + MaxText) :
                                  o[2] \in DOMAIN Windows(o[1]) /\ Windows(o[1])[o[2]] = w})
        less(i, j) == \/ freq(ws[i]) < freq(ws[j])
                      \/ freq(ws[i]) = freq(ws[j]) /\ load[ws[i]] < load[ws[j]]
                      \/ freq(ws[i]) = freq(ws[j]) /\ load[ws[i]] = load[ws[j]] /\ i <= j
    IN CHOOSE i \in DOMAIN ws : \A j \in DOMAIN ws : less(i, j)

\* ShortcutIndex::build.  Shortcuts of the scheme are in every query; of a
\* long one only the first MaxText characters are kept.
BuildShortcuts(patterns) ==
    LET known == {t \in DOMAIN patterns : Len(t) >= MinShortcut}
        always == {t \in known : OccursIn(t, Scheme)}
        kept(t) == SubSeq(t, 1, Min({Len(t), MaxText}))
        texts == SetToSeq(known \ always)
        long == SelectSeq(texts, LAMBDA t : Len(kept(t)) >= Window)
        short == SelectSeq(texts, LAMBDA t : Len(kept(t)) < Window)
        grams == UNION {Range(Windows(kept(t))) : t \in Range(long)}
        File(acc, t) ==
            LET i == RarestWindow(kept(t), {kept(u) : u \in Range(long)}, acc.load)
                w == Windows(kept(t))[i]
            IN [load |-> [acc.load EXCEPT ![w] = @ + 1],
                table |-> TableInsert(acc.table, w,
                            [text |-> kept(t), window |-> i - 1, rules |-> patterns[t]])]
        longs == FoldLeft(File, [load |-> [w \in grams |-> 0],
                                 table |-> [l \in 0 .. TableLines(Len(long)) - 1 |-> <<>>]], long)
        key(t) == SubSeq(t, 1, MinShortcut)
        shorts == FoldLeft(LAMBDA table, t : TableInsert(table, key(t),
                              [text |-> t, window |-> 0, rules |-> patterns[t]]),
                           [l \in 0 .. TableLines(Len(short)) - 1 |-> <<>>], short)
    IN [always |-> UNION {patterns[t] : t \in always},
        long |-> longs.table, long_gate |-> Gate({w \in grams : longs.load[w] > 0}),
        short |-> shorts, short_gate |-> Gate({key(t) : t \in Range(short)})]

\* occurs: the whole text stands in the host with its window at `at`.
EntryOccurs(e, host, at) ==
    LET start == at - e.window
    IN /\ at >= e.window /\ start + Len(e.text) <= Len(host)
       /\ SubSeq(host, start + 1, start + Len(e.text)) = e.text

\* find: the rules whose shortcut occurs in the host or in the scheme.
FindShortcuts(idx, host) ==
    LET Found(table, gate, len) ==
          UNION {LET k == SubSeq(host, at + 1, at + len)
                 IN IF Hash(k) % GateBits \notin gate THEN {}
                    ELSE UNION {e.rules : e \in {f \in TableProbe(table, k) : EntryOccurs(f, host, at)}} :
                 at \in {i \in 0 .. Len(host) : i + len <= Len(host)}}
    IN idx.always \union (IF Len(host) < MinShortcut THEN {}
                          ELSE Found(idx.long, idx.long_gate, Window)
                               \union Found(idx.short, idx.short_gate, MinShortcut))
=============================================================================
