---------------------------- MODULE StateReader ----------------------------
(***************************************************************************)
(* What the kernel reads of a country's states, provinces and POPs         *)
(* (kernel/game_state/src/readers.cpp): the game's linked lists and        *)
(* vectors are followed with every link checked for being readable, every  *)
(* count compared with what the game reports, every identity seen only     *)
(* once and every limit kept.  Anything wrong with any of it sets a        *)
(* quality flag, and a collection that set a flag returns nothing: which   *)
(* flags were set is for the log, so they are one condition here.          *)
(***************************************************************************)
EXTENDS Integers, Sequences, FiniteSets, SequencesExt

CONSTANTS States, Provinces, Pops,
          MaxStates,      \* max_states: nodes of a country's list
          MaxProvinces,   \* max_destination_provinces: in one collection
          MaxPops,        \* max_pops: in one collection
          None

ASSUME StateReaderAssumption ==
    /\ MaxStates \in Nat /\ MaxProvinces \in Nat /\ MaxPops \in Nat
    /\ None \notin States \cup Provinces \cup Pops /\ IsFiniteSet(States)

VARIABLES
    heap,        \* the game: its countries, their states, provinces and POPs
    unreadable,  \* the objects whose memory cannot be read now
    readonly,    \* the objects whose memory cannot be written now
    pool         \* the interest a state holds for its POPs

(***************************************************************************)
(* A list of the game is its chain, what it reports of its length, and     *)
(* whether it has a last element; a chain whose last element points at     *)
(* itself is looped.  A state's node holds the state or None, or is marked *)
(* as deleted.  A province has several lists of POPs.                      *)
(***************************************************************************)
IsGame(w) ==
    /\ w.countries \in Nat \ {0}
    /\ \A c \in 0 .. w.countries - 1 :
           w.states[c].nodes \in Seq([data : States \cup {None}, deleted : BOOLEAN])
    \* Country 0 is no country of the game: cleanups leave it out.
    /\ w.states[0].nodes = <<>>
    /\ \A s \in States : w.provinces[s] \in Seq(Provinces)
    /\ \A p \in DOMAIN w.lists : \A i \in DOMAIN w.lists[p] : w.lists[p][i].chain \in Seq(Pops)
    /\ \A p \in DOMAIN w.lists : Len(w.lists[p]) \in Nat /\ DOMAIN w.lists[p] = 1 .. Len(w.lists[p])
-----------------------------------------------------------------------------
Readable(o) == o \notin unreadable

ReadCountryCount == IF Readable(None) THEN heap.countries ELSE None
ResolveCountry(ordinal) ==
    IF Readable(None) /\ ordinal \in DOMAIN heap.states THEN ordinal ELSE None
ResolveProvince(p) == IF Readable(None) /\ p \in DOMAIN heap.lists THEN p ELSE None

\* A list of POPs ends where it says it ends, and each of its POPs is read.
PopListIsWhole(list) ==
    /\ list.count >= 0 /\ list.count = Len(list.chain) /\ ~list.looped
    /\ list.count <= MaxPops
    /\ list.last = IF list.chain = <<>> THEN None ELSE Last(list.chain)
    /\ \A i \in DOMAIN list.chain : Readable(list.chain[i])

PopsOf(p) == FlattenSeq([i \in DOMAIN heap.lists[p] |-> heap.lists[p][i].chain])
PopsIn(s) == FlattenSeq([i \in DOMAIN heap.provinces[s] |->
                             IF heap.provinces[s][i] \in DOMAIN heap.lists
                             THEN PopsOf(heap.provinces[s][i]) ELSE <<>>])

\* A state's provinces are walked; its POPs only when it holds interest.
CollectPops(s, traverse) ==
    \A i \in DOMAIN heap.provinces[s] :
        LET p == ResolveProvince(heap.provinces[s][i])
        IN  /\ p # None /\ Readable(p)
            /\ traverse => \A k \in DOMAIN heap.lists[p] : PopListIsWhole(heap.lists[p][k])

\* The nodes that stand for a state.
Listed(c) == FlattenSeq([i \in DOMAIN heap.states[c].nodes |->
                            IF heap.states[c].nodes[i].deleted \/ heap.states[c].nodes[i].data = None THEN <<>>
                            ELSE <<heap.states[c].nodes[i].data>>])

StateListIsWhole(list) ==
    /\ list.reported = Len(list.nodes) /\ list.reported <= MaxStates /\ ~list.looped
    /\ list.tail = (list.reported # 0)

\* AddChecked's sums of what the states hold are kept in range.
SumsAreChecked(states, maxRaw) ==
    FoldSeq(LAMBDA s, sum : IF sum > maxRaw THEN sum ELSE sum + pool[s], 0, states) <= maxRaw

(***************************************************************************)
(* A collection: the states of a country with their interest, and, when    *)
(* POPs are asked for, the POPs of those that hold some, in order.         *)
(***************************************************************************)
NoCollection == [ok |-> FALSE, states |-> <<>>, pops |-> <<>>]

\* Of some states: those whose POPs are asked for, and their POPs in order.
PopsAsked(states, withPops) ==
    LET paid == SelectSeq(states, LAMBDA s : withPops /\ pool[s] > 0)
    IN  FlattenSeq([i \in DOMAIN paid |-> PopsIn(paid[i])])

CollectionIsWhole(c, capacity, withPops, maxRaw) ==
    LET states == Listed(c)
        pops == PopsAsked(states, withPops)
        provinces == FlattenSeq([i \in DOMAIN states |-> heap.provinces[states[i]]])
    IN  /\ c # None /\ Readable(c) /\ StateListIsWhole(heap.states[c])
        /\ Len(states) <= capacity /\ IsInjective(states)
        /\ \A i \in DOMAIN states : Readable(states[i])
        /\ SumsAreChecked(states, maxRaw)
        /\ withPops => /\ Len(provinces) <= MaxProvinces /\ IsInjective(provinces)
                       /\ \A i \in DOMAIN states : CollectPops(states[i], pool[states[i]] > 0)
                       /\ Len(pops) <= MaxPops /\ IsInjective(pops)

CollectCountryStateInterest(c, capacity, withPops, maxRaw) ==
    LET states == Listed(c)
    IN  IF ~CollectionIsWhole(c, capacity, withPops, maxRaw) THEN NoCollection
        ELSE [ok |-> TRUE,
              states |-> [i \in DOMAIN states |->
                             [state |-> states[i], interest |-> pool[states[i]],
                              first |-> Len(PopsAsked(SubSeq(states, 1, i - 1), withPops)),
                              count |-> IF withPops /\ pool[states[i]] > 0
                                        THEN Len(PopsIn(states[i])) ELSE 0]],
              pops |-> PopsAsked(states, withPops)]
=============================================================================
