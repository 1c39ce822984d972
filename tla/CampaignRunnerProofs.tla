----------------------- MODULE CampaignRunnerProofs -------------------------
(***************************************************************************)
(* Proofs about CampaignRunner, for every set of countries, of launches,   *)
(* of dates and every number of retries:                                   *)
(*                                                                         *)
(*  - a running watchdog is armed and holds only its target, a stopped one *)
(*    leaves no country behind unreported but in two named cases           *)
(*    (SpecWatchIsKept), from the inductive invariants Control, which says *)
(*    where the callback may be by what the launcher has done, and InHand, *)
(*    which follows the country from the switch asked for to its return;   *)
(*  - the trace is one smedley_trace accepts (SpecRecordsAccepted), from   *)
(*    Control and Story, which says what the records tell of the launcher  *)
(*    and what the reader has made of them;                                *)
(*  - a record of the benchmark's end is true, and the game is asked to    *)
(*    quit only after it (SpecEndIsTrue), from the same two.               *)
(***************************************************************************)
EXTENDS CampaignRunner, FiniteSetTheorems, SequenceTheorems, WellFoundedInduction, TLAPS

-----------------------------------------------------------------------------
(* Whole days.                                                             *)

LEMMA ModQuotient ==
  ASSUME NEW c \in Nat \ {0}, NEW x \in Int, NEW q \in Int, q = x \div c, NEW m \in Int, m = x % c
  PROVE  x = c * q + m
  BY SMTT(30)

LEMMA ModIs ==
  ASSUME NEW c \in Nat \ {0}, NEW x \in Int
  PROVE  \E q \in Int, m \in 0 .. c - 1 : m = x % c /\ x = c * q + m
  <1>1. x \div c \in Int
    OBVIOUS
  <1>2. x % c \in 0 .. c - 1
    OBVIOUS
  <1>3. \A q \in Int, m \in 0 .. c - 1 : q = x \div c /\ m = x % c => x = c * q + m
    BY ModQuotient
  <1> QED BY <1>1, <1>2, <1>3

LEMMA ModUnique ==
  ASSUME NEW c \in Nat \ {0}, NEW q \in Int, NEW p \in Int, NEW m \in 0 .. c - 1, NEW n \in 0 .. c - 1,
         c * q + m = c * p + n
  PROVE  m = n
  <1>1. c * (q - p) = n - m
    OBVIOUS
  <1>2. q - p < 1
    <2> SUFFICES ASSUME q - p >= 1 PROVE FALSE
      OBVIOUS
    <2>1. c * (q - p) >= c
      OBVIOUS
    <2> QED BY <1>1, <2>1
  <1>3. q - p > -1
    <2> SUFFICES ASSUME q - p <= -1 PROVE FALSE
      OBVIOUS
    <2>1. c * (q - p) <= -c
      OBVIOUS
    <2> QED BY <1>1, <2>1
  <1>4. q = p
    BY <1>2, <1>3
  <1> QED BY <1>1, <1>4

LEMMA ModShift ==
  ASSUME NEW c \in Nat \ {0}, NEW x \in Int, NEW k \in Int
  PROVE  (x + k * c) % c = x % c
  <1>1. PICK q \in Int, m \in 0 .. c - 1 : m = x % c /\ x = c * q + m
    BY ModIs
  <1>2. PICK y \in Int : y = x + k * c
    OBVIOUS
  <1>3. PICK p \in Int, n \in 0 .. c - 1 : n = y % c /\ y = c * p + n
    BY ModIs
  <1>4. c * (q + k) + m = c * p + n
    <2>1. c * (q + k) = c * q + k * c
      OBVIOUS
    <2>2. c * q \in Int /\ k * c \in Int /\ c * (q + k) \in Int /\ c * p \in Int
      OBVIOUS
    <2>3. ASSUME NEW i \in Int, NEW j \in Int, NEW l \in Int, NEW h \in Int,
                 l = i + j, x = i + m, y = x + j, y = h + n
          PROVE  l + m = h + n
      BY <2>3
    <2>4. x = c * q + m
      BY <1>1
    <2>5. y = c * p + n
      BY <1>3
    <2> QED BY <1>2, <2>1, <2>2, <2>3, <2>4, <2>5
  <1>5. m = n
    BY <1>4, ModUnique
  <1> QED BY <1>1, <1>2, <1>3, <1>5

LEMMA DayAfter ==
  ASSUME NEW c \in Nat \ {0}, NEW s \in Int, NEW d \in Int, (d - s) % c = 0
  PROVE  (d + c - s) % c = 0
  <1>1. d + c - s = (d - s) + c /\ d - s \in Int /\ c \in Int /\ 1 \in Int
    OBVIOUS
  <1>2. \A k \in Int : ((d - s) + k * c) % c = (d - s) % c
    BY <1>1, ModShift
  <1>3. PICK x \in Int : x = d - s
    BY <1>1
  <1>4. (x + 1 * c) % c = x % c
    BY <1>1, <1>3, ModShift
  <1>5. x + 1 * c = x + c
    OBVIOUS
  <1>6. d + c - s = x + 1 * c
    BY <1>3, <1>5
  <1> QED BY <1>3, <1>4, <1>6

-----------------------------------------------------------------------------
(* The reader along a trace.  Induction over its length: a set of numbers  *)
(* with 0, and with n + 1 whenever with n, has every number.               *)

LEMMA SetInduction ==
  ASSUME NEW Good, 0 \in Good, \A n \in Nat : n \in Good => n + 1 \in Good
  PROVE  Nat \subseteq Good
  <1> DEFINE Less == OpToRel(<, Nat)
             Bad == Nat \ Good
  <1>1. SUFFICES ASSUME Bad # {} PROVE FALSE
    OBVIOUS
  <1>2. IsWellFoundedOn(Less, Nat)
    BY NatLessThanWellFounded
  <1>3. \A x, y \in Nat : x < y => <<x, y>> \in Less
    BY DEF OpToRel
  <1> HIDE DEF Less
  <1>4. PICK m \in Bad : \A n \in Bad : ~(<<n, m>> \in Less)
    BY <1>1, <1>2, WFMin
  <1>5. m \in Nat /\ m # 0 /\ m - 1 \in Nat /\ m - 1 < m /\ m = (m - 1) + 1
    OBVIOUS
  <1>6. m - 1 \in Good
    BY <1>3, <1>4, <1>5
  <1> QED BY <1>5, <1>6

\* The reader's states along a trace are what its equation says.
Follows(f, t, n) ==
  f = [k \in 0 .. n |-> IF k = 0 THEN NoBenchmark ELSE AfterRecord(f[k - 1], t[k])]

LEMMA ReaderExists ==
  ASSUME NEW t, NEW m \in Nat
  PROVE  \E f : Follows(f, t, m)
  <1> DEFINE Good == {n \in Nat : \E f : Follows(f, t, n)}
  <1>1. 0 \in Good
    <2> DEFINE f == [k \in 0 .. 0 |-> NoBenchmark]
    <2>1. f = [k \in 0 .. 0 |-> IF k = 0 THEN NoBenchmark ELSE AfterRecord(f[k - 1], t[k])]
      OBVIOUS
    <2> QED BY <2>1 DEF Follows
  <1>2. ASSUME NEW n \in Nat, n \in Good PROVE n + 1 \in Good
    <2>1. PICK f : Follows(f, t, n)
      BY <1>2
    <2> DEFINE g == [k \in 0 .. n + 1 |-> IF k = n + 1 THEN AfterRecord(f[n], t[n + 1]) ELSE f[k]]
               step(k) == IF k = 0 THEN NoBenchmark ELSE AfterRecord(g[k - 1], t[k])
    <2>2. ASSUME NEW k \in 0 .. n + 1 PROVE g[k] = step(k)
      <3>1. CASE k = n + 1
        <4>1. k - 1 = n /\ n \in 0 .. n + 1 /\ n # n + 1 /\ k # 0
          BY <3>1
        <4>2. g[n] = f[n]
          BY <4>1
        <4> QED BY <3>1, <4>1, <4>2
      <3>2. CASE k \in 0 .. n /\ k # 0
        <4>1. k - 1 \in 0 .. n + 1 /\ k - 1 # n + 1 /\ k # n + 1
          BY <3>2
        <4>2. g[k] = f[k] /\ g[k - 1] = f[k - 1]
          BY <4>1
        <4>3. f[k] = AfterRecord(f[k - 1], t[k])
          BY <2>1, <3>2 DEF Follows
        <4> QED BY <3>2, <4>2, <4>3
      <3>3. CASE k = 0
        <4>1. g[0] = f[0] /\ f[0] = NoBenchmark
          BY <2>1 DEF Follows
        <4> QED BY <3>3, <4>1
      <3> QED BY <3>1, <3>2, <3>3
    <2>3. g = [k \in 0 .. n + 1 |-> step(k)]
      BY <2>2
    <2>4. Follows(g, t, n + 1)
      BY <2>3 DEF Follows
    <2> HIDE DEF g, step
    <2> QED BY <2>4
  <1>3. Nat \subseteq Good
    <2> HIDE DEF Good
    <2> QED BY <1>1, <1>2, SetInduction
  <1> QED BY <1>3

LEMMA ReaderFollowsTrace ==
  ASSUME NEW t, Len(t) \in Nat
  PROVE  Follows(StateAfter(t), t, Len(t))
  <1>1. \E f : Follows(f, t, Len(t))
    BY ReaderExists
  <1> QED BY <1>1 DEF StateAfter, Follows

-----------------------------------------------------------------------------
(* The invariant.                                                          *)

Maybe(S) == S \cup {None}
Counts   == 0 .. Tries
Dates    == Start .. MaxDate

LauncherFields ==
  [alive : BOOLEAN, front : BOOLEAN, lobby : BOOLEAN, selected : BOOLEAN, saveTries : Counts,
   play : BOOLEAN, campTries : Counts, tries : Counts, console : BOOLEAN, ai : BOOLEAN,
   speed : BOOLEAN, recorded : BOOLEAN, monitoring : BOOLEAN, pending : BOOLEAN,
   target : Maybe(Countries), aiBefore : Nat, popups : BOOLEAN, started : BOOLEAN,
   terminal : BOOLEAN, unclean : BOOLEAN, observe : BOOLEAN, view : Maybe(Int)]
ControllerFields ==
  [active : BOOLEAN, start : Maybe(Int), target : Maybe(Int), prev : Maybe(Int),
   held : BOOLEAN, verdict : Maybe(Verdicts)]
GameFields ==
  [phase : {"menu", "loading", "campaign", "left"}, request : BOOLEAN, loaded : BOOLEAN,
   date : Dates, paused : BOOLEAN, over : BOOLEAN, view : Countries, human : SUBSET Countries,
   ai : SUBSET Countries, living : SUBSET Countries, fog : BOOLEAN, switch : Maybe(Countries),
   console : BOOLEAN, quit : BOOLEAN, orphan : BOOLEAN, deeds : 0 .. MaxDeeds]

Unread == {"idle", "request", "frontend", "read"}
Fields ==
  /\ cfg \in Launches /\ ArgumentsAgree(cfg)
  /\ r \in LauncherFields /\ b \in ControllerFields /\ game \in GameFields
  /\ pc \in Steps /\ timer \in BOOLEAN /\ late \in BOOLEAN
  /\ (pc \in Unread /\ seen = None) \/ (pc \in Steps \ Unread /\ seen \in Snapshots)
  /\ r.pending <=> r.target # None
  /\ game.human \cap game.ai = {}

\* Where the callback may be, and what it has got to, by what it has done.
WayIn ==
  /\ pc \notin {"idle", "request", "frontend"} \/ r.terminal => r.play
  /\ r.play => game.phase # "menu"
  /\ pc \in {"configure", "handover", "fog"} => r.observe
  /\ r.observe \/ r.popups => cfg.observe
  /\ pc = "release" => r.speed
  /\ pc = "watch" => r.monitoring
  /\ r.monitoring => r.recorded
  /\ pc = "gameover" => seen.over

\* A run that was ended has nothing left to do but to quit, and only the steps
\* that lead to the watchdog suppress messages before it is armed.
Ended ==
  /\ r.terminal => pc \in {"idle", "quit", "invalid"} /\ ~timer /\ ~r.monitoring
  /\ pc \in {"quit", "invalid"} => r.terminal
  /\ r.popups => r.monitoring \/ pc \in {"speed", "release"}

\* StoppedIsReported, within a callback and while the watchdog runs too.
HumanIsAlwaysKnown ==
  r.alive /\ r.ai /\ game.human # {} => r.pending \/ r.unclean \/ game.orphan

\* What BenchmarkController::Observe decides.
Decisions == {"game_over", "observer_invariant_failed", "date_regressed", "date_overshoot",
              "complete", "unexpected_pause", "timeout"}

\* The benchmark in hand.  The game goes on from the date that was read, by whole days.
OnTheDay(date) == (date - Start) % Day = 0
InBenchmark ==
  /\ OnTheDay(game.date)
  /\ pc \notin Unread => seen.date <= game.date /\ OnTheDay(seen.date)
  /\ b.active \/ pc \in {"stop", "untimed"} => r.started
  /\ r.started => b.start \in Int /\ b.target \in Int /\ Reachable(b.start, b.target)
  /\ pc = "stop" => /\ b.verdict \in Decisions
                    /\ b.verdict = "date_overshoot" => seen.date > b.target
                    /\ b.verdict = "timeout" => late
  /\ pc = "invalid" => ~r.started /\ ~Reachable(seen.date, Target) /\ Bounded(cfg)

Control == Fields /\ WayIn /\ Ended /\ HumanIsAlwaysKnown /\ InBenchmark

-----------------------------------------------------------------------------
(* The callback, the game and the launcher.                                *)

LEMMA Basics ==
  /\ 0 \in Counts /\ \A n \in Counts : n < Tries => n + 1 \in Counts
  /\ \A S : None \in Maybe(S) /\ S \subseteq Maybe(S)
  /\ \A S : \A x \in Maybe(S) : x # None => x \in S
  /\ \A S \in SUBSET Countries : Cardinality(S) \in Nat
  /\ None \notin Countries
  <1>1. \A S \in SUBSET Countries : Cardinality(S) \in Nat
    BY FS_Subset, FS_CardinalityType, RunnerAssumption
  <1>2. None \notin Countries
    BY RunnerAssumption
  <1> QED BY <1>1, <1>2, RunnerAssumption DEF Counts, Maybe

LEMMA GameActsControl ==
  ASSUME Control, UNCHANGED <<cfg, late, r, b, timer, pc, seen>>, game' \in GameFields,
         game'.human \cap game'.ai = {}, game'.date >= game.date, OnTheDay(game'.date),
         game.phase # "menu" => game'.phase # "menu",
         (game'.human \subseteq game.human /\ (game.orphan => game'.orphan)) \/ r.pending \/ game'.orphan
  PROVE Control'
  <1>1. Fields'
    BY DEF Control, Fields
  <1>2. WayIn' /\ Ended'
    BY DEF Control, WayIn, Ended
  <1>3. HumanIsAlwaysKnown'
    BY DEF Control, HumanIsAlwaysKnown
  <1>4. InBenchmark'
    <2>1. game.date \in Int /\ game'.date \in Int /\ (pc \notin Unread => seen.date \in Int)
      BY RunnerAssumption DEF Control, Fields, GameFields, Dates, Snapshots
    <2> QED BY <2>1 DEF Control, InBenchmark, Target
  <1> QED BY <1>1, <1>2, <1>3, <1>4 DEF Control

LEMMA StopsMonitoring ==
  ASSUME Control, NEW g \in GameFields, NEW restore \in BOOLEAN, g.human \cap g.ai = {},
         StopMonitoring(g, restore)
  PROVE  /\ r' \in LauncherFields /\ game' \in GameFields /\ game'.human \cap game'.ai = {}
         /\ game'.phase = g.phase /\ game'.date = g.date
         /\ r'.pending = FALSE /\ r'.target = None
         /\ r'.popups = FALSE /\ r'.monitoring = FALSE
         /\ game'.human # {} => r'.unclean
         /\ r'.terminal = r.terminal /\ r'.play = r.play /\ r'.observe = r.observe
         /\ r'.started = r.started
  <1> DEFINE G == ReturnedToAI(g, r.target)
  <1>1. r \in LauncherFields
    BY DEF Control, Fields
  <1>2. PICK ok \in BOOLEAN :
          LET returns == restore /\ ok /\ r.target # None /\ Controlled(g, r.target)
              after == IF returns THEN ReturnedToAI(g, r.target) ELSE g
          IN /\ game' = after
             /\ r' = [r EXCEPT !.monitoring = FALSE, !.popups = FALSE, !.pending = FALSE,
                               !.target = None, !.unclean = after.human # {} \/ ~ok]
    BY DEF StopMonitoring
  <1>3. r.target # None => G \in GameFields /\ G.human \cap G.ai = {} /\ G.phase = g.phase /\ G.date = g.date
    <2>1. r.target # None => r.target \in Countries
      BY <1>1, Basics DEF LauncherFields
    <2> QED BY <2>1 DEF ReturnedToAI, GameFields
  <1>4. game' \in GameFields /\ game'.human \cap game'.ai = {} /\ game'.phase = g.phase /\ game'.date = g.date
    BY <1>2, <1>3
  <1>5. PICK u \in BOOLEAN : /\ r' = [r EXCEPT !.monitoring = FALSE, !.popups = FALSE, !.pending = FALSE,
                               !.target = None, !.unclean = u]
                             /\ game'.human # {} => u
    BY <1>2
  <1>6. r' \in LauncherFields
    BY <1>1, <1>5, Basics DEF LauncherFields
  <1> QED BY <1>1, <1>4, <1>5, <1>6 DEF LauncherFields

-----------------------------------------------------------------------------
(* What the game and its player do.                                        *)

LEMMA GameFacts ==
  Control => /\ game \in GameFields /\ game.human \cap game.ai = {} /\ OnTheDay(game.date)
             /\ game.date \in Int
  BY RunnerAssumption DEF Control, Fields, InBenchmark, GameFields, Dates

\* A step of the callback that leaves the benchmark, or the country at hand, as it is.
LEMMA BenchmarkKept ==
  ASSUME Control, UNCHANGED <<cfg, late, b>>, r'.started = r.started, game'.date = game.date,
         pc' \in Unread \/ (pc \notin Unread /\ seen' = seen),
         pc' \notin {"stop", "untimed", "invalid"}
  PROVE  InBenchmark'
  BY DEF Control, InBenchmark, Unread

LEMMA HumanKept ==
  ASSUME Control, r'.alive => r.alive, r'.ai => r.ai \/ game'.human = {},
         game'.human \subseteq game.human, game.orphan => game'.orphan,
         r.pending => r'.pending \/ game'.human = {}, r.unclean => r'.unclean
  PROVE  HumanIsAlwaysKnown'
  BY DEF Control, HumanIsAlwaysKnown

LEMMA SaveLoadsControl == Control /\ SaveLoads => Control'
  <1> SUFFICES ASSUME Control, SaveLoads PROVE Control'
    OBVIOUS
  <1> USE DEF SaveLoads, TheGame, Kept
  <1>1. game \in GameFields /\ game.human \cap game.ai = {} /\ OnTheDay(game.date) /\ game.date \in Int
    BY GameFacts
  <1>2. game'.date = game.date /\ game'.human = game.human /\ game'.ai = game.ai /\ game'.phase = game.phase
        /\ game'.orphan = game.orphan /\ game' \in GameFields
    BY <1>1 DEF GameFields
  <1> QED BY <1>1, <1>2, GameActsControl

LEMMA EntersControl == Control /\ Enters => Control'
  <1> SUFFICES ASSUME Control, Enters PROVE Control'
    OBVIOUS
  <1> USE DEF Enters, Kept
  <1>1. game \in GameFields /\ game.human \cap game.ai = {} /\ OnTheDay(game.date) /\ game.date \in Int
    BY GameFacts
  <1>2. PICK console \in BOOLEAN, paused \in BOOLEAN :
          game' = [game EXCEPT !.phase = "campaign", !.console = console, !.paused = paused]
    OBVIOUS
  <1>3. game'.date = game.date /\ game'.human = game.human /\ game'.ai = game.ai /\ game'.phase = "campaign"
        /\ game'.orphan = game.orphan /\ game' \in GameFields
    BY <1>1, <1>2 DEF GameFields
  <1> QED BY <1>1, <1>3, GameActsControl

LEMMA DayPassesControl == Control /\ DayPasses => Control'
  <1> SUFFICES ASSUME Control, DayPasses PROVE Control'
    OBVIOUS
  <1> USE DEF DayPasses, TheGame, Kept
  <1>1. game \in GameFields /\ game.human \cap game.ai = {} /\ OnTheDay(game.date) /\ game.date \in Int
    BY GameFacts
  <1>2. /\ game.date + Day \in Dates /\ game.date + Day >= game.date /\ game.date + Day \in Int
        /\ OnTheDay(game.date + Day)
    <2>1. game.date \in Dates
      BY <1>1 DEF GameFields
    <2>2. OnTheDay(game.date + Day)
      BY <1>1, DayAfter, DayAssumption, RunnerAssumption DEF OnTheDay
    <2> QED BY <1>1, <2>1, <2>2, RunnerAssumption, DayAssumption DEF Dates
  <1>3. game'.date = game.date + Day /\ game'.human = game.human /\ game'.ai = game.ai
        /\ game'.phase = game.phase /\ game'.orphan = game.orphan /\ game' \in GameFields
    BY <1>1, <1>2 DEF GameFields
  <1> QED BY <1>1, <1>2, <1>3, GameActsControl

LEMMA DeedCounts == Control /\ Deed => game.deeds + 1 \in 0 .. MaxDeeds
  <1> SUFFICES ASSUME Control, Deed PROVE game.deeds + 1 \in 0 .. MaxDeeds
    OBVIOUS
  <1>1. game.deeds \in 0 .. MaxDeeds
    BY GameFacts DEF GameFields
  <1> QED BY <1>1, RunnerAssumption DEF Deed

LEMMA InterferesControl == Control /\ Interferes => Control'
  <1> SUFFICES ASSUME Control, Interferes PROVE Control'
    OBVIOUS
  <1> USE DEF Interferes, TheGame, Kept
  <1>1. game \in GameFields /\ game.human \cap game.ai = {} /\ OnTheDay(game.date) /\ game.date \in Int
    BY GameFacts
  <1>2. game.deeds + 1 \in 0 .. MaxDeeds
    BY <1>1, DeedCounts
  <1>3. PICK paused \in BOOLEAN, over \in BOOLEAN, phase \in {"campaign", "left"} :
          game' = [game EXCEPT !.paused = paused, !.over = over, !.phase = phase, !.deeds = @ + 1]
    <2>1. CASE game' = Done([game EXCEPT !.paused = ~@])
      <3>1. game' = [game EXCEPT !.paused = ~game.paused, !.over = game.over, !.phase = "campaign", !.deeds = @ + 1]
        BY <1>1, <2>1 DEF Done, GameFields, InCampaign
      <3> QED BY <1>1, <3>1 DEF GameFields
    <2>2. CASE game' = Done([game EXCEPT !.over = TRUE, !.paused = TRUE])
      <3>1. game' = [game EXCEPT !.paused = TRUE, !.over = TRUE, !.phase = "campaign", !.deeds = @ + 1]
        BY <1>1, <2>2 DEF Done, GameFields, InCampaign
      <3> QED BY <3>1
    <2>3. CASE game' = Done([game EXCEPT !.phase = "left"])
      <3>1. game' = [game EXCEPT !.paused = game.paused, !.over = game.over, !.phase = "left", !.deeds = @ + 1]
        BY <1>1, <2>3 DEF Done, GameFields, InCampaign
      <3> QED BY <1>1, <3>1 DEF GameFields
    <2> QED BY <2>1, <2>2, <2>3
  <1>4. game'.date = game.date /\ game'.human = game.human /\ game'.ai = game.ai /\ game'.phase # "menu"
        /\ game'.orphan = game.orphan /\ game' \in GameFields
    BY <1>1, <1>2, <1>3 DEF GameFields
  <1> QED BY <1>1, <1>2, <1>4, GameActsControl

LEMMA AnnexedControl == Control /\ (\E c \in Countries : Annexed(c)) => Control'
  <1> SUFFICES ASSUME Control, NEW c \in Countries, Annexed(c) PROVE Control'
    OBVIOUS
  <1> USE DEF TheGame, Kept
  <1>1. game \in GameFields /\ game.human \cap game.ai = {} /\ OnTheDay(game.date) /\ game.date \in Int
    BY GameFacts
  <1>2. game.deeds + 1 \in 0 .. MaxDeeds /\ game.view \in Countries
    <2>1. Deed
      BY DEF Annexed
    <2> QED BY <1>1, <2>1, DeedCounts DEF GameFields
  <1>3. PICK view \in Countries :
          game' = [Done(game) EXCEPT !.view = view, !.living = @ \ {c}, !.human = @ \ {c}, !.ai = @ \ {c}]
    BY <1>2 DEF Annexed
  <1>4. game'.date = game.date /\ game'.human = game.human \ {c} /\ game'.ai = game.ai \ {c}
        /\ game'.phase = game.phase /\ game'.orphan = game.orphan /\ game' \in GameFields
    BY <1>1, <1>2, <1>3 DEF GameFields, Done
  <1>5. UNCHANGED <<cfg, late, r, b, timer, pc, seen>>
    BY DEF Annexed
  <1> QED BY <1>1, <1>2, <1>4, <1>5, GameActsControl

LEMMA TagSwitchControl == Control /\ TagSwitch => Control'
  <1> SUFFICES ASSUME Control, TagSwitch PROVE Control'
    OBVIOUS
  <1> USE DEF TagSwitch, TheGame, Kept
  <1>1. game \in GameFields /\ game.human \cap game.ai = {} /\ OnTheDay(game.date) /\ game.date \in Int
    BY GameFacts
  <1>2. game.switch \in Countries /\ r.pending \in BOOLEAN
    BY <1>1, Basics DEF GameFields, Control, Fields, LauncherFields
  <1>3. game'.date = game.date /\ game'.human = {game.switch} \cap game.living /\ game'.ai = game.ai \ {game.switch}
        /\ game'.phase = game.phase /\ game'.orphan = ~r.pending /\ game' \in GameFields
    BY <1>1, <1>2, Basics DEF GameFields
  <1>4. r.pending \/ game'.orphan
    BY <1>2, <1>3
  <1>5. game'.human \cap game'.ai = {}
    BY <1>3
  <1> QED BY <1>1, <1>3, <1>4, <1>5, GameActsControl

LEMMA TimePassesControl == Control /\ TimePasses => Control'
  <1> SUFFICES ASSUME Control, TimePasses PROVE Control'
    OBVIOUS
  <1> USE DEF TimePasses
  <1> QED BY DEF Control, Fields, WayIn, Ended, HumanIsAlwaysKnown, InBenchmark, Target

LEMMA ConsoleCommandControl == Control /\ ConsoleCommand => Control'
  <1> SUFFICES ASSUME Control, ConsoleCommand PROVE Control'
    OBVIOUS
  <1> USE DEF ConsoleCommand, Kept
  <1>1. game \in GameFields /\ game.human \cap game.ai = {} /\ OnTheDay(game.date) /\ game.date \in Int
    BY GameFacts
  <1>2. game.deeds + 1 \in 0 .. MaxDeeds
    BY <1>1, DeedCounts
  <1>3. game'.date = game.date /\ game'.human = game.human /\ game'.ai = game.ai /\ game'.phase = game.phase
        /\ game'.orphan = game.orphan /\ game' \in GameFields
    BY <1>1, <1>2 DEF GameFields, Done
  <1> QED BY <1>1, <1>2, <1>3, GameActsControl

LEMMA FrontendCapturedControl == Control /\ FrontendCaptured => Control'
  <1> SUFFICES ASSUME Control, FrontendCaptured PROVE Control'
    OBVIOUS
  <1> USE DEF FrontendCaptured, Quiet, Kept
  <1>1. Fields' /\ WayIn' /\ HumanIsAlwaysKnown' /\ InBenchmark'
    BY DEF Control, Fields, WayIn, HumanIsAlwaysKnown, InBenchmark, Target
  <1>2. Ended'
    BY DEF Control, Ended, WayIn
  <1> QED BY <1>1, <1>2 DEF Control

LEMMA StopControl == Control /\ Stop => Control'
  <1> SUFFICES ASSUME Control, Stop PROVE Control'
    OBVIOUS
  <1> USE DEF Stop, Quiet, Kept
  <1>1. r \in LauncherFields /\ game \in GameFields
    BY DEF Control, Fields
  <1>8. \A u, v, w \in BOOLEAN : [r EXCEPT !.alive = u, !.front = v, !.console = w] \in LauncherFields
    BY <1>1 DEF LauncherFields
  <1>9. r' \in LauncherFields
    BY <1>8
  <1>2. /\ r' \in LauncherFields /\ r'.alive = FALSE /\ r'.pending = r.pending /\ r'.target = r.target
        /\ r'.terminal = r.terminal /\ r'.play = r.play /\ r'.observe = r.observe /\ r'.popups = r.popups
        /\ r'.monitoring = r.monitoring /\ r'.recorded = r.recorded /\ r'.started = r.started /\ r'.speed = r.speed
    BY <1>1, <1>9 DEF LauncherFields
  <1>3. game' \in GameFields /\ game'.human \cap game'.ai = {} /\ game'.phase = game.phase /\ game'.date = game.date
    <2>1. CASE UNCHANGED game
      BY <2>1 DEF Control, Fields
    <2>2. CASE r.pending /\ InCampaign /\ Controlled(game, r.target) /\ game' = ReturnedToAI(game, r.target)
      <3>1. r.target \in Countries
        BY <1>1, <2>2, Basics DEF Control, Fields, LauncherFields
      <3> QED BY <1>1, <2>2, <3>1 DEF ReturnedToAI, GameFields, Control, Fields
    <2> QED BY <2>1, <2>2
  <1>4. Fields'
    BY <1>2, <1>3 DEF Control, Fields
  <1>5. WayIn' /\ Ended'
    BY <1>2, <1>3 DEF Control, WayIn, Ended
  <1>6. HumanIsAlwaysKnown'
    BY <1>2 DEF HumanIsAlwaysKnown
  <1>7. InBenchmark'
    BY <1>2, <1>3, BenchmarkKept DEF Unread
  <1> QED BY <1>4, <1>5, <1>6, <1>7 DEF Control

-----------------------------------------------------------------------------
(* The callback before the campaign.                                       *)

LEMMA TimerFiresControl == Control /\ TimerFires => Control'
  <1> SUFFICES ASSUME Control, TimerFires PROVE Control'
    OBVIOUS
  <1>1. r \in LauncherFields /\ game \in GameFields
    BY DEF Control, Fields
  <1>2. UNCHANGED <<cfg, late, b, seen, game>> /\ pc = "idle" /\ timer
    BY DEF TimerFires, Kept
  <1>3. r' = [r EXCEPT !.console = @ \/ con.capture = "completed"]
    BY DEF TimerFires
  <1>4. PICK console \in BOOLEAN : r' = [r EXCEPT !.console = console]
    BY <1>3
  <1>5. r' \in LauncherFields
    BY <1>1, <1>4 DEF LauncherFields
  <1>6. /\ r'.alive = r.alive /\ r'.ai = r.ai /\ r'.pending = r.pending /\ r'.target = r.target
        /\ r'.terminal = r.terminal /\ r'.play = r.play /\ r'.observe = r.observe /\ r'.popups = r.popups
        /\ r'.monitoring = r.monitoring /\ r'.recorded = r.recorded /\ r'.started = r.started
        /\ r'.speed = r.speed /\ r'.unclean = r.unclean
    BY <1>1, <1>4 DEF LauncherFields
  <1>7. pc' \in {"request", "read", "frontend"} /\ (pc' = "read" => r.play)
    BY DEF TimerFires
  <1>8. timer' \in BOOLEAN
    BY DEF TimerFires
  <1>9. Fields'
    BY <1>2, <1>5, <1>6, <1>7, <1>8 DEF Control, Fields, Unread, Steps
  <1>10. WayIn' /\ Ended'
    BY <1>2, <1>6, <1>7 DEF Control, WayIn, Ended
  <1>11. HumanIsAlwaysKnown'
    BY <1>2, <1>6 DEF Control, HumanIsAlwaysKnown
  <1>12. InBenchmark'
    BY <1>2, <1>6, <1>7, BenchmarkKept DEF Unread
  <1> QED BY <1>9, <1>10, <1>11, <1>12 DEF Control

\* What a switch that was asked for leaves the launcher and the game with.
LEMMA SwitchAsked ==
  ASSUME Control, NEW c \in Countries, NEW g \in GameFields, NEW n \in Nat
  PROVE  /\ [r EXCEPT !.pending = TRUE, !.target = c, !.tries = 0, !.aiBefore = n] \in LauncherFields
         /\ [r EXCEPT !.pending = TRUE, !.target = c, !.tries = 0, !.aiBefore = n, !.view = None] \in LauncherFields
         /\ Switching([g EXCEPT !.paused = TRUE], c) \in GameFields
  <1>1. r \in LauncherFields
    BY DEF Control, Fields
  <1>2. c \in Maybe(Countries) /\ None \in Maybe(Int) /\ 0 \in Counts
    BY Basics
  <1>3. [r EXCEPT !.pending = TRUE, !.target = c, !.tries = 0, !.aiBefore = n] \in LauncherFields
    BY <1>1, <1>2 DEF LauncherFields
  <1>4. [r EXCEPT !.pending = TRUE, !.target = c, !.tries = 0, !.aiBefore = n, !.view = None] \in LauncherFields
    BY <1>1, <1>2 DEF LauncherFields
  <1>5. Switching([g EXCEPT !.paused = TRUE], c) \in GameFields
    BY <1>2 DEF Switching, GameFields
  <1> QED BY <1>3, <1>4, <1>5

LEMMA DrainConsoleRequestControl == Control /\ DrainConsoleRequest => Control'
  <1> SUFFICES ASSUME Control, DrainConsoleRequest PROVE Control'
    OBVIOUS
  <1>1. r \in LauncherFields /\ game \in GameFields /\ game.human \cap game.ai = {}
    BY DEF Control, Fields
  <1>2. UNCHANGED <<cfg, late, b, seen>> /\ pc = "request"
    BY DEF DrainConsoleRequest, Kept
  <1>3. pc' \in {"read", "frontend"} /\ (pc' = "read" => r.play)
    BY DEF DrainConsoleRequest
  <1>4. timer' \in BOOLEAN
    BY DEF DrainConsoleRequest
  <1>5. \/ \E paused \in BOOLEAN : r' = r /\ game' = [game EXCEPT !.paused = paused]
        \/ \E c \in Countries :
             /\ r' = [r EXCEPT !.pending = TRUE, !.target = c, !.tries = 0, !.aiBefore = Cardinality(game.ai)]
             /\ game' = Switching([game EXCEPT !.paused = TRUE], c)
             /\ r.monitoring
    <2>1. CASE UNCHANGED r /\ game' = game
      BY <1>1, <2>1 DEF GameFields
    <2>2. CASE /\ MaySwitch(con.request)
               /\ r' = [r EXCEPT !.pending = TRUE, !.target = con.request, !.tries = 0, !.aiBefore = Cardinality(game.ai)]
               /\ game' = Switching([game EXCEPT !.paused = TRUE], con.request)
      <3>1. con.request \in Countries /\ r.monitoring
        BY <1>1, <2>2 DEF MaySwitch, GameFields
      <3> QED BY <2>2, <3>1
    <2>3. CASE \E resumed \in BOOLEAN : UNCHANGED r /\ game' = [game EXCEPT !.paused = @ \/ ~resumed]
      <3>1. PICK resumed \in BOOLEAN : UNCHANGED r /\ game' = [game EXCEPT !.paused = @ \/ ~resumed]
        BY <2>3
      <3>2. (game.paused \/ ~resumed) \in BOOLEAN
        OBVIOUS
      <3> QED BY <3>1, <3>2
    <2> QED BY <2>1, <2>2, <2>3 DEF DrainConsoleRequest, RequestSwitch
  <1>6. /\ r' \in LauncherFields /\ game' \in GameFields
        /\ r'.alive = r.alive /\ r'.ai = r.ai /\ (r'.pending <=> r'.target # None) /\ (r.pending => r'.pending)
        /\ r'.terminal = r.terminal /\ r'.play = r.play /\ r'.observe = r.observe /\ r'.popups = r.popups
        /\ r'.monitoring = r.monitoring /\ r'.recorded = r.recorded /\ r'.started = r.started
        /\ r'.speed = r.speed /\ r'.unclean = r.unclean
        /\ game'.human = game.human /\ game'.ai = game.ai /\ game'.date = game.date /\ game'.phase = game.phase
        /\ game'.orphan = game.orphan
    <2>1. CASE \E paused \in BOOLEAN : r' = r /\ game' = [game EXCEPT !.paused = paused]
      BY <1>1, <2>1 DEF GameFields, Control, Fields
    <2>2. CASE \E c \in Countries :
             /\ r' = [r EXCEPT !.pending = TRUE, !.target = c, !.tries = 0, !.aiBefore = Cardinality(game.ai)]
             /\ game' = Switching([game EXCEPT !.paused = TRUE], c)
             /\ r.monitoring
      <3>1. PICK c \in Countries :
             /\ r' = [r EXCEPT !.pending = TRUE, !.target = c, !.tries = 0, !.aiBefore = Cardinality(game.ai)]
             /\ game' = Switching([game EXCEPT !.paused = TRUE], c)
        BY <2>2
      <3>2. Cardinality(game.ai) \in Nat
        BY <1>1, Basics DEF GameFields
      <3>3. r' \in LauncherFields /\ game' \in GameFields
        BY <1>1, <3>1, <3>2, SwitchAsked
      <3> QED BY <1>1, <3>1, <3>3, Basics DEF LauncherFields, GameFields, Switching
    <2> QED BY <1>5, <2>1, <2>2
  <1>9. Fields'
    BY <1>1, <1>2, <1>3, <1>4, <1>6 DEF Control, Fields, Unread, Steps
  <1>10. WayIn' /\ Ended'
    BY <1>2, <1>3, <1>6 DEF Control, WayIn, Ended
  <1>11. HumanIsAlwaysKnown'
    BY <1>6 DEF Control, HumanIsAlwaysKnown
  <1>12. InBenchmark'
    BY <1>2, <1>3, <1>6, BenchmarkKept DEF Unread
  <1> QED BY <1>9, <1>10, <1>11, <1>12 DEF Control

LEMMA AcquireControllerControl == Control /\ AcquireController => Control'
  <1> SUFFICES ASSUME Control, AcquireController PROVE Control'
    OBVIOUS
  <1>1. UNCHANGED <<cfg, late, b, r, game>> /\ pc = "frontend" /\ pc' = "idle" /\ seen' = None /\ timer' \in BOOLEAN
    BY DEF AcquireController, Rearm, Goto, Quiet, Kept
  <1>2. Fields'
    BY <1>1 DEF Control, Fields, Unread, Steps
  <1>3. WayIn' /\ Ended' /\ HumanIsAlwaysKnown'
    BY <1>1 DEF Control, WayIn, Ended, HumanIsAlwaysKnown
  <1>4. InBenchmark'
    BY <1>1, BenchmarkKept DEF Unread
  <1> QED BY <1>2, <1>3, <1>4 DEF Control

\* The callback returns.
LEMMA BackToIdle ==
  ASSUME Control, UNCHANGED <<cfg, late>>, pc' = "idle", seen' = None, timer' \in BOOLEAN,
         b' \in ControllerFields, b'.start = b.start, b'.target = b.target, b'.active => b.active,
         r' \in LauncherFields, game' \in GameFields, game'.human \cap game'.ai = {},
         game'.date = game.date, r'.started = r.started, r'.pending <=> r'.target # None,
         r'.terminal => r'.play /\ ~timer' /\ ~r'.monitoring, r'.play => game'.phase # "menu",
         r'.observe \/ r'.popups => cfg.observe, r'.monitoring => r'.recorded,
         r'.popups => r'.monitoring, HumanIsAlwaysKnown'
  PROVE  Control'
  <1>1. Fields'
    BY DEF Control, Fields, Unread, Steps
  <1>2. WayIn' /\ Ended'
    BY DEF WayIn, Ended
  <1>3. InBenchmark'
    BY DEF Control, InBenchmark, Unread
  <1> QED BY <1>1, <1>2, <1>3 DEF Control

\* What a return leaves as it was.
LEMMA Returned ==
  ASSUME Control, UNCHANGED <<cfg, late, b>>, Goto("idle"), timer' \in BOOLEAN,
         r' \in LauncherFields, game' \in GameFields, game'.human \cap game'.ai = {},
         game'.date = game.date, game'.phase # "menu" \/ game'.phase = game.phase,
         game'.human \subseteq game.human, game'.orphan = game.orphan,
         r'.alive = r.alive, r'.ai = r.ai, r'.pending = r.pending, r'.target = r.target,
         r'.unclean = r.unclean, r'.observe => r.observe, r'.popups = r.popups,
         r'.monitoring = r.monitoring, r'.recorded = r.recorded, r'.started = r.started,
         r'.terminal = r.terminal, r'.play = r.play \/ (r'.play /\ game'.phase # "menu"),
         r.terminal => ~timer', pc \notin {"speed", "release"} \/ ~r.popups
  PROVE  Control'
  <1>1. pc' = "idle" /\ seen' = None
    BY DEF Goto
  <1>2. b' \in ControllerFields /\ (r'.pending <=> r'.target # None)
    BY DEF Control, Fields
  <1>3. /\ r'.terminal => r'.play /\ ~timer' /\ ~r'.monitoring
        /\ r'.play => game'.phase # "menu"
        /\ r'.observe \/ r'.popups => cfg.observe
        /\ r'.monitoring => r'.recorded
        /\ r'.popups => r'.monitoring
    BY DEF Control, WayIn, Ended
  <1>4. HumanIsAlwaysKnown'
    BY DEF Control, HumanIsAlwaysKnown
  <1> QED BY <1>1, <1>2, <1>3, <1>4, BackToIdle

LEMMA SinglePlayerControl == Control /\ SinglePlayer => Control'
  <1> SUFFICES ASSUME Control, SinglePlayer PROVE Control'
    OBVIOUS
  <1>1. r \in LauncherFields /\ game \in GameFields /\ game.human \cap game.ai = {} /\ timer \in BOOLEAN
        /\ pc = "frontend" /\ ~r.terminal
    BY DEF Control, Fields, Ended, SinglePlayer
  <1>2. UNCHANGED <<cfg, late, b, game>> /\ Goto("idle") /\ timer' \in BOOLEAN
    BY <1>1 DEF SinglePlayer, Quiet, Kept, Rearm
  <1>3. PICK lobby \in BOOLEAN : r' = [r EXCEPT !.front = TRUE, !.lobby = lobby]
    <2>1. CASE r' = [r EXCEPT !.front = TRUE, !.lobby = TRUE]
      BY <2>1
    <2>2. CASE r' = [r EXCEPT !.front = TRUE]
      <3>1. r' = [r EXCEPT !.front = TRUE, !.lobby = r.lobby]
        BY <1>1, <2>2 DEF LauncherFields
      <3> QED BY <1>1, <3>1 DEF LauncherFields
    <2> QED BY <2>1, <2>2 DEF SinglePlayer
  <1>4. r' \in LauncherFields
    BY <1>1, <1>3 DEF LauncherFields
  <1>5. /\ r'.alive = r.alive /\ r'.ai = r.ai /\ r'.pending = r.pending /\ r'.target = r.target
        /\ r'.terminal = r.terminal /\ r'.play = r.play /\ r'.observe = r.observe /\ r'.popups = r.popups
        /\ r'.monitoring = r.monitoring /\ r'.recorded = r.recorded /\ r'.started = r.started
        /\ r'.unclean = r.unclean
    BY <1>1, <1>3 DEF LauncherFields
  <1> QED BY <1>1, <1>2, <1>4, <1>5, Returned

LEMMA SelectSaveControl == Control /\ SelectSave => Control'
  <1> SUFFICES ASSUME Control, SelectSave PROVE Control'
    OBVIOUS
  <1>1. r \in LauncherFields /\ game \in GameFields /\ game.human \cap game.ai = {} /\ timer \in BOOLEAN
        /\ pc = "frontend" /\ ~r.terminal
    BY DEF Control, Fields, Ended, SelectSave
  <1>2. UNCHANGED <<cfg, late, b>> /\ Goto("idle") /\ timer' \in BOOLEAN
    BY <1>1 DEF SelectSave, Kept, Rearm
  <1>3. PICK selected \in BOOLEAN, request \in BOOLEAN :
          r' = [r EXCEPT !.selected = selected] /\ game' = [game EXCEPT !.request = request]
    <2>1. CASE r' = [r EXCEPT !.selected = TRUE] /\ game' = [game EXCEPT !.request = TRUE]
      BY <2>1
    <2>2. CASE UNCHANGED <<r, game>>
      <3>1. r' = [r EXCEPT !.selected = r.selected] /\ game' = [game EXCEPT !.request = game.request]
        BY <1>1, <2>2 DEF LauncherFields, GameFields
      <3> QED BY <1>1, <3>1 DEF LauncherFields, GameFields
    <2> QED BY <2>1, <2>2 DEF SelectSave
  <1>4. r' \in LauncherFields
    BY <1>1, <1>3 DEF LauncherFields
  <1>5. /\ r'.alive = r.alive /\ r'.ai = r.ai /\ r'.pending = r.pending /\ r'.target = r.target
        /\ r'.terminal = r.terminal /\ r'.play = r.play /\ r'.observe = r.observe /\ r'.popups = r.popups
        /\ r'.monitoring = r.monitoring /\ r'.recorded = r.recorded /\ r'.started = r.started
        /\ r'.unclean = r.unclean
    BY <1>1, <1>3 DEF LauncherFields
  <1>6. /\ game' \in GameFields /\ game'.human = game.human /\ game'.ai = game.ai /\ game'.date = game.date
        /\ game'.phase = game.phase /\ game'.orphan = game.orphan
    BY <1>1, <1>3 DEF GameFields
  <1> QED BY <1>1, <1>2, <1>4, <1>5, <1>6, Returned

LEMMA CheckSaveControl == Control /\ CheckSave => Control'
  <1> SUFFICES ASSUME Control, CheckSave PROVE Control'
    OBVIOUS
  <1>1. r \in LauncherFields /\ game \in GameFields /\ game.human \cap game.ai = {} /\ timer \in BOOLEAN
        /\ pc = "frontend" /\ ~r.terminal
    BY DEF Control, Fields, Ended, CheckSave
  <1>2. UNCHANGED <<cfg, late, b>> /\ Goto("idle") /\ timer' \in BOOLEAN
    BY <1>1 DEF CheckSave, Kept, Rearm
  <1>3. CASE UNCHANGED <<r, game>>
    BY <1>1, <1>2, <1>3, Returned
  <1>4. CASE r' = [r EXCEPT !.play = TRUE, !.front = FALSE] /\ game' = [game EXCEPT !.phase = "loading"]
    <2>1. r' \in LauncherFields
      BY <1>1, <1>4 DEF LauncherFields
    <2>2. /\ r'.alive = r.alive /\ r'.ai = r.ai /\ r'.pending = r.pending /\ r'.target = r.target
          /\ r'.terminal = r.terminal /\ r'.play /\ r'.observe = r.observe /\ r'.popups = r.popups
          /\ r'.monitoring = r.monitoring /\ r'.recorded = r.recorded /\ r'.started = r.started
          /\ r'.unclean = r.unclean
      BY <1>1, <1>4 DEF LauncherFields
    <2>3. /\ game' \in GameFields /\ game'.human = game.human /\ game'.ai = game.ai /\ game'.date = game.date
          /\ game'.phase = "loading" /\ game'.orphan = game.orphan
      BY <1>1, <1>4 DEF GameFields
    <2> QED BY <1>1, <1>2, <2>1, <2>2, <2>3, Returned
  <1>5. CASE r' = [r EXCEPT !.saveTries = @ + 1] /\ r.saveTries < Tries /\ UNCHANGED game
    <2>1. r.saveTries + 1 \in Counts
      BY <1>1, <1>5, Basics DEF LauncherFields
    <2>2. r' \in LauncherFields
      BY <1>1, <1>5, <2>1 DEF LauncherFields
    <2>3. /\ r'.alive = r.alive /\ r'.ai = r.ai /\ r'.pending = r.pending /\ r'.target = r.target
          /\ r'.terminal = r.terminal /\ r'.play = r.play /\ r'.observe = r.observe /\ r'.popups = r.popups
          /\ r'.monitoring = r.monitoring /\ r'.recorded = r.recorded /\ r'.started = r.started
          /\ r'.unclean = r.unclean
      BY <1>1, <1>5 DEF LauncherFields
    <2> QED BY <1>1, <1>2, <1>5, <2>2, <2>3, Returned
  <1> QED BY <1>3, <1>4, <1>5 DEF CheckSave

-----------------------------------------------------------------------------
(* Reading the campaign, and the end of a benchmark.                       *)

\* The callback goes on with what it read.
LEMMA GoesOn ==
  ASSUME Control, UNCHANGED <<cfg, late>>, pc \notin Unread,
         pc' \in Steps \ (Unread \cup {"stop", "untimed", "invalid"}), seen' = seen, timer' \in BOOLEAN,
         b' \in ControllerFields, b'.start = b.start, b'.target = b.target, b'.active => b.active,
         r' \in LauncherFields, game' \in GameFields, game'.human \cap game'.ai = {},
         game'.date = game.date, r'.started = r.started, r'.pending <=> r'.target # None,
         WayIn', Ended', HumanIsAlwaysKnown'
  PROVE  Control'
  <1>1. Fields'
    BY DEF Control, Fields
  <1>2. InBenchmark'
    BY DEF Control, InBenchmark
  <1> QED BY <1>1, <1>2 DEF Control

LEMMA Finishes ==
  ASSUME Control, NEW reason, NEW actual, NEW paused, Finish(reason, actual, paused)
  PROVE  /\ r' \in LauncherFields /\ timer' = FALSE
         /\ r'.terminal /\ ~r'.monitoring /\ ~r'.popups
         /\ r'.alive = r.alive /\ r'.ai = r.ai /\ r'.pending = r.pending /\ r'.target = r.target
         /\ r'.play = r.play /\ r'.observe = r.observe /\ r'.recorded = r.recorded
         /\ r'.started = r.started /\ r'.unclean = r.unclean
         /\ r'.selected = r.selected /\ r'.speed = r.speed
         /\ \/ pc' = "idle" /\ seen' = None
            \/ pc' = "quit" /\ seen' = seen /\ reason \in {None, "game_over"}
  <1>1. r \in LauncherFields
    BY DEF Control, Fields
  <1>2. r' = [r EXCEPT !.terminal = TRUE, !.monitoring = FALSE, !.popups = FALSE] /\ timer' = FALSE
    BY DEF Finish
  <1>3. r' \in LauncherFields
    BY <1>1, <1>2 DEF LauncherFields
  <1>4. \/ pc' = "idle" /\ seen' = None
        \/ pc' = "quit" /\ seen' = seen /\ reason \in {None, "game_over"}
    BY DEF Finish, Goto
  <1> QED BY <1>1, <1>2, <1>3, <1>4 DEF LauncherFields

LEMMA FinishControl ==
  ASSUME Control, NEW reason, NEW actual, NEW paused, Finish(reason, actual, paused),
         UNCHANGED <<cfg, late>>, r.play, pc \notin Unread \/ reason \notin {None, "game_over"},
         b' \in ControllerFields, b'.start = b.start, b'.target = b.target, b'.active => b.active,
         game' \in GameFields, game'.human = game.human, game'.ai = game.ai, game'.date = game.date,
         game'.phase = game.phase, game'.orphan = game.orphan
  PROVE  Control'
  <1>1. /\ r' \in LauncherFields /\ timer' = FALSE
        /\ r'.terminal /\ ~r'.monitoring /\ ~r'.popups
        /\ r'.alive = r.alive /\ r'.ai = r.ai /\ r'.pending = r.pending /\ r'.target = r.target
        /\ r'.play = r.play /\ r'.observe = r.observe /\ r'.recorded = r.recorded
        /\ r'.started = r.started /\ r'.unclean = r.unclean
        /\ \/ pc' = "idle" /\ seen' = None
           \/ pc' = "quit" /\ seen' = seen /\ reason \in {None, "game_over"}
    BY Finishes
  <1>2. (r'.pending <=> r'.target # None) /\ game'.human \cap game'.ai = {}
    BY <1>1 DEF Control, Fields
  <1>3. WayIn' /\ Ended'
    BY <1>1 DEF Control, WayIn, Ended
  <1>4. HumanIsAlwaysKnown'
    BY <1>1 DEF Control, HumanIsAlwaysKnown
  <1>5. CASE pc' = "idle" /\ seen' = None
    BY <1>1, <1>2, <1>3, <1>4, <1>5, BackToIdle DEF WayIn, Ended
  <1>6. CASE pc' = "quit" /\ seen' = seen /\ reason \in {None, "game_over"}
    BY <1>1, <1>2, <1>3, <1>4, <1>6, GoesOn DEF Steps, Unread
  <1> QED BY <1>1, <1>5, <1>6

LEMMA ReadUnavailableControl == Control /\ ReadUnavailable => Control'
  <1> SUFFICES ASSUME Control, ReadUnavailable PROVE Control'
    OBVIOUS
  <1>1. r \in LauncherFields /\ b \in ControllerFields /\ game \in GameFields
        /\ game.human \cap game.ai = {} /\ timer \in BOOLEAN /\ pc = "read" /\ ~r.terminal /\ r.play
        /\ (r.popups => r.monitoring)
    BY DEF Control, Fields, Ended, WayIn, ReadUnavailable
  <1>2. UNCHANGED <<cfg, late, game>>
    BY DEF ReadUnavailable, Kept
  <1>3. CASE b.active
    <2>1. Finish("idler_unavailable", None, None) /\ b' = [b EXCEPT !.active = FALSE]
      BY <1>3 DEF ReadUnavailable
    <2>2. b' \in ControllerFields /\ b'.start = b.start /\ b'.target = b.target /\ ~b'.active
      BY <1>1, <2>1 DEF ControllerFields
    <2>3. "idler_unavailable" \notin {None, "game_over"}
      BY RunnerAssumption DEF Verdicts, FailureReasons
    <2> QED BY <1>1, <1>2, <2>1, <2>2, <2>3, FinishControl
  <1>4. CASE ~b.active /\ r.monitoring
    <2>1. r' = [r EXCEPT !.monitoring = FALSE, !.popups = FALSE] /\ timer' = FALSE /\ Goto("idle") /\ b' = b
      BY <1>4 DEF ReadUnavailable
    <2>2. r' \in LauncherFields
      BY <1>1, <2>1 DEF LauncherFields
    <2>3. /\ r'.alive = r.alive /\ r'.ai = r.ai /\ r'.pending = r.pending /\ r'.target = r.target
          /\ r'.terminal = r.terminal /\ r'.play = r.play /\ r'.observe = r.observe /\ ~r'.popups
          /\ ~r'.monitoring /\ r'.recorded = r.recorded /\ r'.started = r.started
          /\ r'.unclean = r.unclean
      BY <1>1, <2>1 DEF LauncherFields
    <2>4. /\ pc' = "idle" /\ seen' = None /\ (r'.pending <=> r'.target # None)
          /\ (r'.play => game'.phase # "menu") /\ (r'.observe \/ r'.popups => cfg.observe)
          /\ HumanIsAlwaysKnown'
      BY <1>2, <2>1, <2>3 DEF Goto, Control, Fields, WayIn, HumanIsAlwaysKnown
    <2> QED BY <1>1, <1>2, <2>1, <2>2, <2>3, <2>4, BackToIdle
  <1>5. CASE ~b.active /\ ~r.monitoring
    <2>1. UNCHANGED b /\ Goto("idle") /\ timer' \in BOOLEAN
      BY <1>1, <1>5 DEF ReadUnavailable, Rearm
    <2>2. PICK n \in Counts : r' = [r EXCEPT !.campTries = n]
      <3>1. r' = [r EXCEPT !.campTries = IF @ < Tries THEN @ + 1 ELSE @]
        BY <1>5 DEF ReadUnavailable
      <3>2. r.campTries \in Counts
        BY <1>1 DEF LauncherFields
      <3>3. (IF r.campTries < Tries THEN r.campTries + 1 ELSE r.campTries) \in Counts
        BY <3>2, Basics
      <3> QED BY <3>1, <3>3
    <2>3. r' \in LauncherFields
      BY <1>1, <2>2 DEF LauncherFields
    <2>4. /\ r'.alive = r.alive /\ r'.ai = r.ai /\ r'.pending = r.pending /\ r'.target = r.target
          /\ r'.terminal = r.terminal /\ r'.play = r.play /\ r'.observe = r.observe /\ r'.popups = r.popups
          /\ r'.monitoring = r.monitoring /\ r'.recorded = r.recorded /\ r'.started = r.started
          /\ r'.unclean = r.unclean
      BY <1>1, <2>2 DEF LauncherFields
    <2> QED BY <1>1, <1>2, <2>1, <2>3, <2>4, Returned
  <1> QED BY <1>3, <1>4, <1>5

LEMMA SnapshotReads ==
  Control => Snapshot \in Snapshots /\ Snapshot.date = game.date /\ Snapshot.over = game.over
  <1> SUFFICES ASSUME Control PROVE Snapshot \in Snapshots /\ Snapshot.date = game.date /\ Snapshot.over = game.over
    OBVIOUS
  <1>1. game \in GameFields
    BY DEF Control, Fields
  <1>2. game.date \in Dates /\ game.paused \in BOOLEAN /\ game.over \in BOOLEAN
    BY <1>1 DEF GameFields
  <1> QED BY <1>2 DEF Snapshot, Snapshots, Dates

LEMMA ReadCampaignControl == Control /\ ReadCampaign => Control'
  <1> SUFFICES ASSUME Control, ReadCampaign PROVE Control'
    OBVIOUS
  <1>1. r \in LauncherFields /\ b \in ControllerFields /\ game \in GameFields
        /\ game.human \cap game.ai = {} /\ timer \in BOOLEAN /\ pc = "read" /\ ~r.terminal /\ r.play
        /\ (r.popups => r.monitoring) /\ game.phase = "campaign"
    BY DEF Control, Fields, Ended, WayIn, ReadCampaign, InCampaign
  <1>2. UNCHANGED <<cfg, late, b, game>>
    BY DEF ReadCampaign, Kept
  <1>3. CASE game.over /\ ~Bounded(cfg)
    <2>1. r' = [r EXCEPT !.popups = FALSE, !.monitoring = FALSE] /\ timer' = FALSE /\ Goto("idle")
      BY <1>3 DEF ReadCampaign
    <2>2. r' \in LauncherFields
      BY <1>1, <2>1 DEF LauncherFields
    <2>3. /\ r'.alive = r.alive /\ r'.ai = r.ai /\ r'.pending = r.pending /\ r'.target = r.target
          /\ r'.terminal = r.terminal /\ r'.play = r.play /\ r'.observe = r.observe /\ ~r'.popups
          /\ ~r'.monitoring /\ r'.recorded = r.recorded /\ r'.started = r.started
          /\ r'.unclean = r.unclean
      BY <1>1, <2>1 DEF LauncherFields
    <2>4. /\ pc' = "idle" /\ seen' = None /\ (r'.pending <=> r'.target # None)
          /\ (r'.play => game'.phase # "menu") /\ (r'.observe \/ r'.popups => cfg.observe)
          /\ HumanIsAlwaysKnown'
      BY <1>1, <1>2, <2>1, <2>3 DEF Goto, Control, Fields, WayIn, HumanIsAlwaysKnown
    <2> QED BY <1>1, <1>2, <2>1, <2>2, <2>3, <2>4, BackToIdle
  <1>4. CASE ~(game.over /\ ~Bounded(cfg))
    <2>1. PICK popups \in BOOLEAN : r' = [r EXCEPT !.popups = popups] /\ (popups => r.popups)
      <3>1. CASE game.over
        BY <1>4, <3>1 DEF ReadCampaign
      <3>2. CASE ~game.over
        <4>1. r' = [r EXCEPT !.popups = r.popups]
          BY <1>1, <3>2 DEF ReadCampaign, LauncherFields
        <4> QED BY <1>1, <4>1 DEF LauncherFields
      <3> QED BY <3>1, <3>2
    <2>2. r' \in LauncherFields
      BY <1>1, <2>1 DEF LauncherFields
    <2>3. /\ r'.alive = r.alive /\ r'.ai = r.ai /\ r'.pending = r.pending /\ r'.target = r.target
          /\ r'.terminal = r.terminal /\ r'.play = r.play /\ r'.observe = r.observe /\ (r'.popups => r.popups)
          /\ r'.monitoring = r.monitoring /\ r'.recorded = r.recorded /\ r'.started = r.started
          /\ r'.speed = r.speed /\ r'.unclean = r.unclean
      BY <1>1, <2>1 DEF LauncherFields
    <2>4. seen' = Snapshot /\ timer' = timer
      BY <1>4 DEF ReadCampaign
    <2>5. /\ pc' \in {"gameover", "bench", "watch", "configure", "speed"}
          /\ (pc' = "gameover" => game.over) /\ (pc' = "watch" => r.monitoring) /\ (pc' = "configure" => r.observe)
      BY <1>4 DEF ReadCampaign, AfterBench
    <2>6. Snapshot \in Snapshots /\ Snapshot.date = game.date /\ Snapshot.over = game.over
      BY SnapshotReads
    <2>7. Fields'
      BY <1>1, <1>2, <2>2, <2>3, <2>4, <2>5, <2>6 DEF Control, Fields, Unread, Steps
    <2>8. WayIn' /\ Ended'
      BY <1>1, <1>2, <2>3, <2>4, <2>5, <2>6 DEF Control, WayIn, Ended
    <2>9. HumanIsAlwaysKnown'
      BY <1>2, <2>3 DEF Control, HumanIsAlwaysKnown
    <2>10. InBenchmark'
      <3>1. game.date <= game.date
        BY GameFacts
      <3> QED BY <1>1, <1>2, <2>3, <2>4, <2>5, <2>6, <3>1 DEF Control, InBenchmark
    <2> QED BY <2>7, <2>8, <2>9, <2>10 DEF Control
  <1> QED BY <1>3, <1>4

LEMMA Paused ==
  ASSUME Control, NEW ok \in BOOLEAN, game' = Pausing(game, TRUE, ok)
  PROVE  /\ game' \in GameFields /\ game'.human = game.human /\ game'.ai = game.ai /\ game'.date = game.date
         /\ game'.phase = game.phase /\ game'.orphan = game.orphan /\ game'.quit = game.quit
  BY GameFacts DEF Pausing, GameFields

LEMMA PauseFacts ==
  ASSUME Control, PauseTakes
  PROVE  /\ game' \in GameFields /\ game'.human = game.human /\ game'.ai = game.ai /\ game'.date = game.date
         /\ game'.phase = game.phase /\ game'.orphan = game.orphan /\ game'.quit = game.quit
  BY Paused DEF PauseTakes

LEMMA VerdictIs ==
  ASSUME Control, NEW valid, Verdict(valid) # None
  PROVE  /\ Verdict(valid) \in Verdicts /\ Verdict(valid) \in Decisions
         /\ Verdict(valid) = "date_overshoot" => seen.date > b.target
         /\ Verdict(valid) = "timeout" => late
  BY DEF Verdict, Verdicts, FailureReasons, Decisions

LEMMA TickBenchmarkControl == Control /\ TickBenchmark => Control'
  <1> SUFFICES ASSUME Control, TickBenchmark PROVE Control'
    OBVIOUS
  <1> DEFINE valid == pc = "gameover" \/ ~cfg.observe \/ ObserverValid
             there == seen.date = b.target
  <1>1. r \in LauncherFields /\ b \in ControllerFields /\ game \in GameFields
        /\ game.human \cap game.ai = {} /\ timer \in BOOLEAN /\ ~r.terminal /\ r.play /\ b.active /\ r.started
        /\ pc \notin Unread /\ pc \in {"bench", "gameover"} /\ (r.popups => r.monitoring)
        /\ seen \in Snapshots
    BY DEF Control, Fields, Ended, WayIn, InBenchmark, TickBenchmark, Unread
  <1>2. UNCHANGED <<cfg, late>>
    BY DEF TickBenchmark, Kept
  <1>3. CASE Verdict(valid) # None
    <2>1. /\ b' = [b EXCEPT !.active = FALSE, !.verdict = Verdict(valid)]
          /\ pc' = "stop" /\ UNCHANGED <<seen, r, timer, game>>
      BY <1>3 DEF TickBenchmark, Goto
    <2>2. /\ Verdict(valid) \in Verdicts /\ Verdict(valid) \in Decisions
          /\ Verdict(valid) = "date_overshoot" => seen.date > b.target
          /\ Verdict(valid) = "timeout" => late
      <3> HIDE DEF valid
      <3> QED BY <1>3, VerdictIs
    <2>3. b' \in ControllerFields
      <3> HIDE DEF valid
      <3>1. Verdict(valid) \in Maybe(Verdicts)
        BY <2>2, Basics
      <3> QED BY <1>1, <2>1, <3>1 DEF ControllerFields
    <2>4. b'.start = b.start /\ b'.target = b.target /\ ~b'.active /\ b'.verdict = Verdict(valid)
      <3> HIDE DEF valid
      <3> QED BY <1>1, <2>1 DEF ControllerFields
    <2>5. Fields'
      BY <1>1, <1>2, <2>1, <2>3 DEF Control, Fields, Unread, Steps
    <2>6. WayIn' /\ Ended' /\ HumanIsAlwaysKnown'
      BY <1>1, <1>2, <2>1 DEF Control, WayIn, Ended, HumanIsAlwaysKnown
    <2>7. InBenchmark'
      <3> HIDE DEF valid
      <3> QED BY <1>1, <1>2, <1>3, <2>1, <2>2, <2>4 DEF Control, InBenchmark, Unread
    <2> QED BY <2>5, <2>6, <2>7 DEF Control
  <1>4. CASE Verdict(valid) = None
    <2>1. PICK held \in BOOLEAN : b' = [b EXCEPT !.prev = seen.date, !.held = held]
      <3>1. b' = [b EXCEPT !.prev = seen.date, !.held = there /\ seen.paused]
        BY <1>4 DEF TickBenchmark
      <3>2. (there /\ seen.paused) \in BOOLEAN
        OBVIOUS
      <3> QED BY <3>1, <3>2
    <2>2. seen.date \in Maybe(Int)
      BY <1>1, Basics, RunnerAssumption DEF Snapshots
    <2>3. b' \in ControllerFields
      BY <1>1, <2>1, <2>2 DEF ControllerFields
    <2>4. b'.start = b.start /\ b'.target = b.target /\ b'.active = b.active
      BY <1>1, <2>1 DEF ControllerFields
    <2>5. CASE Finish("pause_failed", seen.date, None) /\ UNCHANGED game
      BY <1>1, <1>2, <2>3, <2>4, <2>5, FinishControl
    <2>6. CASE /\ game' = IF there THEN Pausing(game, TRUE, ~seen.paused) ELSE game
               /\ Goto(IF there THEN "idle" ELSE AfterBench) /\ UNCHANGED <<r, timer>>
      <3>1. /\ game' \in GameFields /\ game'.human = game.human /\ game'.ai = game.ai /\ game'.date = game.date
            /\ game'.phase = game.phase /\ game'.orphan = game.orphan
        <4>1. (~seen.paused) \in BOOLEAN
          OBVIOUS
        <4> QED BY <1>1, <2>6, <4>1, Paused
      <3>2. HumanIsAlwaysKnown' /\ (r'.pending <=> r'.target # None)
        BY <2>6, <3>1 DEF Control, Fields, HumanIsAlwaysKnown
      <3>3. CASE there
        <4>1. /\ pc' = "idle" /\ seen' = None /\ (r'.play => game'.phase # "menu")
              /\ (r'.observe \/ r'.popups => cfg.observe) /\ (r'.monitoring => r'.recorded)
          BY <1>1, <2>6, <3>1, <3>3 DEF Goto, Control, WayIn
        <4> QED BY <1>1, <1>2, <2>3, <2>4, <2>6, <3>1, <3>2, <4>1, BackToIdle
      <3>4. CASE ~there
        <4>1. /\ pc' \in {"watch", "configure", "speed"} /\ seen' = seen
              /\ (pc' = "watch" => r.monitoring) /\ (pc' = "configure" => r.observe)
          BY <2>6, <3>4 DEF Goto, AfterBench
        <4>2. WayIn' /\ Ended'
          BY <1>1, <1>2, <2>6, <3>1, <4>1 DEF Control, WayIn, Ended
        <4> QED BY <1>1, <1>2, <2>3, <2>4, <2>6, <3>1, <3>2, <4>1, <4>2, GoesOn DEF Steps, Unread
      <3> QED BY <3>3, <3>4
    <2> QED BY <1>4, <2>5, <2>6 DEF TickBenchmark
  <1> QED BY <1>3, <1>4

LEMMA StopBenchmarkControl == Control /\ StopBenchmark => Control'
  <1> SUFFICES ASSUME Control, StopBenchmark PROVE Control'
    OBVIOUS
  <1>1. pc \notin Unread /\ r.play /\ b \in ControllerFields
    BY DEF Control, Fields, WayIn, StopBenchmark, Unread
  <1>2. UNCHANGED <<cfg, late, b>> /\ PauseTakes
    BY DEF StopBenchmark, Kept
  <1>3. \E reason, actual, paused : Finish(reason, actual, paused)
    BY DEF StopBenchmark
  <1>4. PICK reason, actual, paused : Finish(reason, actual, paused)
    BY <1>3
  <1> QED BY <1>1, <1>2, <1>4, PauseFacts, FinishControl

LEMMA TimerUnavailableControl == Control /\ TimerUnavailable => Control'
  <1> SUFFICES ASSUME Control, TimerUnavailable PROVE Control'
    OBVIOUS
  <1>1. pc \notin Unread /\ r.play /\ b \in ControllerFields
    BY DEF Control, Fields, WayIn, TimerUnavailable, Unread
  <1>2. UNCHANGED <<cfg, late, b>> /\ PauseTakes
    BY DEF TimerUnavailable, Kept
  <1>3. \E reason, actual, paused : Finish(reason, actual, paused)
    BY DEF TimerUnavailable
  <1>4. PICK reason, actual, paused : Finish(reason, actual, paused)
    BY <1>3
  <1> QED BY <1>1, <1>2, <1>4, PauseFacts, FinishControl

LEMMA FinishInvalidBenchmarkControl == Control /\ FinishInvalidBenchmark => Control'
  <1> SUFFICES ASSUME Control, FinishInvalidBenchmark PROVE Control'
    OBVIOUS
  <1>1. r \in LauncherFields /\ game.human \cap game.ai = {} /\ pc = "invalid" /\ timer \in BOOLEAN
        /\ (r.terminal => ~timer)
    BY DEF Control, Fields, Ended, FinishInvalidBenchmark
  <1>2. UNCHANGED <<cfg, late, b, r, timer>> /\ PauseTakes /\ Goto("idle")
    BY DEF FinishInvalidBenchmark, Kept
  <1> QED BY <1>1, <1>2, PauseFacts, Returned

LEMMA QuitControl == Control /\ Quit => Control'
  <1> SUFFICES ASSUME Control, Quit PROVE Control'
    OBVIOUS
  <1>1. r \in LauncherFields /\ game \in GameFields /\ game.human \cap game.ai = {} /\ pc = "quit"
        /\ timer \in BOOLEAN /\ (r.terminal => ~timer)
    BY DEF Control, Fields, Ended, Quit
  <1>2. UNCHANGED <<cfg, late, b, r, timer>> /\ Goto("idle")
    BY DEF Quit, Quiet, Kept
  <1>3. /\ game' \in GameFields /\ game'.human = game.human /\ game'.ai = game.ai /\ game'.date = game.date
        /\ game'.phase = game.phase /\ game'.orphan = game.orphan
    <2>1. game' = game \/ game' = [game EXCEPT !.quit = TRUE]
      BY DEF Quit
    <2> QED BY <1>1, <2>1 DEF GameFields
  <1> QED BY <1>1, <1>2, <1>3, Returned

LEMMA NoBenchmarkToStartControl == Control /\ NoBenchmarkToStart => Control'
  <1> SUFFICES ASSUME Control, NoBenchmarkToStart PROVE Control'
    OBVIOUS
  <1>1. r \in LauncherFields /\ game \in GameFields /\ game.human \cap game.ai = {} /\ timer \in BOOLEAN
        /\ pc \in {"begin", "gameover"} /\ (r.terminal => ~timer)
    BY DEF Control, Fields, Ended, NoBenchmarkToStart
  <1>2. UNCHANGED <<cfg, late, b, r, game, timer>> /\ Goto("idle")
    BY DEF NoBenchmarkToStart, Quiet, Kept
  <1> QED BY <1>1, <1>2, Returned

LEMMA TargetIs ==
  ASSUME Control, pc \notin Unread, Bounded(cfg)
  PROVE  Target \in Int /\ seen.date \in Int
  <1>1. cfg \in Launches /\ seen \in Snapshots
    BY DEF Control, Fields
  <1>2. seen.date \in Int
    BY <1>1, RunnerAssumption DEF Snapshots
  <1>3. cfg.days # None => cfg.days \in Int
    BY <1>1 DEF Launches
  <1>4. cfg.target # None => cfg.target \in Int
    BY <1>1 DEF Launches
  <1> QED BY <1>2, <1>3, <1>4, DayAssumption DEF Target, Bounded

LEMMA BeginBenchmarkControl == Control /\ BeginBenchmark => Control'
  <1> SUFFICES ASSUME Control, BeginBenchmark PROVE Control'
    OBVIOUS
  <1>1. /\ r \in LauncherFields /\ b \in ControllerFields /\ game \in GameFields
        /\ pc \notin Unread /\ pc \in {"begin", "gameover"}
        /\ ~r.terminal /\ ~r.started /\ r.play /\ Bounded(cfg) /\ (r.popups => r.monitoring)
    BY DEF Control, Fields, Ended, WayIn, BeginBenchmark, StartsBenchmark, Unread
  <1>2. UNCHANGED <<cfg, late, game>>
    BY DEF BeginBenchmark, Kept
  <1>3. Target \in Int /\ seen.date \in Int
    BY <1>1, TargetIs
  <1>4. CASE Reachable(seen.date, Target)
    <2>1. /\ b' = [NoController EXCEPT !.active = TRUE, !.start = seen.date, !.target = Target, !.prev = seen.date]
          /\ r' = [r EXCEPT !.started = TRUE]
      BY <1>4 DEF BeginBenchmark
    <2>2. /\ timer' \in BOOLEAN
          /\ \/ pc' = "idle" /\ seen' = None
             \/ pc' = "gameover" /\ pc = "gameover" /\ seen' = seen
             \/ pc' = "untimed" /\ seen' = seen
      BY <1>1, <1>4 DEF BeginBenchmark, Goto
    <2>3. b' \in ControllerFields
      <3>1. seen.date \in Maybe(Int) /\ Target \in Maybe(Int) /\ None \in Maybe(Int) /\ None \in Maybe(Verdicts)
        BY <1>3, Basics
      <3> HIDE <1>3
      <3> QED BY <2>1, <3>1 DEF ControllerFields, NoController
    <2>4. b'.start = seen.date /\ b'.target = Target
      BY <2>1 DEF NoController
    <2>5. r' \in LauncherFields
      BY <1>1, <2>1 DEF LauncherFields
    <2>6. /\ r'.alive = r.alive /\ r'.ai = r.ai /\ r'.pending = r.pending /\ r'.target = r.target
          /\ r'.terminal = r.terminal /\ r'.play = r.play /\ r'.observe = r.observe /\ r'.popups = r.popups
          /\ r'.monitoring = r.monitoring /\ r'.recorded = r.recorded /\ r'.started
          /\ r'.speed = r.speed /\ r'.unclean = r.unclean
      BY <1>1, <2>1 DEF LauncherFields
    <2>7. Fields'
      BY <1>1, <1>2, <2>2, <2>3, <2>5, <2>6 DEF Control, Fields, Unread, Steps
    <2>8. WayIn' /\ Ended' /\ HumanIsAlwaysKnown'
      BY <1>1, <1>2, <2>2, <2>6 DEF Control, WayIn, Ended, HumanIsAlwaysKnown
    <2>9. InBenchmark'
      BY <1>1, <1>2, <1>3, <1>4, <2>2, <2>4, <2>6 DEF Control, InBenchmark, Unread
    <2> QED BY <2>7, <2>8, <2>9 DEF Control
  <1>5. CASE ~Reachable(seen.date, Target)
    <2>1. /\ r' = [r EXCEPT !.terminal = TRUE, !.monitoring = FALSE, !.popups = FALSE]
          /\ timer' = FALSE /\ pc' = "invalid" /\ UNCHANGED <<b, seen>>
      BY <1>5 DEF BeginBenchmark, Goto
    <2>2. r' \in LauncherFields
      BY <1>1, <2>1 DEF LauncherFields
    <2>3. /\ r'.alive = r.alive /\ r'.ai = r.ai /\ r'.pending = r.pending /\ r'.target = r.target
          /\ r'.terminal /\ r'.play = r.play /\ r'.observe = r.observe /\ ~r'.popups
          /\ ~r'.monitoring /\ r'.recorded = r.recorded /\ r'.started = r.started
          /\ r'.speed = r.speed /\ r'.unclean = r.unclean
      BY <1>1, <2>1 DEF LauncherFields
    <2>4. Fields'
      BY <1>1, <1>2, <2>1, <2>2, <2>3 DEF Control, Fields, Unread, Steps
    <2>5. WayIn' /\ Ended' /\ HumanIsAlwaysKnown'
      BY <1>1, <1>2, <2>1, <2>3 DEF Control, WayIn, Ended, HumanIsAlwaysKnown
    <2>6. InBenchmark'
      <3>1. Target' = Target
        BY <1>2, <2>1 DEF Target
      <3> QED BY <1>1, <1>2, <1>5, <2>1, <2>3, <3>1 DEF Control, InBenchmark, Unread
    <2> QED BY <2>4, <2>5, <2>6 DEF Control
  <1> QED BY <1>4, <1>5

-----------------------------------------------------------------------------
(* Configuration, and the watchdog.                                        *)

LEMMA Waits ==
  ASSUME Control, r' = [r EXCEPT !.tries = IF @ < Tries THEN @ + 1 ELSE @]
  PROVE  /\ r' \in LauncherFields
         /\ r'.alive = r.alive /\ r'.ai = r.ai /\ r'.pending = r.pending /\ r'.target = r.target
         /\ r'.terminal = r.terminal /\ r'.play = r.play /\ r'.observe = r.observe /\ r'.popups = r.popups
         /\ r'.monitoring = r.monitoring /\ r'.recorded = r.recorded /\ r'.started = r.started
         /\ r'.unclean = r.unclean
  <1>1. r \in LauncherFields
    BY DEF Control, Fields
  <1>2. r.tries \in Counts
    BY <1>1 DEF LauncherFields
  <1>3. PICK n \in Counts : r' = [r EXCEPT !.tries = n]
    <2>1. (IF r.tries < Tries THEN r.tries + 1 ELSE r.tries) \in Counts
      BY <1>2, Basics
    <2> QED BY <2>1
  <1>4. r' \in LauncherFields
    BY <1>1, <1>3 DEF LauncherFields
  <1> QED BY <1>1, <1>3, <1>4 DEF LauncherFields

LEMMA ConfigureObserverControl == Control /\ ConfigureObserver => Control'
  <1> SUFFICES ASSUME Control, ConfigureObserver PROVE Control'
    OBVIOUS
  <1>1. /\ r \in LauncherFields /\ b \in ControllerFields /\ game \in GameFields /\ game.human \cap game.ai = {}
        /\ timer \in BOOLEAN /\ pc = "configure" /\ ~r.terminal /\ r.observe /\ (r.popups => r.monitoring)
    BY DEF Control, Fields, Ended, WayIn, ConfigureObserver
  <1>2. UNCHANGED <<cfg, late, b>>
    BY DEF ConfigureObserver, Quiet, Kept
  <1>3. CASE ~r.console
    <2>1. WaitForConsole /\ UNCHANGED game
      BY <1>3 DEF ConfigureObserver
    <2>2. Goto("idle") /\ timer' \in BOOLEAN
      BY <1>1, <2>1 DEF WaitForConsole, Rearm, GiveUp
    <2>3. r' = [r EXCEPT !.tries = IF @ < Tries THEN @ + 1 ELSE @]
      BY <2>1 DEF WaitForConsole
    <2> QED BY <1>1, <1>2, <2>1, <2>2, <2>3, Waits, Returned
  <1>4. CASE r.console
    <2>1. r' = [r EXCEPT !.tries = 0]
      BY <1>4 DEF ConfigureObserver
    <2>2. r' \in LauncherFields
      BY <1>1, <2>1, Basics DEF LauncherFields
    <2>3. /\ r'.alive = r.alive /\ r'.ai = r.ai /\ r'.pending = r.pending /\ r'.target = r.target
          /\ r'.terminal = r.terminal /\ r'.play = r.play /\ r'.observe = r.observe /\ r'.popups = r.popups
          /\ r'.monitoring = r.monitoring /\ r'.recorded = r.recorded /\ r'.started = r.started
          /\ r'.speed = r.speed /\ r'.unclean = r.unclean
      BY <1>1, <2>1 DEF LauncherFields
    <2>4. CASE GiveUp /\ UNCHANGED game
      <3>1. Goto("idle") /\ timer' \in BOOLEAN
        BY <1>1, <2>4 DEF GiveUp
      <3> QED BY <1>1, <1>2, <2>2, <2>3, <2>4, <3>1, Returned
    <2>5. CASE /\ game' = IF seen.paused THEN game ELSE [game EXCEPT !.paused = TRUE]
               /\ Goto("handover") /\ UNCHANGED timer
      <3>1. /\ game' \in GameFields /\ game'.human = game.human /\ game'.ai = game.ai /\ game'.date = game.date
            /\ game'.phase = game.phase /\ game'.orphan = game.orphan
        BY <1>1, <2>5 DEF GameFields
      <3>2. pc' = "handover" /\ seen' = seen /\ (r'.pending <=> r'.target # None)
        BY <2>3, <2>5 DEF Goto, Control, Fields
      <3>3. WayIn' /\ Ended' /\ HumanIsAlwaysKnown'
        BY <1>1, <1>2, <2>3, <3>1, <3>2 DEF Control, WayIn, Ended, HumanIsAlwaysKnown
      <3> QED BY <1>1, <1>2, <2>2, <2>3, <2>5, <3>1, <3>2, <3>3, GoesOn DEF Steps, Unread
    <2> QED BY <1>4, <2>4, <2>5 DEF ConfigureObserver
  <1> QED BY <1>3, <1>4

LEMMA GivenBack ==
  ASSUME NEW g \in GameFields, NEW c \in Countries, g.human \cap g.ai = {}
  PROVE  /\ ReturnedToAI(g, c) \in GameFields
         /\ ReturnedToAI(g, c).human = g.human \ {c} /\ ReturnedToAI(g, c).ai = g.ai \cup {c}
         /\ ReturnedToAI(g, c).date = g.date /\ ReturnedToAI(g, c).phase = g.phase
         /\ ReturnedToAI(g, c).orphan = g.orphan
         /\ ReturnedToAI(g, c).human \cap ReturnedToAI(g, c).ai = {}
  BY DEF ReturnedToAI, GameFields

LEMMA HandOverControl == Control /\ HandOver => Control'
  <1> SUFFICES ASSUME Control, HandOver PROVE Control'
    OBVIOUS
  <1>1. /\ r \in LauncherFields /\ b \in ControllerFields /\ game \in GameFields /\ game.human \cap game.ai = {}
        /\ timer \in BOOLEAN /\ pc = "handover" /\ ~r.terminal /\ r.observe /\ (r.popups => r.monitoring)
    BY DEF Control, Fields, Ended, WayIn, HandOver
  <1>2. UNCHANGED <<cfg, late, b>>
    BY DEF HandOver, Quiet, Kept
  <1>3. CASE r.ai /\ Goto("fog") /\ UNCHANGED <<r, timer, game>>
    <2>1. pc' = "fog" /\ seen' = seen /\ (r'.pending <=> r'.target # None)
      BY <1>3 DEF Goto, Control, Fields
    <2>2. WayIn' /\ Ended' /\ HumanIsAlwaysKnown'
      BY <1>1, <1>2, <1>3, <2>1 DEF Control, WayIn, Ended, HumanIsAlwaysKnown
    <2> QED BY <1>1, <1>2, <1>3, <2>1, <2>2, GoesOn DEF Steps, Unread
  <1>4. CASE ~r.ai /\ GiveUp /\ UNCHANGED <<r, game>>
    <2>1. Goto("idle") /\ timer' \in BOOLEAN
      BY <1>1, <1>4 DEF GiveUp
    <2> QED BY <1>1, <1>2, <1>4, <2>1, Returned
  <1>5. CASE ~r.ai /\ Controlled(game, game.view) /\ game' = ReturnedToAI(game, game.view)
             /\ IF game'.human = {} THEN r' = [r EXCEPT !.ai = TRUE] /\ Goto("fog") /\ UNCHANGED timer
                ELSE GiveUp /\ UNCHANGED r
    <2>1. /\ game' \in GameFields /\ game'.human = game.human \ {game.view} /\ game'.date = game.date
          /\ game'.phase = game.phase /\ game'.orphan = game.orphan /\ game'.human \cap game'.ai = {}
      <3>1. game.view \in Countries
        BY <1>1 DEF GameFields
      <3> QED BY <1>1, <1>5, <3>1, GivenBack
    <2>2. CASE game'.human = {}
      <3>1. r' = [r EXCEPT !.ai = TRUE] /\ Goto("fog") /\ UNCHANGED timer
        BY <1>5, <2>2
      <3>2. r' \in LauncherFields
        BY <1>1, <3>1 DEF LauncherFields
      <3>3. /\ r'.alive = r.alive /\ r'.pending = r.pending /\ r'.target = r.target
            /\ r'.terminal = r.terminal /\ r'.play = r.play /\ r'.observe = r.observe /\ r'.popups = r.popups
            /\ r'.monitoring = r.monitoring /\ r'.recorded = r.recorded /\ r'.started = r.started
            /\ r'.speed = r.speed /\ r'.unclean = r.unclean
        BY <1>1, <3>1 DEF LauncherFields
      <3>4. pc' = "fog" /\ seen' = seen /\ (r'.pending <=> r'.target # None)
        BY <3>1, <3>3 DEF Goto, Control, Fields
      <3>5. WayIn' /\ Ended' /\ HumanIsAlwaysKnown'
        BY <1>1, <1>2, <2>1, <2>2, <3>3, <3>4 DEF Control, WayIn, Ended, HumanIsAlwaysKnown
      <3> QED BY <1>1, <1>2, <2>1, <3>1, <3>2, <3>3, <3>4, <3>5, GoesOn DEF Steps, Unread
    <2>3. CASE game'.human # {}
      <3>1. Goto("idle") /\ timer' \in BOOLEAN /\ UNCHANGED r
        BY <1>1, <1>5, <2>3 DEF GiveUp
      <3> QED BY <1>1, <1>2, <2>1, <3>1, Returned
    <2> QED BY <2>2, <2>3
  <1> QED BY <1>3, <1>4, <1>5 DEF HandOver

LEMMA LiftFogControl == Control /\ LiftFog => Control'
  <1> SUFFICES ASSUME Control, LiftFog PROVE Control'
    OBVIOUS
  <1>1. /\ r \in LauncherFields /\ b \in ControllerFields /\ game \in GameFields /\ game.human \cap game.ai = {}
        /\ timer \in BOOLEAN /\ pc = "fog" /\ ~r.terminal /\ r.observe /\ (r.popups => r.monitoring)
    BY DEF Control, Fields, Ended, WayIn, LiftFog
  <1>2. UNCHANGED <<cfg, late, b>>
    BY DEF LiftFog, Quiet, Kept
  <1>3. CASE GiveUp /\ UNCHANGED <<r, game>>
    <2>1. Goto("idle") /\ timer' \in BOOLEAN
      BY <1>1, <1>3 DEF GiveUp
    <2> QED BY <1>1, <1>2, <1>3, <2>1, Returned
  <1>4. CASE WaitForConsole /\ UNCHANGED game
    <2>2. Goto("idle") /\ timer' \in BOOLEAN
      BY <1>1, <1>4 DEF WaitForConsole, Rearm, GiveUp
    <2>3. r' = [r EXCEPT !.tries = IF @ < Tries THEN @ + 1 ELSE @]
      BY <1>4 DEF WaitForConsole
    <2> QED BY <1>1, <1>2, <1>4, <2>2, <2>3, Waits, Returned
  <1>5. CASE /\ game' = [game EXCEPT !.fog = FALSE]
             /\ r' = [r EXCEPT !.observe = FALSE, !.popups = TRUE]
             /\ Goto("speed") /\ UNCHANGED timer
    <2>1. /\ game' \in GameFields /\ game'.human = game.human /\ game'.ai = game.ai /\ game'.date = game.date
          /\ game'.phase = game.phase /\ game'.orphan = game.orphan
      BY <1>1, <1>5 DEF GameFields
    <2>2. r' \in LauncherFields
      BY <1>1, <1>5 DEF LauncherFields
    <2>3. /\ r'.alive = r.alive /\ r'.ai = r.ai /\ r'.pending = r.pending /\ r'.target = r.target
          /\ r'.terminal = r.terminal /\ r'.play = r.play /\ ~r'.observe /\ r'.popups
          /\ r'.monitoring = r.monitoring /\ r'.recorded = r.recorded /\ r'.started = r.started
          /\ r'.speed = r.speed /\ r'.unclean = r.unclean
      BY <1>1, <1>5 DEF LauncherFields
    <2>4. pc' = "speed" /\ seen' = seen /\ (r'.pending <=> r'.target # None)
      BY <1>5, <2>3 DEF Goto, Control, Fields
    <2>5. WayIn' /\ Ended' /\ HumanIsAlwaysKnown'
      BY <1>1, <1>2, <2>1, <2>3, <2>4 DEF Control, WayIn, Ended, HumanIsAlwaysKnown
    <2> QED BY <1>1, <1>2, <1>5, <2>1, <2>2, <2>3, <2>4, <2>5, GoesOn DEF Steps, Unread
  <1> QED BY <1>3, <1>4, <1>5 DEF LiftFog

LEMMA SelectSpeedControl == Control /\ SelectSpeed => Control'
  <1> SUFFICES ASSUME Control, SelectSpeed PROVE Control'
    OBVIOUS
  <1>1. /\ r \in LauncherFields /\ b \in ControllerFields /\ game \in GameFields /\ game.human \cap game.ai = {}
        /\ timer \in BOOLEAN /\ pc = "speed" /\ ~r.terminal
    BY DEF Control, Fields, Ended, SelectSpeed
  <1>2. UNCHANGED <<cfg, late, b, game>> /\ timer' = timer
    BY DEF SelectSpeed, Kept, GiveUp
  <1>3. PICK speed \in BOOLEAN, popups \in BOOLEAN :
          /\ r' = [r EXCEPT !.speed = speed, !.popups = popups]
          /\ \/ pc' = "release" /\ seen' = seen /\ speed /\ popups = r.popups
             \/ pc' = "idle" /\ seen' = None /\ ~popups
    <2>1. r = [r EXCEPT !.speed = r.speed, !.popups = r.popups] /\ r.speed \in BOOLEAN /\ r.popups \in BOOLEAN
      BY <1>1 DEF LauncherFields
    <2>2. CASE r.speed /\ Goto("release") /\ UNCHANGED r
      <3>1. pc' = "release" /\ seen' = seen
        BY <2>2 DEF Goto
      <3> QED BY <2>1, <2>2, <3>1
    <2>3. CASE r' = [r EXCEPT !.speed = TRUE] /\ Goto("release")
      <3>1. r' = [r EXCEPT !.speed = TRUE, !.popups = r.popups]
        BY <1>1, <2>3 DEF LauncherFields
      <3>2. pc' = "release" /\ seen' = seen
        BY <2>3 DEF Goto
      <3> QED BY <2>1, <3>1, <3>2
    <2>4. CASE r' = [r EXCEPT !.popups = FALSE] /\ GiveUp
      <3>1. r' = [r EXCEPT !.speed = r.speed, !.popups = FALSE]
        BY <1>1, <2>4 DEF LauncherFields
      <3>2. pc' = "idle" /\ seen' = None
        BY <2>4 DEF Goto, GiveUp
      <3> QED BY <2>1, <3>1, <3>2
    <2> QED BY <2>2, <2>3, <2>4 DEF SelectSpeed
  <1>4. r' \in LauncherFields
    BY <1>1, <1>3 DEF LauncherFields
  <1>5. /\ r'.alive = r.alive /\ r'.ai = r.ai /\ r'.pending = r.pending /\ r'.target = r.target
        /\ r'.terminal = r.terminal /\ r'.play = r.play /\ r'.observe = r.observe /\ r'.popups = popups
        /\ r'.monitoring = r.monitoring /\ r'.recorded = r.recorded /\ r'.started = r.started
        /\ r'.speed = speed /\ r'.unclean = r.unclean
    BY <1>1, <1>3 DEF LauncherFields
  <1>6. (r'.pending <=> r'.target # None) /\ HumanIsAlwaysKnown'
    BY <1>2, <1>5 DEF Control, Fields, HumanIsAlwaysKnown
  <1>7. CASE pc' = "release" /\ seen' = seen /\ speed /\ popups = r.popups
    <2>1. WayIn' /\ Ended'
      BY <1>1, <1>2, <1>5, <1>7 DEF Control, WayIn, Ended
    <2> QED BY <1>1, <1>2, <1>4, <1>5, <1>6, <1>7, <2>1, GoesOn DEF Steps, Unread
  <1>8. CASE pc' = "idle" /\ seen' = None /\ ~popups
    <2>1. /\ (r'.play => game'.phase # "menu") /\ (r'.observe \/ r'.popups => cfg.observe)
          /\ (r'.monitoring => r'.recorded)
      BY <1>1, <1>2, <1>5, <1>8 DEF Control, WayIn
    <2> QED BY <1>1, <1>2, <1>4, <1>5, <1>6, <1>8, <2>1, BackToIdle
  <1> QED BY <1>3, <1>7, <1>8

LEMMA StopMonitoringControl ==
  ASSUME Control, NEW g \in GameFields, NEW restore \in BOOLEAN, g.human \cap g.ai = {},
         g.date = game.date, g.phase = game.phase,
         StopMonitoring(g, restore), UNCHANGED <<cfg, late, b>>
  PROVE  Control'
  <1>1. /\ r' \in LauncherFields /\ game' \in GameFields /\ game'.human \cap game'.ai = {}
        /\ game'.phase = g.phase /\ game'.date = g.date
        /\ r'.pending = FALSE /\ r'.target = None
        /\ r'.popups = FALSE /\ r'.monitoring = FALSE
        /\ game'.human # {} => r'.unclean
        /\ r'.terminal = r.terminal /\ r'.play = r.play /\ r'.observe = r.observe
        /\ r'.started = r.started
    BY StopsMonitoring
  <1>2. timer' = FALSE /\ pc' = "idle" /\ seen' = None
    BY DEF StopMonitoring, Goto
  <1>3. b' \in ControllerFields
    BY DEF Control, Fields
  <1>4. /\ r'.terminal => r'.play
        /\ r'.play => game'.phase # "menu"
        /\ r'.observe \/ r'.popups => cfg.observe
    BY <1>1 DEF Control, WayIn
  <1>5. HumanIsAlwaysKnown'
    BY <1>1 DEF HumanIsAlwaysKnown
  <1> QED BY <1>1, <1>2, <1>3, <1>4, <1>5, BackToIdle

LEMMA AtWatch ==
  ASSUME Control, pc = "watch"
  PROVE  /\ r \in LauncherFields /\ b \in ControllerFields /\ game \in GameFields /\ game.human \cap game.ai = {}
         /\ timer \in BOOLEAN /\ ~r.terminal /\ r.monitoring /\ r.recorded /\ (r.popups => r.monitoring)
         /\ (r.play => game.phase # "menu") /\ r.play /\ (r.observe \/ r.popups => cfg.observe)
  BY DEF Control, Fields, Ended, WayIn

LEMMA HeldFacts ==
  ASSUME Control, NEW paused \in BOOLEAN
  PROVE  LET held == [game EXCEPT !.paused = paused]
         IN /\ held \in GameFields /\ held.human = game.human /\ held.ai = game.ai /\ held.date = game.date
            /\ held.phase = game.phase /\ held.orphan = game.orphan /\ held.human \cap held.ai = {}
  BY GameFacts DEF GameFields

LEMMA WatchLaterControl == Control /\ WatchLater => Control'
  <1> SUFFICES ASSUME Control, WatchLater PROVE Control'
    OBVIOUS
  <1>1. pc = "watch" /\ UNCHANGED <<cfg, late, b, r, timer, game>> /\ Goto("idle")
    BY DEF WatchLater, Quiet, Kept
  <1> QED BY <1>1, AtWatch, Returned

\* The watchdog asks for a switch and waits for it.
LEMMA SwitchWaits ==
  ASSUME Control, pc = "watch", NEW c \in Countries, NEW n \in Nat, UNCHANGED <<cfg, late, b, timer>>,
         Goto("idle"), game' = Switching([game EXCEPT !.paused = TRUE], c),
         LET launcher == [r EXCEPT !.pending = TRUE, !.target = c, !.tries = 0, !.aiBefore = n]
         IN r' = launcher \/ r' = [launcher EXCEPT !.view = None]
  PROVE  Control'
  <1> DEFINE launcher == [r EXCEPT !.pending = TRUE, !.target = c, !.tries = 0, !.aiBefore = n]
  <1>1. r \in LauncherFields /\ game \in GameFields
    BY AtWatch
  <1>2. /\ launcher \in LauncherFields
        /\ launcher.alive = r.alive /\ launcher.ai = r.ai /\ launcher.pending /\ launcher.target = c
        /\ launcher.terminal = r.terminal /\ launcher.play = r.play /\ launcher.observe = r.observe
        /\ launcher.popups = r.popups /\ launcher.monitoring = r.monitoring /\ launcher.recorded = r.recorded
        /\ launcher.started = r.started /\ launcher.unclean = r.unclean
    <2>1. launcher \in LauncherFields
      BY SwitchAsked, <1>1
    <2> QED BY <1>1, <2>1 DEF LauncherFields
  <1> HIDE DEF launcher
  <1>3. r' = launcher \/ r' = [launcher EXCEPT !.view = None]
    BY DEF launcher
  <1>4. r' \in LauncherFields
    BY <1>2, <1>3, Basics DEF LauncherFields
  <1>5. /\ r'.alive = r.alive /\ r'.ai = r.ai /\ r'.pending /\ r'.target = c
        /\ r'.terminal = r.terminal /\ r'.play = r.play /\ r'.observe = r.observe /\ r'.popups = r.popups
        /\ r'.monitoring = r.monitoring /\ r'.recorded = r.recorded /\ r'.started = r.started
        /\ r'.unclean = r.unclean
    BY <1>2, <1>3 DEF LauncherFields
  <1>6. /\ game' \in GameFields /\ game'.human = game.human /\ game'.ai = game.ai /\ game'.date = game.date
        /\ game'.phase = game.phase /\ game'.orphan = game.orphan
    <2>1. game' \in GameFields
      BY <1>1, SwitchAsked
    <2> QED BY <1>1, <2>1 DEF GameFields, Switching
  <1>7. pc' = "idle" /\ seen' = None /\ (r'.pending <=> r'.target # None)
    BY <1>5, Basics DEF Goto
  <1>8. HumanIsAlwaysKnown'
    BY <1>5 DEF HumanIsAlwaysKnown
  <1> QED BY <1>4, <1>5, <1>6, <1>7, <1>8, AtWatch, BackToIdle

LEMMA WatchViewControl == Control /\ WatchView => Control'
  <1> SUFFICES ASSUME Control, WatchView PROVE Control'
    OBVIOUS
  <1>1. pc = "watch" /\ UNCHANGED <<cfg, late, b>>
    BY DEF WatchView, Quiet, Kept
  <1>2. game \in GameFields /\ game.human \cap game.ai = {}
    BY <1>1, AtWatch
  <1>3. CASE StopMonitoring(game, FALSE)
    BY <1>1, <1>2, <1>3, StopMonitoringControl
  <1>4. CASE \E resumed \in BOOLEAN : StopMonitoring([game EXCEPT !.paused = @ \/ ~resumed], FALSE)
    <2>1. PICK resumed \in BOOLEAN : StopMonitoring([game EXCEPT !.paused = game.paused \/ ~resumed], FALSE)
      BY <1>4
    <2>2. PICK paused \in BOOLEAN : paused = (game.paused \/ ~resumed)
      OBVIOUS
    <2>3. StopMonitoring([game EXCEPT !.paused = paused], FALSE)
      BY <2>1, <2>2
    <2> QED BY <1>1, <2>3, HeldFacts, StopMonitoringControl
  <1>5. CASE /\ MaySwitch(r.view)
             /\ r' = [[r EXCEPT !.pending = TRUE, !.target = r.view, !.tries = 0,
                                !.aiBefore = Cardinality(game.ai)] EXCEPT !.view = None]
             /\ game' = Switching([game EXCEPT !.paused = TRUE], r.view)
             /\ Goto("idle") /\ UNCHANGED timer
    <2>1. r.view \in Countries /\ Cardinality(game.ai) \in Nat
      BY <1>2, <1>5, Basics DEF MaySwitch, GameFields
    <2> QED BY <1>1, <1>5, <2>1, SwitchWaits
  <1> QED BY <1>3, <1>4, <1>5 DEF WatchView, RequestSwitch

LEMMA WatchFailoverControl == Control /\ WatchFailover => Control'
  <1> SUFFICES ASSUME Control, WatchFailover PROVE Control'
    OBVIOUS
  <1>1. pc = "watch" /\ UNCHANGED <<cfg, late, b>>
    BY DEF WatchFailover, Watching, Quiet, Kept
  <1>2. game \in GameFields /\ game.human \cap game.ai = {}
    BY <1>1, AtWatch
  <1>3. CASE StopMonitoring(game, FALSE)
    BY <1>1, <1>2, <1>3, StopMonitoringControl
  <1>4. CASE StopMonitoring([game EXCEPT !.paused = TRUE], FALSE)
    BY <1>1, <1>4, HeldFacts, StopMonitoringControl
  <1>5. CASE \E read \in {TRUE, FALSE} : \E c \in Countries :
               /\ r' = [r EXCEPT !.pending = TRUE, !.target = c, !.tries = 0,
                                 !.aiBefore = IF read THEN Cardinality(game.ai) ELSE 0]
               /\ game' = Switching([game EXCEPT !.paused = TRUE], c) /\ Goto("idle") /\ UNCHANGED timer
    <2>1. PICK read \in {TRUE, FALSE}, c \in Countries :
               /\ r' = [r EXCEPT !.pending = TRUE, !.target = c, !.tries = 0,
                                 !.aiBefore = IF read THEN Cardinality(game.ai) ELSE 0]
               /\ game' = Switching([game EXCEPT !.paused = TRUE], c) /\ Goto("idle") /\ UNCHANGED timer
      BY <1>5
    <2>2. PICK n \in Nat : n = IF read THEN Cardinality(game.ai) ELSE 0
      BY <1>2, Basics DEF GameFields
    <2> QED BY <1>1, <2>1, <2>2, SwitchWaits
  <1> QED BY <1>3, <1>4, <1>5 DEF WatchFailover

LEMMA WatchPauseControl == Control /\ WatchPause => Control'
  <1> SUFFICES ASSUME Control, WatchPause PROVE Control'
    OBVIOUS
  <1>1. pc = "watch" /\ UNCHANGED <<cfg, late, b>>
    BY DEF WatchPause, Watching, Kept
  <1>2. /\ game \in GameFields /\ game.human \cap game.ai = {} /\ r \in LauncherFields /\ timer \in BOOLEAN
        /\ b \in ControllerFields
    BY <1>1, AtWatch
  <1>3. CASE StopMonitoring(game, FALSE)
    BY <1>1, <1>2, <1>3, StopMonitoringControl
  <1>4. CASE /\ game' = IF seen.paused THEN [game EXCEPT !.paused = FALSE] ELSE game
             /\ (IF ObserverValid THEN Goto("begin") ELSE Goto("idle"))
             /\ UNCHANGED <<r, timer>>
    <2>1. /\ game' \in GameFields /\ game'.human = game.human /\ game'.ai = game.ai /\ game'.date = game.date
          /\ game'.phase = game.phase /\ game'.orphan = game.orphan
      BY <1>2, <1>4, HeldFacts
    <2>2. CASE Goto("idle")
      BY <1>1, <1>2, <1>4, <2>1, <2>2, AtWatch, Returned
    <2>3. CASE Goto("begin")
      <3>1. pc' = "begin" /\ seen' = seen /\ (r'.pending <=> r'.target # None)
        BY <1>4, <2>3 DEF Goto, Control, Fields
      <3>2. WayIn' /\ Ended' /\ HumanIsAlwaysKnown'
        BY <1>1, <1>4, <2>1, <3>1 DEF Control, WayIn, Ended, HumanIsAlwaysKnown
      <3> QED BY <1>1, <1>2, <1>4, <2>1, <3>1, <3>2, GoesOn DEF Steps, Unread
    <2> QED BY <1>4, <2>2, <2>3
  <1> QED BY <1>3, <1>4 DEF WatchPause

LEMMA SwitchDone ==
  ASSUME Control, pc = "watch", NEW monitoring \in BOOLEAN, NEW popups \in BOOLEAN,
         monitoring => r.monitoring, popups => r.popups /\ monitoring,
         r' = [r EXCEPT !.pending = FALSE, !.target = None, !.tries = 0,
                        !.monitoring = monitoring, !.popups = popups],
         UNCHANGED <<cfg, late, b>>, timer' \in BOOLEAN, Goto("idle"),
         game' \in GameFields, game'.human = {}, game'.date = game.date, game'.phase = game.phase
  PROVE  Control'
  <1>1. r \in LauncherFields /\ b \in ControllerFields
    BY AtWatch
  <1>7. 0 \in Counts /\ None \in Maybe(Countries)
    BY Basics
  <1>6. ASSUME NEW l \in LauncherFields, NEW n \in Counts, NEW t \in Maybe(Countries), NEW m \in BOOLEAN, NEW p \in BOOLEAN
        PROVE  [l EXCEPT !.pending = FALSE, !.target = t, !.tries = n, !.monitoring = m, !.popups = p] \in LauncherFields
    BY <1>6 DEF LauncherFields
  <1>2. r' \in LauncherFields
    BY <1>1, <1>6, <1>7
  <1>3. /\ r'.alive = r.alive /\ r'.ai = r.ai /\ ~r'.pending /\ r'.target = None
        /\ r'.terminal = r.terminal /\ r'.play = r.play /\ r'.observe = r.observe /\ r'.popups = popups
        /\ r'.monitoring = monitoring /\ r'.recorded = r.recorded /\ r'.started = r.started
    BY <1>1 DEF LauncherFields
  <1>4. pc' = "idle" /\ seen' = None
    BY DEF Goto
  <1>5. HumanIsAlwaysKnown'
    BY DEF HumanIsAlwaysKnown
  <1> QED BY <1>1, <1>2, <1>3, <1>4, <1>5, AtWatch, BackToIdle

LEMMA WatchSwitchControl == Control /\ WatchSwitch => Control'
  <1> SUFFICES ASSUME Control, WatchSwitch PROVE Control'
    OBVIOUS
  <1> DEFINE held == [game EXCEPT !.paused = TRUE]
             back == ReturnedToAI(held, r.target)
             done == [r EXCEPT !.pending = FALSE, !.target = None, !.tries = 0]
  <1>1. pc = "watch" /\ UNCHANGED <<cfg, late, b>> /\ r.pending
    BY DEF WatchSwitch, Watching, Quiet, Kept
  <1>2. /\ game \in GameFields /\ game.human \cap game.ai = {} /\ r \in LauncherFields /\ timer \in BOOLEAN
        /\ b \in ControllerFields
    BY <1>1, AtWatch
  <1>3. r.target \in Countries
    BY <1>1, <1>2, Basics DEF Control, Fields, LauncherFields
  <1>4. /\ held \in GameFields /\ held.human = game.human /\ held.ai = game.ai /\ held.date = game.date
        /\ held.phase = game.phase /\ held.orphan = game.orphan /\ held.human \cap held.ai = {}
    BY HeldFacts
  <1>5. /\ back \in GameFields /\ back.date = game.date /\ back.phase = game.phase
        /\ back.human \cap back.ai = {}
    <2> HIDE DEF held
    <2> QED BY <1>3, <1>4, GivenBack
  <1> HIDE DEF held, back
  <1>6. CASE StopMonitoring(game, FALSE)
    BY <1>1, <1>2, <1>6, StopMonitoringControl
  <1>7. CASE StopMonitoring(held, FALSE) \/ StopMonitoring(held, TRUE)
    BY <1>1, <1>4, <1>7, StopMonitoringControl
  <1>8. CASE game' = held /\ Goto("idle") /\ UNCHANGED <<r, timer>>
    BY <1>1, <1>2, <1>4, <1>8, AtWatch, Returned
  <1>9. CASE /\ back.human = {} /\ game' = [back EXCEPT !.paused = FALSE]
             /\ r' = done /\ Goto("idle") /\ UNCHANGED timer
    <2>1. game' \in GameFields /\ game'.human = {} /\ game'.date = game.date /\ game'.phase = game.phase
      BY <1>5, <1>9 DEF GameFields
    <2>2. r' = [r EXCEPT !.pending = FALSE, !.target = None, !.tries = 0,
                         !.monitoring = r.monitoring, !.popups = r.popups]
      BY <1>2, <1>9 DEF LauncherFields
    <2>3. r.monitoring \in BOOLEAN /\ r.popups \in BOOLEAN /\ (r.popups => r.monitoring)
      BY <1>1, <1>2, AtWatch DEF LauncherFields
    <2> QED BY <1>1, <1>2, <1>9, <2>1, <2>2, <2>3, SwitchDone
  <1>10. CASE /\ back.human = {} /\ game' = back /\ timer' = FALSE /\ Goto("idle")
              /\ r' = [done EXCEPT !.monitoring = FALSE, !.popups = FALSE]
    <2>1. game' \in GameFields /\ game'.human = {} /\ game'.date = game.date /\ game'.phase = game.phase
      BY <1>5, <1>10
    <2>2. r' = [r EXCEPT !.pending = FALSE, !.target = None, !.tries = 0,
                         !.monitoring = FALSE, !.popups = FALSE]
      BY <1>2, <1>10 DEF LauncherFields
    <2> QED BY <1>1, <1>2, <1>10, <2>1, <2>2, SwitchDone
  <1> QED BY <1>6, <1>7, <1>8, <1>9, <1>10 DEF WatchSwitch, held, back

LEMMA ReleaseControl == Control /\ Release => Control'
  <1> SUFFICES ASSUME Control, Release PROVE Control'
    OBVIOUS
  <1>1. /\ r \in LauncherFields /\ b \in ControllerFields /\ game \in GameFields /\ game.human \cap game.ai = {}
        /\ timer \in BOOLEAN /\ pc = "release" /\ ~r.terminal /\ r.play /\ game.phase # "menu"
        /\ (r.observe \/ r.popups => cfg.observe) /\ (cfg.observe => ~cfg.paused) /\ (r.monitoring => r.recorded)
    BY DEF Control, Fields, Ended, WayIn, Release, ArgumentsAgree
  <1>2. UNCHANGED <<cfg, late, b>>
    BY DEF Release, Kept
  <1>3. PICK recorded \in BOOLEAN, monitoring \in BOOLEAN, popups \in BOOLEAN, paused \in BOOLEAN :
          /\ r' = [r EXCEPT !.recorded = recorded, !.monitoring = monitoring, !.popups = popups]
          /\ game' = [game EXCEPT !.paused = paused]
          /\ (monitoring => recorded) /\ (popups => r.popups /\ monitoring)
          /\ timer' \in BOOLEAN
          /\ \/ pc' = "idle" /\ seen' = None
             \/ pc' = "begin" /\ seen' = seen
    <2> PICK u \in BOOLEAN : u = r.recorded
      BY <1>1 DEF LauncherFields
    <2> PICK m \in BOOLEAN : m = r.monitoring
      BY <1>1 DEF LauncherFields
    <2> PICK p \in BOOLEAN : p = game.paused
      BY <1>1 DEF GameFields
    <2> PICK yes \in BOOLEAN, no \in BOOLEAN : yes = TRUE /\ no = FALSE
      OBVIOUS
    <2>1. CASE cfg.paused /\ game' = [game EXCEPT !.paused = TRUE] /\ r' = [r EXCEPT !.recorded = TRUE] /\ GiveUp
      <3>1. r' = [r EXCEPT !.recorded = yes, !.monitoring = m, !.popups = no]
        <4>1. r.popups = FALSE
          BY <1>1, <2>1 DEF LauncherFields
        <4> QED BY <1>1, <2>1, <4>1 DEF LauncherFields
      <3>2. timer' \in BOOLEAN /\ pc' = "idle" /\ seen' = None /\ game' = [game EXCEPT !.paused = yes]
        BY <1>1, <2>1 DEF GiveUp, Goto
      <3>3. (m => yes) /\ (no => r.popups /\ m)
        OBVIOUS
      <3> QED BY <3>1, <3>2, <3>3
    <2>2. CASE r' = [r EXCEPT !.popups = FALSE] /\ GiveUp /\ UNCHANGED game
      <3>1. r' = [r EXCEPT !.recorded = u, !.monitoring = m, !.popups = no]
        BY <1>1, <2>2 DEF LauncherFields
      <3>2. timer' \in BOOLEAN /\ pc' = "idle" /\ seen' = None
        BY <1>1, <2>2 DEF GiveUp, Goto
      <3>3. game' = [game EXCEPT !.paused = p]
        BY <1>1, <2>2 DEF GameFields
      <3>4. (m => u) /\ (no => r.popups /\ m)
        BY <1>1
      <3> QED BY <3>1, <3>2, <3>3, <3>4
    <2>3. CASE /\ game' = IF seen.paused THEN [game EXCEPT !.paused = FALSE] ELSE game
               /\ Released(RecordPause(FALSE)) /\ UNCHANGED seen
      <3>1. PICK armed \in BOOLEAN :
              /\ timer' = IF r.ai THEN armed ELSE timer
              /\ r' = [r EXCEPT !.recorded = TRUE, !.monitoring = r.ai /\ armed, !.popups = @ /\ r.ai /\ armed]
              /\ pc' = "begin"
        BY <2>3 DEF Released
      <3>2. PICK monitoring \in BOOLEAN : monitoring = (r.ai /\ armed)
        OBVIOUS
      <3>3. PICK popups \in BOOLEAN : popups = (r.popups /\ r.ai /\ armed)
        OBVIOUS
      <3>4. r' = [r EXCEPT !.recorded = TRUE, !.monitoring = monitoring, !.popups = popups]
        BY <3>1, <3>2, <3>3
      <3>5. PICK paused \in BOOLEAN : game' = [game EXCEPT !.paused = paused]
        <4>1. game = [game EXCEPT !.paused = game.paused] /\ game.paused \in BOOLEAN
          BY <1>1 DEF GameFields
        <4> QED BY <2>3, <4>1
      <3>6. (monitoring => TRUE) /\ (popups => r.popups /\ monitoring)
        BY <3>2, <3>3
      <3>7. timer' \in BOOLEAN
        BY <1>1, <3>1
      <3> QED BY <2>3, <3>1, <3>4, <3>5, <3>6, <3>7
    <2> QED BY <2>1, <2>2, <2>3 DEF Release
  <1>4. r' \in LauncherFields
    <2>1. ASSUME NEW l \in LauncherFields, NEW u \in BOOLEAN, NEW m \in BOOLEAN, NEW p \in BOOLEAN
          PROVE  [l EXCEPT !.recorded = u, !.monitoring = m, !.popups = p] \in LauncherFields
      BY <2>1 DEF LauncherFields
    <2> QED BY <1>1, <1>3, <2>1
  <1>5. /\ r'.alive = r.alive /\ r'.ai = r.ai /\ r'.pending = r.pending /\ r'.target = r.target
        /\ r'.terminal = r.terminal /\ r'.play = r.play /\ r'.observe = r.observe /\ r'.popups = popups
        /\ r'.monitoring = monitoring /\ r'.recorded = recorded /\ r'.started = r.started
        /\ r'.speed = r.speed /\ r'.unclean = r.unclean
    BY <1>1, <1>3 DEF LauncherFields
  <1>6. /\ game' \in GameFields /\ game'.human = game.human /\ game'.ai = game.ai /\ game'.date = game.date
        /\ game'.phase = game.phase /\ game'.orphan = game.orphan
    BY <1>3, HeldFacts
  <1>7. (r'.pending <=> r'.target # None) /\ HumanIsAlwaysKnown'
    BY <1>5, <1>6 DEF Control, Fields, HumanIsAlwaysKnown
  <1>8. CASE pc' = "begin" /\ seen' = seen
    <2>1. WayIn' /\ Ended'
      BY <1>1, <1>2, <1>3, <1>5, <1>6, <1>8 DEF Control, WayIn, Ended
    <2> QED BY <1>1, <1>2, <1>3, <1>4, <1>5, <1>6, <1>7, <1>8, <2>1, GoesOn DEF Steps, Unread
  <1>9. CASE pc' = "idle" /\ seen' = None
    BY <1>1, <1>2, <1>3, <1>4, <1>5, <1>6, <1>7, <1>9, BackToIdle
  <1> QED BY <1>3, <1>8, <1>9

-----------------------------------------------------------------------------
(* The invariant is kept.                                                  *)

LEMMA PlayerIsCountry == Player \in Countries
  BY RunnerAssumption DEF Player

LEMMA InitControl == Init => Control
  <1> SUFFICES ASSUME Init PROVE Control
    OBVIOUS
  <1> USE DEF Init
  <1>1. cfg \in Launches /\ ArgumentsAgree(cfg)
    BY RunnerAssumption
  <1>2. cfg.observe \in BOOLEAN /\ cfg.view \in Maybe(Int)
    BY <1>1 DEF Launches, Maybe
  <1>3. NoLauncher \in LauncherFields
    <2>1. 0 \in Counts /\ None \in Maybe(Countries) /\ None \in Maybe(Int) /\ 0 \in Nat
      BY Basics
    <2> QED BY <2>1 DEF NoLauncher, LauncherFields
  <1>4. r \in LauncherFields
    BY <1>2, <1>3 DEF LauncherFields
  <1>5. /\ ~r.pending /\ r.target = None /\ ~r.terminal /\ ~r.play /\ ~r.popups /\ ~r.monitoring
        /\ ~r.recorded /\ ~r.started /\ ~r.ai /\ r.observe = cfg.observe
    BY <1>2 DEF NoLauncher
  <1>6. b \in ControllerFields /\ ~b.active
    <2>1. None \in Maybe(Int) /\ None \in Maybe(Verdicts)
      BY Basics
    <2> QED BY <2>1 DEF NoController, ControllerFields
  <1>7. /\ game \in GameFields /\ game.human \cap game.ai = {}
        /\ game.date = Start /\ game.phase = "menu"
    <2>1. Start \in Dates /\ 0 \in 0 .. MaxDeeds
      BY RunnerAssumption DEF Dates
    <2>2. None \in Maybe(Countries) /\ Player \in Countries
      BY Basics, PlayerIsCountry
    <2>3. {Player} \in SUBSET Countries /\ Countries \ {Player} \in SUBSET Countries
      BY <2>2
    <2>4. MainMenu \in GameFields
      BY <2>1, <2>2, <2>3 DEF MainMenu, GameFields
    <2> QED BY <2>4 DEF MainMenu
  <1>8. Fields
    BY <1>1, <1>4, <1>5, <1>6, <1>7 DEF Fields, Unread, Steps
  <1>9. WayIn /\ Ended /\ HumanIsAlwaysKnown
    BY <1>5, <1>7 DEF WayIn, Ended, HumanIsAlwaysKnown
  <1>10. OnTheDay(game.date)
    BY <1>7, RunnerAssumption, DayAssumption DEF OnTheDay
  <1>11. InBenchmark
    BY <1>5, <1>6, <1>10 DEF InBenchmark, Unread
  <1> QED BY <1>8, <1>9, <1>11 DEF Control

LEMMA UnchangedControl == Control /\ UNCHANGED vars => Control'
  <1> SUFFICES ASSUME Control, UNCHANGED vars PROVE Control'
    OBVIOUS
  <1>1. UNCHANGED <<cfg, r, b, timer, pc, seen, game, late>>
    BY DEF vars
  <1> QED BY <1>1 DEF Control, Fields, WayIn, Ended, HumanIsAlwaysKnown, InBenchmark, OnTheDay, Target

LEMMA NextControl == Control /\ [Next]_vars => Control'
  <1> SUFFICES ASSUME Control, [Next]_vars PROVE Control'
    OBVIOUS
  <1>1. CASE Callback
    BY <1>1, TimerFiresControl, DrainConsoleRequestControl, AcquireControllerControl, SinglePlayerControl,
       SelectSaveControl, CheckSaveControl, ReadUnavailableControl, ReadCampaignControl, TickBenchmarkControl,
       StopBenchmarkControl, BeginBenchmarkControl, NoBenchmarkToStartControl, FinishInvalidBenchmarkControl,
       TimerUnavailableControl, QuitControl, ConfigureObserverControl, HandOverControl, LiftFogControl,
       SelectSpeedControl, ReleaseControl, WatchLaterControl, WatchViewControl, WatchFailoverControl,
       WatchSwitchControl, WatchPauseControl DEF Callback
  <1>2. CASE Next /\ ~Callback
    BY <1>2, FrontendCapturedControl, ConsoleCommandControl, StopControl, SaveLoadsControl, EntersControl,
       DayPassesControl, InterferesControl, TagSwitchControl, TimePassesControl, AnnexedControl DEF Next
  <1>3. CASE UNCHANGED vars
    BY <1>3, UnchangedControl
  <1> QED BY <1>1, <1>2, <1>3

\* The fields have their types, and the callback is only where what the launcher did
\* before lets it be: an ended run has no timer and no watchdog, a country in human
\* hands is pending, reported or an orphan, and a benchmark in hand has a target it can reach.
THEOREM SpecControl == Spec => []Control
  <1>1. Init => Control
    BY InitControl
  <1>2. Control /\ [Next]_vars => Control'
    BY NextControl
  <1> QED BY <1>1, <1>2, PTL DEF Spec

-----------------------------------------------------------------------------
(* The country in hand.  Control is not enough for the watchdog: that its  *)
(* timer is armed, and that only its target may be human, needs where the  *)
(* native switch is, which the game carries out when it likes.             *)

\* The callback rests, or the run is over; the steps that lead to the watchdog.
Rests == {"idle", "quit", "invalid"}
Setup == {"frontend", "configure", "handover", "fog", "speed", "release"}
Settled == ~r.pending /\ game.switch = None /\ game.human = {}

\* A switch is the watchdog's, and of its target; one left behind when monitoring ended
\* has no timer any more; and the steps before monitoring find nothing in hand.
InHand ==
  /\ (r.monitoring \/ r.pending => r.ai) /\ (r.ai => r.play)
  /\ ~r.ai => game.switch = None
  /\ r.pending => game.switch \in {None, r.target} /\ game.human \subseteq {r.target}
  /\ r.pending /\ game.human # {} => game.switch = None
  /\ r.monitoring /\ ~r.pending => Settled
  /\ r.alive /\ r.ai /\ ~r.monitoring /\ ~Settled => ~timer /\ pc \in Rests
  /\ r.alive /\ r.monitoring /\ pc # "untimed" => timer
  /\ (pc \in Setup => ~r.monitoring) /\ (pc = "frontend" => ~r.play)
  /\ pc # "idle" => r.alive

LEMMA InitInHand == Init => InHand
  BY DEF Init, InHand, NoLauncher, MainMenu, Setup, Settled

\* The world acts, and does no more than take a country out of human hands.
LEMMA WorldInHand ==
  ASSUME InHand, UNCHANGED <<r, timer, pc>>, game'.human \subseteq game.human, game'.switch = game.switch
  PROVE  InHand'
  <1>1. Settled => Settled'
    BY DEF Settled
  <1>2. game.human = {} => game'.human = {}
    OBVIOUS
  <1> QED BY <1>1, <1>2 DEF InHand

\* The callback goes on, or returns, with the same country in hand.
LEMMA GoesOnInHand ==
  ASSUME InHand, timer \/ pc \notin Rests, pc # "untimed", r.alive,
         r'.alive = r.alive, r'.ai = r.ai, r'.pending = r.pending, r'.target = r.target,
         r'.monitoring = r.monitoring, r'.play = r.play,
         game'.human = game.human, game'.switch = game.switch,
         ~r.monitoring \/ pc' = "untimed" \/ (timer => timer'),
         pc' \in Setup => ~r.monitoring, pc' = "frontend" => ~r.play
  PROVE  InHand'
  <1>1. Settled' <=> Settled
    BY DEF Settled
  <1> QED BY <1>1 DEF InHand

\* The steps before the watchdog.
LEMMA SetupInHand ==
  ASSUME InHand, pc \in Setup, pc' = "idle" \/ pc' \in Setup \ {"frontend"},
         r'.alive = r.alive, r'.pending = r.pending, r'.target = r.target, r'.monitoring = r.monitoring,
         r.ai => r'.ai, r'.ai => r.ai \/ (r.play /\ game'.human = {}), r.play => r'.play,
         game'.human \subseteq game.human, game'.switch = game.switch
  PROVE  InHand'
  <1>1. r.alive /\ ~r.monitoring /\ pc \notin Rests
    BY DEF InHand, Setup, Rests
  <1>2. r.ai => Settled
    BY <1>1 DEF InHand
  <1>3. ~r.ai => ~r.pending /\ game.switch = None
    BY DEF InHand
  <1>4. r'.ai => Settled'
    BY <1>2, <1>3 DEF Settled
  <1>5. ~r'.pending /\ ~r'.monitoring
    BY <1>1, <1>2, <1>3 DEF Settled
  <1>6. game'.switch = None
    BY <1>2, <1>3 DEF Settled
  <1> QED BY <1>1, <1>4, <1>5, <1>6 DEF InHand, Setup

\* Monitoring ends; the switch may be forgotten, and its country given back.
LEMMA EndsInHand ==
  ASSUME InHand, r.alive, r'.alive = r.alive, r'.ai = r.ai, r'.play = r.play,
         r'.monitoring = FALSE, timer' = FALSE, pc' \in Rests,
         (r'.pending = r.pending /\ r'.target = r.target) \/ r'.pending = FALSE,
         game'.human \subseteq game.human, game'.switch = game.switch
  PROVE  InHand'
  <1>1. pc' \notin Setup /\ pc' # "frontend"
    BY DEF Rests, Setup
  <1>2. game.human = {} => game'.human = {}
    OBVIOUS
  <1>3. /\ (r'.pending => r'.ai) /\ (r'.ai => r'.play) /\ (~r'.ai => game'.switch = None)
        /\ r'.pending => game'.switch \in {None, r'.target} /\ game'.human \subseteq {r'.target}
        /\ r'.pending /\ game'.human # {} => game'.switch = None
    BY <1>2 DEF InHand
  <1> QED BY <1>1, <1>3 DEF InHand

\* The watchdog, or the console's request, asks for a switch.
LEMMA AsksInHand ==
  ASSUME InHand, r.alive, r.monitoring, ~r.pending, pc # "untimed",
         r'.alive = r.alive, r'.ai = r.ai, r'.play = r.play, r'.monitoring = r.monitoring,
         game'.human = game.human, game'.switch = r'.target,
         timer => timer', pc' \notin Setup \cup {"untimed"}, r'.pending
  PROVE  InHand'
  <1>1. game.human = {} /\ r.ai /\ r.play /\ timer
    BY DEF InHand, Settled
  <1>2. pc' # "frontend"
    BY DEF Setup
  <1> QED BY <1>1, <1>2 DEF InHand

\* The switch is done: its country was given back.
LEMMA DoneInHand ==
  ASSUME InHand, r.alive, r.monitoring, pc # "untimed",
         r'.alive = r.alive, r'.ai = r.ai, r'.play = r.play, ~r'.pending,
         game'.human = {}, game'.switch = None, pc' = "idle",
         r'.monitoring => timer' = timer
  PROVE  InHand'
  <1>1. Settled'
    BY DEF Settled
  <1>2. r.ai /\ r.play /\ timer
    BY DEF InHand
  <1>3. "idle" \notin Setup
    BY DEF Setup
  <1> QED BY <1>1, <1>2, <1>3 DEF InHand

\* What most steps leave as it is.
LauncherKept ==
  /\ r'.alive = r.alive /\ r'.ai = r.ai /\ r'.pending = r.pending /\ r'.target = r.target
  /\ r'.monitoring = r.monitoring /\ r'.play = r.play
HandKept == game'.human = game.human /\ game'.switch = game.switch

LEMMA Typed == Control => r \in LauncherFields /\ game \in GameFields /\ pc \in Steps
  BY DEF Control, Fields

LEMMA PausingKeepsHand ==
  ASSUME Control, NEW ok, NEW paused, game' = Pausing(game, paused, ok)
  PROVE  HandKept
  BY Typed DEF Pausing, GameFields, HandKept

LEMMA EntersInHand == Control /\ InHand /\ Enters => InHand'
  <1> SUFFICES ASSUME Control, InHand, Enters PROVE InHand'
    OBVIOUS
  <1> USE DEF Enters, Kept
  <1>1. UNCHANGED <<r, timer, pc>>
    OBVIOUS
  <1>2. PICK console \in BOOLEAN, paused \in BOOLEAN :
          game' = [game EXCEPT !.phase = "campaign", !.console = console, !.paused = paused]
    OBVIOUS
  <1>3. HandKept
    BY <1>2, Typed DEF GameFields, HandKept
  <1> QED BY <1>1, <1>3, WorldInHand DEF HandKept

LEMMA AnnexedInHand == Control /\ InHand /\ (\E c \in Countries : Annexed(c)) => InHand'
  <1> SUFFICES ASSUME Control, InHand, NEW c \in Countries, Annexed(c) PROVE InHand'
    OBVIOUS
  <1> USE DEF TheGame, Kept
  <1>1. UNCHANGED <<r, timer, pc>>
    BY DEF Annexed
  <1>2. game.view \in Countries
    BY Typed DEF GameFields
  <1>3. PICK view \in Countries :
          game' = [Done(game) EXCEPT !.view = view, !.living = @ \ {c}, !.human = @ \ {c}, !.ai = @ \ {c}]
    BY <1>2 DEF Annexed
  <1>4. game'.human = game.human \ {c} /\ game'.switch = game.switch
    BY <1>3, Typed DEF GameFields, Done
  <1> QED BY <1>1, <1>4, WorldInHand

LEMMA WorldActsInHand ==
  ASSUME Control, InHand, SaveLoads \/ DayPasses \/ Interferes \/ TimePasses \/ ConsoleCommand
  PROVE  InHand'
  <1>1. UNCHANGED <<r, timer, pc>>
    <2>1. CASE SaveLoads \/ DayPasses \/ Interferes
      BY <2>1 DEF SaveLoads, DayPasses, Interferes, TheGame
    <2>2. CASE TimePasses \/ ConsoleCommand
      BY <2>2 DEF TimePasses, ConsoleCommand
    <2> QED BY <2>1, <2>2
  <1>2. HandKept
    <2>1. CASE SaveLoads \/ DayPasses \/ TimePasses
      BY <2>1, Typed DEF SaveLoads, DayPasses, TimePasses, GameFields, HandKept
    <2>2. CASE Interferes \/ ConsoleCommand
      BY <2>2, Typed DEF Interferes, ConsoleCommand, Done, GameFields, HandKept
    <2> QED BY <2>1, <2>2
  <1> QED BY <1>1, <1>2, WorldInHand DEF HandKept

LEMMA TagSwitchInHand == Control /\ InHand /\ TagSwitch => InHand'
  <1> SUFFICES ASSUME Control, InHand, TagSwitch PROVE InHand'
    OBVIOUS
  <1>1. UNCHANGED <<r, timer, pc>> /\ game.switch # None
    BY DEF TagSwitch, TheGame, Kept
  <1>2. game'.human \subseteq {game.switch} /\ game'.switch = None
    BY Typed DEF TagSwitch, GameFields
  <1>3. r.ai /\ ~Settled
    BY <1>1 DEF InHand, Settled
  <1>4. r.pending => game'.human \subseteq {r.target}
    BY <1>1, <1>2 DEF InHand
  <1>5. ~(r.monitoring /\ ~r.pending)
    BY <1>3 DEF InHand
  <1> QED BY <1>1, <1>2, <1>3, <1>4, <1>5 DEF InHand

LEMMA FrontendCapturedInHand == Control /\ InHand /\ FrontendCaptured => InHand'
  <1> SUFFICES ASSUME Control, InHand, FrontendCaptured PROVE InHand'
    OBVIOUS
  <1>1. UNCHANGED <<r, pc, game>> /\ ~r.play
    BY DEF FrontendCaptured, Quiet, Control, WayIn
  <1>2. ~r.ai /\ ~r.monitoring /\ ~r.pending
    BY <1>1 DEF InHand
  <1> QED BY <1>1, <1>2 DEF InHand, Settled

LEMMA StopInHand == Control /\ InHand /\ Stop => InHand'
  <1> SUFFICES ASSUME Control, InHand, Stop PROVE InHand'
    OBVIOUS
  <1>1. UNCHANGED pc /\ pc = "idle"
    BY DEF Stop, Quiet
  <1>2. r' = [r EXCEPT !.alive = FALSE, !.front = FALSE, !.console = FALSE]
    BY DEF Stop
  <1>3. /\ r'.alive = FALSE /\ r'.ai = r.ai /\ r'.pending = r.pending /\ r'.target = r.target
        /\ r'.monitoring = r.monitoring /\ r'.play = r.play
    BY <1>2, Typed DEF LauncherFields
  <1>4. game'.human \subseteq game.human /\ game'.switch = game.switch /\ (game' = game \/ r.pending)
    <2>1. CASE UNCHANGED game
      BY <2>1
    <2>2. CASE r.pending /\ game' = ReturnedToAI(game, r.target)
      BY <2>2, Typed DEF ReturnedToAI, GameFields
    <2> QED BY <2>1, <2>2 DEF Stop
  <1>5. r.monitoring /\ ~r.pending => Settled'
    BY <1>3, <1>4 DEF InHand, Settled
  <1>6. game.human = {} => game'.human = {}
    BY <1>4
  <1> QED BY <1>1, <1>3, <1>4, <1>5, <1>6 DEF InHand, Setup

LEMMA TimerFiresInHand == Control /\ InHand /\ TimerFires => InHand'
  <1> SUFFICES ASSUME Control, InHand, TimerFires PROVE InHand'
    OBVIOUS
  <1>1. timer /\ pc = "idle" /\ r.alive /\ UNCHANGED game
    BY DEF TimerFires
  <1>2. PICK console : r' = [r EXCEPT !.console = console]
    BY DEF TimerFires
  <1>3. LauncherKept
    BY <1>2, Typed DEF LauncherFields, LauncherKept
  <1>4. pc' \in {"request", "read", "frontend"} /\ (pc' = "frontend" => ~r.play)
    BY DEF TimerFires
  <1>5. r.monitoring => r.play
    BY DEF InHand
  <1>6. r.monitoring => timer'
    BY <1>3, <1>5 DEF TimerFires, LauncherKept
  <1>7. pc' \in Setup => ~r.monitoring
    BY <1>4, <1>5 DEF Setup
  <1> QED BY <1>1, <1>3, <1>4, <1>6, <1>7, GoesOnInHand DEF LauncherKept

\* A switch is asked for only while the watchdog runs and none is under way.
LEMMA RequestInHand ==
  ASSUME Control, InHand, r.alive, pc # "untimed", NEW c, MaySwitch(c), NEW n, NEW launcher,
         launcher = [r EXCEPT !.pending = TRUE, !.target = c, !.tries = 0, !.aiBefore = n],
         r' = launcher \/ r' = [launcher EXCEPT !.view = None],
         game' = Switching([game EXCEPT !.paused = TRUE], c),
         timer => timer', pc' \notin Setup \cup {"untimed"}
  PROVE  InHand'
  <1>1. r.monitoring /\ ~r.pending
    BY DEF MaySwitch
  <1>2. /\ r'.alive = r.alive /\ r'.ai = r.ai /\ r'.pending /\ r'.target = c
        /\ r'.monitoring = r.monitoring /\ r'.play = r.play
    BY Typed DEF LauncherFields
  <1>3. game'.human = game.human /\ game'.switch = c
    BY Typed DEF GameFields, Switching
  <1> QED BY <1>1, <1>2, <1>3, AsksInHand

LEMMA DrainConsoleRequestInHand == Control /\ InHand /\ DrainConsoleRequest => InHand'
  <1> SUFFICES ASSUME Control, InHand, DrainConsoleRequest PROVE InHand'
    OBVIOUS
  <1>1. pc = "request" /\ r.alive
    <2>1. pc = "request"
      BY Zenon DEF DrainConsoleRequest
    <2> QED BY <2>1 DEF InHand
  <1>2. /\ r.play => pc' = "read"
        /\ ~r.play => pc' = "frontend"
        /\ r.play /\ r.monitoring => timer'
    <2>1. /\ pc' = IF r.play THEN "read" ELSE "frontend"
          /\ timer' = ~(r.play /\ ~r.monitoring /\ ~b.active)
      BY Zenon DEF DrainConsoleRequest
    <2> QED BY <2>1
  <1>3. r.monitoring => r.play
    BY DEF InHand
  <1>4. CASE UNCHANGED r /\ HandKept
    <2>1. (r.monitoring => timer') /\ (pc' \in Setup => ~r.monitoring) /\ (pc' = "frontend" => ~r.play)
      BY <1>2, <1>3 DEF Setup
    <2>2. pc \notin Rests
      BY <1>1 DEF Rests
    <2> QED BY <1>1, <1>4, <2>1, <2>2, GoesOnInHand DEF HandKept
  <1>5. CASE /\ MaySwitch(con.request)
             /\ r' = [r EXCEPT !.pending = TRUE, !.target = con.request, !.tries = 0, !.aiBefore = Cardinality(game.ai)]
             /\ game' = Switching([game EXCEPT !.paused = TRUE], con.request)
    <2>1. r.monitoring
      BY <1>5 DEF MaySwitch
    <2>2. pc' = "read" /\ (timer => timer')
      BY <1>2, <1>3, <2>1
    <2>3. pc' \notin Setup \cup {"untimed"} /\ pc # "untimed"
      BY <1>1, <2>2 DEF Setup
    <2> QED BY <1>1, <1>5, <2>2, <2>3, RequestInHand, Zenon
  <1>6. CASE UNCHANGED r /\ game' = game
    BY <1>4, <1>6 DEF HandKept
  <1>7. CASE \E resumed \in BOOLEAN : UNCHANGED r /\ game' = [game EXCEPT !.paused = @ \/ ~resumed]
    <2>1. HandKept
      BY <1>7, Typed DEF HandKept, GameFields
    <2> QED BY <1>4, <1>7, <2>1
  <1> QED BY <1>5, <1>6, <1>7 DEF DrainConsoleRequest, RequestSwitch

\* Before the campaign.
LEMMA FrontendInHand ==
  ASSUME Control, InHand, AcquireController \/ SinglePlayer \/ SelectSave \/ CheckSave
  PROVE  InHand'
  <1>1. pc = "frontend" /\ pc' = "idle"
    BY DEF AcquireController, SinglePlayer, SelectSave, CheckSave, Rearm, Goto
  <1>2. /\ r'.alive = r.alive /\ r'.ai = r.ai /\ r'.pending = r.pending /\ r'.target = r.target
        /\ r'.monitoring = r.monitoring /\ (r.play => r'.play)
    <2>1. CASE AcquireController \/ SelectSave
      BY <2>1, Typed DEF AcquireController, SelectSave, LauncherFields
    <2>2. CASE SinglePlayer
      BY <2>2, Typed DEF SinglePlayer, LauncherFields
    <2>3. CASE CheckSave
      BY <2>3, Typed DEF CheckSave, LauncherFields
    <2> QED BY <2>1, <2>2, <2>3
  <1>3. HandKept
    BY Typed DEF AcquireController, SinglePlayer, SelectSave, CheckSave, GameFields, HandKept
  <1> QED BY <1>1, <1>2, <1>3, SetupInHand DEF HandKept, Setup

-----------------------------------------------------------------------------
(* The callback in the campaign.                                           *)

LEMMA FinishInHand ==
  ASSUME Control, InHand, NEW reason, NEW actual, NEW paused, Finish(reason, actual, paused),
         pc # "idle", HandKept
  PROVE  InHand'
  <1>1. /\ timer' = FALSE /\ r'.monitoring = FALSE
        /\ r'.alive = r.alive /\ r'.ai = r.ai /\ r'.pending = r.pending /\ r'.target = r.target
        /\ r'.play = r.play
    BY Finishes, Typed DEF Finish, LauncherFields
  <1>2. pc' \in Rests
    BY Finishes DEF Rests
  <1>3. r.alive
    BY DEF InHand
  <1> QED BY <1>1, <1>2, <1>3, EndsInHand DEF HandKept

LEMMA ReadUnavailableInHand == Control /\ InHand /\ ReadUnavailable => InHand'
  <1> SUFFICES ASSUME Control, InHand, ReadUnavailable PROVE InHand'
    OBVIOUS
  <1>1. pc = "read" /\ HandKept
    BY DEF ReadUnavailable, HandKept
  <1>2. r.alive /\ pc \notin Rests
    BY <1>1 DEF InHand, Rests
  <1>3. CASE b.active
    <2>1. Finish("idler_unavailable", None, None)
      BY <1>3 DEF ReadUnavailable
    <2> QED BY <1>1, <2>1, FinishInHand
  <1>4. CASE ~b.active /\ r.monitoring
    <2>1. r' = [r EXCEPT !.monitoring = FALSE, !.popups = FALSE] /\ timer' = FALSE /\ pc' = "idle"
      BY <1>4 DEF ReadUnavailable, Goto
    <2>2. /\ r'.monitoring = FALSE /\ r'.alive = r.alive /\ r'.ai = r.ai /\ r'.pending = r.pending
          /\ r'.target = r.target /\ r'.play = r.play
      BY <2>1, Typed DEF LauncherFields
    <2>3. pc' \in Rests
      BY <2>1 DEF Rests
    <2> QED BY <1>1, <1>2, <2>1, <2>2, <2>3, EndsInHand DEF HandKept
  <1>5. CASE ~b.active /\ ~r.monitoring
    <2>1. r' = [r EXCEPT !.campTries = IF @ < Tries THEN @ + 1 ELSE @] /\ pc' = "idle"
      BY <1>5 DEF ReadUnavailable, Goto, Rearm
    <2>2. LauncherKept
      BY <2>1, Typed DEF LauncherFields, LauncherKept
    <2>3. pc' \notin Setup
      BY <2>1 DEF Setup
    <2> QED BY <1>1, <1>2, <1>5, <2>1, <2>2, <2>3, GoesOnInHand DEF HandKept, LauncherKept
  <1> QED BY <1>3, <1>4, <1>5

LEMMA ReadCampaignInHand == Control /\ InHand /\ ReadCampaign => InHand'
  <1> SUFFICES ASSUME Control, InHand, ReadCampaign PROVE InHand'
    OBVIOUS
  <1>1. pc = "read" /\ HandKept
    BY DEF ReadCampaign, HandKept
  <1>2. r.alive /\ pc \notin Rests
    BY <1>1 DEF InHand, Rests
  <1>3. CASE game.over /\ ~Bounded(cfg)
    <2>1. r' = [r EXCEPT !.popups = FALSE, !.monitoring = FALSE] /\ timer' = FALSE /\ pc' = "idle"
      BY <1>3 DEF ReadCampaign, Goto
    <2>2. /\ r'.monitoring = FALSE /\ r'.alive = r.alive /\ r'.ai = r.ai /\ r'.pending = r.pending
          /\ r'.target = r.target /\ r'.play = r.play
      BY <2>1, Typed DEF LauncherFields
    <2>3. pc' \in Rests
      BY <2>1 DEF Rests
    <2> QED BY <1>1, <1>2, <2>1, <2>2, <2>3, EndsInHand DEF HandKept
  <1>4. CASE ~(game.over /\ ~Bounded(cfg))
    <2>1. r' = [r EXCEPT !.popups = FALSE] \/ r' = r
      BY <1>4 DEF ReadCampaign
    <2>2. LauncherKept
      BY <2>1, Typed DEF LauncherFields, LauncherKept
    <2>3. timer' = timer
      BY <1>4 DEF ReadCampaign
    <2>4. pc' \in {"gameover", "bench", "watch", "configure", "speed"} /\ (pc' \in {"configure", "speed"} => ~r.monitoring)
      BY <1>4 DEF ReadCampaign, AfterBench
    <2>5. (pc' \in Setup => ~r.monitoring) /\ pc' # "frontend"
      BY <2>4 DEF Setup
    <2> QED BY <1>1, <1>2, <2>2, <2>3, <2>5, GoesOnInHand DEF HandKept, LauncherKept
  <1> QED BY <1>3, <1>4

LEMMA TickBenchmarkInHand == Control /\ InHand /\ TickBenchmark => InHand'
  <1> SUFFICES ASSUME Control, InHand, TickBenchmark PROVE InHand'
    OBVIOUS
  <1>1. pc \in {"bench", "gameover"}
    BY DEF TickBenchmark
  <1>2. r.alive /\ pc \notin Rests /\ pc # "idle" /\ pc # "untimed"
    BY <1>1 DEF InHand, Rests
  <1>3. CASE Finish("pause_failed", seen.date, None) /\ UNCHANGED game
    BY <1>2, <1>3, FinishInHand DEF HandKept
  <1>4. CASE UNCHANGED <<r, timer>> /\ HandKept /\ pc' \in {"stop", "idle", "watch", "configure", "speed"}
             /\ (pc' \in {"configure", "speed"} => ~r.monitoring)
    <2>1. (pc' \in Setup => ~r.monitoring) /\ pc' # "frontend"
      BY <1>4 DEF Setup
    <2> QED BY <1>2, <1>4, <2>1, GoesOnInHand DEF HandKept
  <1>5. CASE Goto("stop") /\ UNCHANGED <<r, timer, game>>
    BY <1>4, <1>5 DEF HandKept, Goto
  <1>6. CASE /\ game' = IF seen.date = b.target THEN Pausing(game, TRUE, ~seen.paused) ELSE game
             /\ Goto(IF seen.date = b.target THEN "idle" ELSE AfterBench) /\ UNCHANGED <<r, timer>>
    <2>1. HandKept
      BY <1>6, PausingKeepsHand DEF HandKept
    <2>2. pc' \in {"idle", "watch", "configure", "speed"} /\ (pc' \in {"configure", "speed"} => ~r.monitoring)
      BY <1>6 DEF Goto, AfterBench
    <2> QED BY <1>4, <1>6, <2>1, <2>2
  <1> QED BY <1>3, <1>5, <1>6 DEF TickBenchmark

LEMMA FinishingInHand == Control /\ InHand /\ (StopBenchmark \/ TimerUnavailable) => InHand'
  <1> SUFFICES ASSUME Control, InHand, StopBenchmark \/ TimerUnavailable PROVE InHand'
    OBVIOUS
  <1>1. pc # "idle" /\ PauseTakes
    BY DEF StopBenchmark, TimerUnavailable
  <1>2. HandKept
    BY <1>1, PausingKeepsHand DEF PauseTakes
  <1>3. \E reason, actual, paused : Finish(reason, actual, paused)
    <2>1. CASE StopBenchmark
      BY <2>1 DEF StopBenchmark
    <2>2. CASE TimerUnavailable
      BY <2>2 DEF TimerUnavailable
    <2> QED BY <2>1, <2>2
  <1> QED BY <1>1, <1>2, <1>3, FinishInHand

LEMMA BeginBenchmarkInHand == Control /\ InHand /\ BeginBenchmark => InHand'
  <1> SUFFICES ASSUME Control, InHand, BeginBenchmark PROVE InHand'
    OBVIOUS
  <1>1. pc \in {"begin", "gameover"} /\ HandKept
    BY DEF BeginBenchmark, Kept, HandKept
  <1>2. r.alive /\ pc \notin Rests /\ pc # "untimed"
    BY <1>1 DEF InHand, Rests
  <1>3. CASE Reachable(seen.date, Target)
    <2>1. LauncherKept
      <3>1. r' = [r EXCEPT !.started = TRUE]
        BY <1>3 DEF BeginBenchmark
      <3> QED BY <3>1, Typed DEF LauncherFields, LauncherKept
    <2>2. \/ timer' = TRUE /\ pc' \in {"idle", "gameover"}
          \/ pc' = "untimed"
      BY <1>1, <1>3 DEF BeginBenchmark, Goto
    <2>3. pc' \notin Setup /\ pc' # "frontend"
      BY <2>2 DEF Setup
    <2> QED BY <1>1, <1>2, <2>1, <2>2, <2>3, GoesOnInHand DEF HandKept, LauncherKept
  <1>4. CASE ~Reachable(seen.date, Target)
    <2>1. /\ r' = [r EXCEPT !.terminal = TRUE, !.monitoring = FALSE, !.popups = FALSE]
          /\ timer' = FALSE /\ pc' = "invalid"
      BY <1>4 DEF BeginBenchmark, Goto
    <2>2. /\ r'.monitoring = FALSE /\ r'.alive = r.alive /\ r'.ai = r.ai /\ r'.pending = r.pending
          /\ r'.target = r.target /\ r'.play = r.play
      BY <2>1, Typed DEF LauncherFields
    <2>3. pc' \in Rests
      BY <2>1 DEF Rests
    <2> QED BY <1>1, <1>2, <2>1, <2>2, <2>3, EndsInHand DEF HandKept
  <1> QED BY <1>3, <1>4

LEMMA NoBenchmarkToStartInHand == Control /\ InHand /\ NoBenchmarkToStart => InHand'
  <1> SUFFICES ASSUME Control, InHand, NoBenchmarkToStart PROVE InHand'
    OBVIOUS
  <1>1. pc \in {"begin", "gameover"} /\ UNCHANGED <<r, timer, game>> /\ pc' = "idle"
    BY DEF NoBenchmarkToStart, Goto
  <1>2. r.alive /\ pc \notin Rests /\ pc # "untimed" /\ pc' \notin Setup
    BY <1>1 DEF InHand, Rests, Setup
  <1> QED BY <1>1, <1>2, GoesOnInHand

\* A run that was ended reports it, or quits.
LEMMA EndedInHand == Control /\ InHand /\ (FinishInvalidBenchmark \/ Quit) => InHand'
  <1> SUFFICES ASSUME Control, InHand, FinishInvalidBenchmark \/ Quit PROVE InHand'
    OBVIOUS
  <1>1. pc \in {"invalid", "quit"} /\ UNCHANGED <<r, timer>> /\ pc' = "idle"
    BY DEF FinishInvalidBenchmark, Quit, Goto
  <1>2. r.terminal /\ timer \in BOOLEAN /\ r.monitoring \in BOOLEAN
    BY <1>1, Typed DEF Control, Ended, Fields, LauncherFields
  <1>3. timer' = FALSE /\ r.monitoring = FALSE
    BY <1>1, <1>2 DEF Control, Ended
  <1>4. r.alive /\ pc' \in Rests
    BY <1>1 DEF InHand, Rests
  <1>5. HandKept
    <2>1. CASE FinishInvalidBenchmark
      <3>1. PauseTakes
        BY <2>1 DEF FinishInvalidBenchmark
      <3> QED BY <3>1, PausingKeepsHand DEF PauseTakes
    <2>2. CASE Quit
      <3>1. game' = game \/ game' = [game EXCEPT !.quit = TRUE]
        BY <2>2 DEF Quit
      <3> QED BY <3>1, Typed DEF GameFields, HandKept
    <2> QED BY <2>1, <2>2
  <1> QED BY <1>1, <1>3, <1>4, <1>5, EndsInHand DEF HandKept

\* The configuration.
LEMMA ConfiguringInHand == Control /\ InHand /\ (ConfigureObserver \/ LiftFog \/ SelectSpeed) => InHand'
  <1> SUFFICES ASSUME Control, InHand, ConfigureObserver \/ LiftFog \/ SelectSpeed PROVE InHand'
    OBVIOUS
  <1>1. pc \in {"configure", "fog", "speed"} /\ pc' \in {"idle", "handover", "speed", "release"}
    BY DEF ConfigureObserver, LiftFog, SelectSpeed, WaitForConsole, Rearm, GiveUp, Goto
  <1>2. LauncherKept
    <2>1. CASE WaitForConsole
      BY <2>1, Typed DEF WaitForConsole, LauncherFields, LauncherKept
    <2>2. CASE ConfigureObserver /\ ~WaitForConsole
      BY <2>2, Typed DEF ConfigureObserver, LauncherFields, LauncherKept
    <2>3. CASE LiftFog /\ ~WaitForConsole
      BY <2>3, Typed DEF LiftFog, LauncherFields, LauncherKept
    <2>4. CASE SelectSpeed
      BY <2>4, Typed DEF SelectSpeed, LauncherFields, LauncherKept
    <2> QED BY <2>1, <2>2, <2>3, <2>4
  <1>3. HandKept
    <2>1. CASE ConfigureObserver
      BY <2>1, Typed DEF ConfigureObserver, GameFields, HandKept
    <2>2. CASE LiftFog
      BY <2>2, Typed DEF LiftFog, GameFields, HandKept
    <2>3. CASE SelectSpeed
      BY <2>3 DEF SelectSpeed, HandKept
    <2> QED BY <2>1, <2>2, <2>3
  <1>4. pc \in Setup /\ (pc' = "idle" \/ pc' \in Setup \ {"frontend"})
    BY <1>1 DEF Setup
  <1> QED BY <1>2, <1>3, <1>4, SetupInHand DEF HandKept, LauncherKept

LEMMA HandOverInHand == Control /\ InHand /\ HandOver => InHand'
  <1> SUFFICES ASSUME Control, InHand, HandOver PROVE InHand'
    OBVIOUS
  <1>1. pc = "handover" /\ pc' \in {"fog", "idle"} /\ r.play
    BY DEF HandOver, GiveUp, Goto, Control, WayIn
  <1>2. pc \in Setup /\ (pc' = "idle" \/ pc' \in Setup \ {"frontend"})
    BY <1>1 DEF Setup
  <1>3. CASE UNCHANGED r /\ game'.human \subseteq game.human /\ game'.switch = game.switch
    BY <1>2, <1>3, SetupInHand
  <1>4. CASE UNCHANGED <<r, game>>
    BY <1>3, <1>4
  <1>5. CASE ~r.ai /\ game' = ReturnedToAI(game, game.view)
             /\ IF game'.human = {} THEN r' = [r EXCEPT !.ai = TRUE] ELSE UNCHANGED r
    <2>1. game'.human \subseteq game.human /\ game'.switch = game.switch
      BY <1>5, Typed DEF ReturnedToAI, GameFields
    <2>2. CASE game'.human = {}
      <3>1. r' = [r EXCEPT !.ai = TRUE]
        BY <1>5, <2>2
      <3>2. /\ r'.alive = r.alive /\ r'.pending = r.pending /\ r'.target = r.target
            /\ r'.monitoring = r.monitoring /\ r'.play = r.play /\ r'.ai
        BY <3>1, Typed DEF LauncherFields
      <3> QED BY <1>1, <1>2, <2>1, <2>2, <3>2, SetupInHand
    <2>3. CASE game'.human # {}
      BY <1>3, <1>5, <2>1, <2>3
    <2> QED BY <2>2, <2>3
  <1> QED BY <1>4, <1>5 DEF HandOver

LEMMA ReleaseInHand == Control /\ InHand /\ Release => InHand'
  <1> SUFFICES ASSUME Control, InHand, Release PROVE InHand'
    OBVIOUS
  <1>1. pc = "release" /\ HandKept
    BY Typed DEF Release, GameFields, HandKept
  <1>2. pc \in Setup
    BY <1>1 DEF Setup
  <1>3. CASE GiveUp /\ (r' = [r EXCEPT !.recorded = TRUE] \/ r' = [r EXCEPT !.popups = FALSE])
    <2>1. LauncherKept
      BY <1>3, Typed DEF LauncherFields, LauncherKept
    <2>2. pc' = "idle"
      BY <1>3 DEF GiveUp, Goto
    <2> QED BY <1>1, <1>2, <2>1, <2>2, SetupInHand DEF HandKept, LauncherKept
  <1>4. CASE Released(RecordPause(FALSE))
    <2>1. PICK armed \in BOOLEAN :
            /\ timer' = IF r.ai THEN armed ELSE timer
            /\ r' = [r EXCEPT !.recorded = TRUE, !.monitoring = r.ai /\ armed, !.popups = @ /\ r.ai /\ armed]
            /\ pc' = "begin"
      BY <1>4 DEF Released
    <2>2. /\ r'.alive = r.alive /\ r'.ai = r.ai /\ r'.pending = r.pending /\ r'.target = r.target
          /\ r'.monitoring = (r.ai /\ armed) /\ r'.play = r.play
      BY <2>1, Typed DEF LauncherFields
    <2>3. r.alive /\ ~r.monitoring /\ (r.ai => Settled)
      BY <1>1, <1>2 DEF InHand, Rests
    <2>4. r'.ai => Settled'
      BY <1>1, <2>2, <2>3 DEF Settled, HandKept
    <2>5. ~r.pending
      BY <2>3 DEF InHand, Settled
    <2>6. r'.monitoring => r'.ai /\ timer'
      BY <2>1, <2>2
    <2>7. pc' \notin Setup
      BY <2>1 DEF Setup
    <2>8. (r'.ai => r'.play) /\ (~r'.ai => game'.switch = None)
      BY <1>1, <2>2 DEF InHand, HandKept
    <2> QED BY <2>1, <2>2, <2>3, <2>4, <2>5, <2>6, <2>7, <2>8 DEF InHand, Setup
  <1> QED BY <1>3, <1>4 DEF Release

-----------------------------------------------------------------------------
(* The watchdog.                                                           *)

LEMMA StopMonitoringInHand ==
  ASSUME Control, InHand, pc = "watch", NEW g, NEW restore, g \in GameFields,
         g.human = game.human, g.switch = game.switch, StopMonitoring(g, restore)
  PROVE  InHand'
  <1>1. timer' = FALSE /\ pc' = "idle"
    BY DEF StopMonitoring, Goto
  <1>2. PICK u : r' = [r EXCEPT !.monitoring = FALSE, !.popups = FALSE, !.pending = FALSE,
                                !.target = None, !.unclean = u]
    BY DEF StopMonitoring
  <1>3. /\ r'.monitoring = FALSE /\ r'.pending = FALSE /\ r'.alive = r.alive /\ r'.ai = r.ai
        /\ r'.play = r.play
    BY <1>2, Typed DEF LauncherFields
  <1>4. game' = g \/ game' = ReturnedToAI(g, r.target)
    BY DEF StopMonitoring
  <1>5. game'.human \subseteq game.human /\ game'.switch = game.switch
    <2>1. CASE game' = g
      BY <2>1
    <2>2. CASE game' = ReturnedToAI(g, r.target)
      <3>1. /\ ReturnedToAI(g, r.target).human = g.human \ {r.target}
            /\ ReturnedToAI(g, r.target).switch = g.switch
        BY DEF ReturnedToAI, GameFields
      <3>2. game'.human = game.human \ {r.target} /\ game'.switch = game.switch
        BY <2>2, <3>1
      <3> QED BY <3>2
    <2> QED BY <1>4, <2>1, <2>2
  <1>6. r.alive /\ pc' \in Rests
    BY <1>1 DEF InHand, Rests
  <1> QED BY <1>1, <1>3, <1>5, <1>6, EndsInHand

LEMMA HeldInHand ==
  ASSUME Control, NEW paused \in BOOLEAN
  PROVE  LET held == [game EXCEPT !.paused = paused]
         IN held \in GameFields /\ held.human = game.human /\ held.switch = game.switch
  BY Typed DEF GameFields

LEMMA WatchWaitsInHand ==
  ASSUME Control, InHand, pc = "watch", UNCHANGED <<r, timer>>, HandKept, pc' \in {"idle", "begin"}
  PROVE  InHand'
  <1>1. r.alive /\ pc \notin Rests /\ pc' \notin Setup /\ pc' # "frontend"
    BY DEF InHand, Rests, Setup
  <1> QED BY <1>1, GoesOnInHand DEF HandKept

LEMMA WatchLaterInHand == Control /\ InHand /\ WatchLater => InHand'
  <1> SUFFICES ASSUME Control, InHand, WatchLater PROVE InHand'
    OBVIOUS
  <1>1. pc = "watch" /\ UNCHANGED <<r, timer, game>> /\ pc' = "idle"
    BY DEF WatchLater, Goto
  <1> QED BY <1>1, WatchWaitsInHand DEF HandKept

LEMMA WatchViewInHand == Control /\ InHand /\ WatchView => InHand'
  <1> SUFFICES ASSUME Control, InHand, WatchView PROVE InHand'
    OBVIOUS
  <1>1. pc = "watch"
    BY DEF WatchView
  <1>2. r.alive
    BY <1>1 DEF InHand
  <1>3. CASE StopMonitoring(game, FALSE)
    BY <1>1, <1>3, Typed, StopMonitoringInHand
  <1>4. CASE \E resumed \in BOOLEAN : StopMonitoring([game EXCEPT !.paused = @ \/ ~resumed], FALSE)
    <2>1. PICK resumed \in BOOLEAN : StopMonitoring([game EXCEPT !.paused = game.paused \/ ~resumed], FALSE)
      BY <1>4
    <2>2. PICK paused \in BOOLEAN : paused = (game.paused \/ ~resumed)
      OBVIOUS
    <2>3. StopMonitoring([game EXCEPT !.paused = paused], FALSE)
      BY <2>1, <2>2
    <2> QED BY <1>1, <2>3, HeldInHand, StopMonitoringInHand
  <1>5. CASE /\ MaySwitch(r.view)
             /\ r' = [[r EXCEPT !.pending = TRUE, !.target = r.view, !.tries = 0,
                                !.aiBefore = Cardinality(game.ai)] EXCEPT !.view = None]
             /\ game' = Switching([game EXCEPT !.paused = TRUE], r.view)
             /\ Goto("idle") /\ UNCHANGED timer
    <2>1. pc' = "idle"
      BY <1>5 DEF Goto
    <2>2. pc' \notin Setup \cup {"untimed"} /\ pc # "untimed"
      BY <1>1, <2>1 DEF Setup
    <2>3. timer => timer'
      BY <1>5
    <2> QED BY <1>2, <1>5, <2>2, <2>3, RequestInHand, Zenon
  <1> QED BY <1>3, <1>4, <1>5 DEF WatchView, RequestSwitch

LEMMA WatchFailoverInHand == Control /\ InHand /\ WatchFailover => InHand'
  <1> SUFFICES ASSUME Control, InHand, WatchFailover PROVE InHand'
    OBVIOUS
  <1>1. pc = "watch" /\ ~r.pending
    BY DEF WatchFailover, Watching
  <1>2. r.alive /\ r.monitoring
    BY <1>1 DEF InHand, Control, WayIn
  <1>3. CASE StopMonitoring(game, FALSE)
    BY <1>1, <1>3, Typed, StopMonitoringInHand
  <1>4. CASE StopMonitoring([game EXCEPT !.paused = TRUE], FALSE)
    BY <1>1, <1>4, HeldInHand, StopMonitoringInHand
  <1>5. CASE \E read \in {TRUE, FALSE} : \E c \in Countries :
               /\ r' = [r EXCEPT !.pending = TRUE, !.target = c, !.tries = 0,
                                 !.aiBefore = IF read THEN Cardinality(game.ai) ELSE 0]
               /\ game' = Switching([game EXCEPT !.paused = TRUE], c) /\ Goto("idle") /\ UNCHANGED timer
    <2>1. PICK read \in {TRUE, FALSE}, c \in Countries :
               /\ r' = [r EXCEPT !.pending = TRUE, !.target = c, !.tries = 0,
                                 !.aiBefore = IF read THEN Cardinality(game.ai) ELSE 0]
               /\ game' = Switching([game EXCEPT !.paused = TRUE], c) /\ Goto("idle") /\ UNCHANGED timer
      BY <1>5
    <2>2. /\ r'.alive = r.alive /\ r'.ai = r.ai /\ r'.pending /\ r'.target = c
          /\ r'.monitoring = r.monitoring /\ r'.play = r.play
      BY <2>1, Typed DEF LauncherFields
    <2>3. game'.human = game.human /\ game'.switch = c
      BY <2>1, Typed DEF GameFields, Switching
    <2>4. pc' = "idle" /\ (timer => timer')
      BY <2>1 DEF Goto
    <2>5. pc' \notin Setup \cup {"untimed"} /\ pc # "untimed"
      BY <1>1, <2>4 DEF Setup
    <2> QED BY <1>1, <1>2, <2>2, <2>3, <2>4, <2>5, AsksInHand
  <1> QED BY <1>3, <1>4, <1>5 DEF WatchFailover

LEMMA WatchSwitchInHand == Control /\ InHand /\ WatchSwitch => InHand'
  <1> SUFFICES ASSUME Control, InHand, WatchSwitch PROVE InHand'
    OBVIOUS
  <1> DEFINE held == [game EXCEPT !.paused = TRUE]
             back == ReturnedToAI(held, r.target)
             done == [r EXCEPT !.pending = FALSE, !.target = None, !.tries = 0]
  <1>1. pc = "watch" /\ r.pending
    BY DEF WatchSwitch, Watching
  <1>2. r.alive /\ r.monitoring
    BY <1>1 DEF InHand, Control, WayIn
  <1>3. held \in GameFields /\ held.human = game.human /\ held.switch = game.switch
    BY HeldInHand
  <1>4. back.human = game.human \ {r.target} /\ back.switch = game.switch /\ [back EXCEPT !.paused = FALSE].human = back.human
        /\ [back EXCEPT !.paused = FALSE].switch = back.switch
    <2> HIDE DEF held
    <2> QED BY <1>3 DEF ReturnedToAI, GameFields
  <1> HIDE DEF held, back
  <1>5. CASE StopMonitoring(game, FALSE)
    BY <1>1, <1>5, Typed, StopMonitoringInHand
  <1>6. CASE StopMonitoring(held, FALSE) \/ StopMonitoring(held, TRUE)
    BY <1>1, <1>3, <1>6, StopMonitoringInHand
  <1>7. CASE game' = held /\ Goto("idle") /\ UNCHANGED <<r, timer>>
    BY <1>1, <1>3, <1>7, WatchWaitsInHand DEF HandKept, Goto
  <1>8. CASE /\ Controlled(game, r.target) /\ back.human = {}
             /\ \/ game' = [back EXCEPT !.paused = FALSE] /\ r' = done /\ UNCHANGED timer
                \/ game' = back /\ r' = [done EXCEPT !.monitoring = FALSE, !.popups = FALSE]
             /\ Goto("idle")
    <2>1. game.switch = None
      <3>1. game.human # {}
        BY <1>8 DEF Controlled
      <3> QED BY <1>1, <3>1 DEF InHand
    <2>2. game'.human = {} /\ game'.switch = None
      BY <1>4, <1>8, <2>1
    <2>3. /\ r'.alive = r.alive /\ r'.ai = r.ai /\ r'.play = r.play /\ ~r'.pending
          /\ r'.monitoring => timer' = timer
      BY <1>8, Typed DEF LauncherFields
    <2>4. pc' = "idle"
      BY <1>8 DEF Goto
    <2> QED BY <1>1, <1>2, <2>2, <2>3, <2>4, DoneInHand
  <1> QED BY <1>5, <1>6, <1>7, <1>8 DEF WatchSwitch, held, back

LEMMA WatchPauseInHand == Control /\ InHand /\ WatchPause => InHand'
  <1> SUFFICES ASSUME Control, InHand, WatchPause PROVE InHand'
    OBVIOUS
  <1>1. pc = "watch"
    BY DEF WatchPause, Watching
  <1>2. CASE StopMonitoring(game, FALSE)
    BY <1>1, <1>2, Typed, StopMonitoringInHand
  <1>3. CASE /\ game' = IF seen.paused THEN [game EXCEPT !.paused = FALSE] ELSE game
             /\ (IF ObserverValid THEN Goto("begin") ELSE Goto("idle"))
             /\ UNCHANGED <<r, timer>>
    <2>1. HandKept
      BY <1>3, HeldInHand DEF HandKept
    <2>2. pc' \in {"idle", "begin"}
      BY <1>3 DEF Goto
    <2> QED BY <1>1, <1>3, <2>1, <2>2, WatchWaitsInHand
  <1> QED BY <1>2, <1>3 DEF WatchPause

LEMMA NextInHand == Control /\ InHand /\ [Next]_vars => InHand'
  <1> SUFFICES ASSUME Control, InHand, [Next]_vars PROVE InHand'
    OBVIOUS
  <1>1. CASE Callback
    BY <1>1, TimerFiresInHand, DrainConsoleRequestInHand, FrontendInHand, ReadUnavailableInHand,
       ReadCampaignInHand, TickBenchmarkInHand, FinishingInHand, BeginBenchmarkInHand,
       NoBenchmarkToStartInHand, EndedInHand, ConfiguringInHand, HandOverInHand, ReleaseInHand,
       WatchLaterInHand, WatchViewInHand, WatchFailoverInHand, WatchSwitchInHand, WatchPauseInHand
    DEF Callback
  <1>2. CASE Next /\ ~Callback
    BY <1>2, FrontendCapturedInHand, StopInHand, WorldActsInHand, EntersInHand, TagSwitchInHand,
       AnnexedInHand DEF Next
  <1>3. CASE UNCHANGED vars
    BY <1>3 DEF vars, InHand, Settled
  <1> QED BY <1>1, <1>2, <1>3

LEMMA InHandWatchIsKept == Control /\ InHand => WatchIsKept
  <1> SUFFICES ASSUME Control, InHand PROVE WatchIsKept
    OBVIOUS
  <1>1. r \in LauncherFields /\ b \in ControllerFields /\ game \in GameFields
    BY DEF Control, Fields
  <1>2. TypeOK
    <2>1. pc \in Steps /\ timer \in BOOLEAN /\ late \in BOOLEAN
      BY DEF Control, Fields
    <2>2. r.tries \in 0 .. Tries /\ r.saveTries \in 0 .. Tries /\ r.campTries \in 0 .. Tries
      BY <1>1 DEF LauncherFields, Counts
    <2>3. r.target \in Countries \cup {None} /\ (r.pending <=> r.target # None)
      BY <1>1 DEF LauncherFields, Maybe, Control, Fields
    <2>4. /\ game.phase \in {"menu", "loading", "campaign", "left"} /\ game.date \in Start .. MaxDate
          /\ game.human \subseteq Countries /\ game.ai \subseteq Countries /\ game.human \cap game.ai = {}
      BY <1>1 DEF GameFields, Dates, Control, Fields
    <2>5. b.active => Reachable(b.start, b.target)
      BY DEF Control, InBenchmark
    <2>6. seen = None <=> pc \in {"idle", "request", "frontend", "read"}
      <3>1. None \notin Snapshots
        BY RunnerAssumption
      <3> QED BY <3>1 DEF Control, Fields, Unread
    <2> QED BY <2>1, <2>2, <2>3, <2>4, <2>5, <2>6 DEF TypeOK
  <1>3. EndedIsQuiet
    BY DEF Control, Ended, EndedIsQuiet
  <1>4. WatchedIsReturned
    <2>1. r.monitoring /\ ~r.pending => game.human = {}
      BY DEF InHand, Settled
    <2>2. pc = "idle" /\ r.alive /\ r.monitoring => timer
      BY DEF InHand
    <2>3. r.pending => game.human \subseteq {r.target}
      BY DEF InHand
    <2> QED BY <2>1, <2>2, <2>3 DEF WatchedIsReturned
  <1>5. StoppedIsReported
    BY DEF Control, HumanIsAlwaysKnown, StoppedIsReported, Abandoned
  <1> QED BY <1>2, <1>3, <1>4, <1>5 DEF WatchIsKept

\* A native switch is only ever the watchdog's and of its target; a country is in human
\* hands only once its switch was done; the timer that gives it back is armed as long as
\* the watchdog runs, and gone when a switch outlived it.
THEOREM SpecInHand == Spec => [](Control /\ InHand)
  <1>1. Init => Control /\ InHand
    BY InitControl, InitInHand
  <1>2. Control /\ InHand /\ [Next]_vars => Control' /\ InHand'
    BY NextControl, NextInHand
  <1> QED BY <1>1, <1>2, PTL DEF Spec

\* Between two callbacks an ended run is quiet, a running watchdog has its timer armed and
\* only its target in human hands, and a stopped one has reported a human country; unless the
\* switch came after stop_monitoring gave it up (orphan), or the benchmark's end, a game over
\* or a lost campaign took the watchdog from a switch under way (pending).
THEOREM SpecWatchIsKept == Spec => []WatchIsKept
  BY SpecInHand, InHandWatchIsKept, PTL

-----------------------------------------------------------------------------
(* What the records tell.                                                  *)

Milestones ==
  {"campaign.save_selection_requested", "campaign.save_load_completed", "campaign.entered",
   "speed.configured", "pause.configured", "observer.configured"}
Records ==
  [event : Milestones \cup BenchmarkEvents, date : Maybe(Int), start : Maybe(Int), target : Maybe(Int),
   actual : Maybe(Int), days : Maybe(Int), late : Maybe(BOOLEAN), reason : Maybe(FailureReasons),
   paused : Maybe(BOOLEAN)]
Readers ==
  [started : BOOLEAN, resources : BOOLEAN, terminal : BOOLEAN,
   start : Maybe(Int), target : Maybe(Int), resourcesDate : Maybe(Int)]

Kinds(t) == {Kind(t[i].event) : i \in DOMAIN t}
Reader(t) == StateAfter(t)[Len(t)]

\* What a trace that can be read tells of the benchmark from start to target.
ReadTo(t, start, target) ==
  /\ Accepts(t) /\ Reader(t) \in Readers
  /\ Reader(t).started <=> "benchmark.started" \in Kinds(t)
  /\ Reader(t).resources <=> "benchmark.resources" \in Kinds(t)
  /\ Reader(t).terminal <=> "terminal" \in Kinds(t)
  /\ Reader(t).started => Reader(t).start = start /\ Reader(t).target = target

SomeUndated(t) == \E i \in DOMAIN t : Undated(t[i])
Good(t, start, target) ==
  t \in Seq(Records) /\ InOrderOnce(t) /\ (SomeUndated(t) \/ ReadTo(t, start, target))

LEMMA Appended ==
  ASSUME NEW t \in Seq(Records), NEW rec \in Records
  PROVE  /\ Append(t, rec) \in Seq(Records) /\ Len(Append(t, rec)) = Len(t) + 1 /\ Len(t) \in Nat
         /\ DOMAIN t = 1 .. Len(t) /\ DOMAIN Append(t, rec) = 1 .. Len(t) + 1
         /\ \A i \in 1 .. Len(t) : Append(t, rec)[i] = t[i]
         /\ Append(t, rec)[Len(t) + 1] = rec
         /\ \A i \in 1 .. Len(t) : t[i] \in Records
  <1>1. /\ Append(t, rec) \in Seq(Records) /\ Len(Append(t, rec)) = Len(t) + 1
        /\ \A i \in 1 .. Len(t) : Append(t, rec)[i] = t[i]
        /\ Append(t, rec)[Len(t) + 1] = rec
    BY AppendProperties
  <1>2. Len(t) \in Nat /\ DOMAIN t = 1 .. Len(t) /\ DOMAIN Append(t, rec) = 1 .. Len(Append(t, rec))
    BY <1>1, LenProperties
  <1>3. \A i \in 1 .. Len(t) : t[i] \in Records
    BY ElementOfSeq
  <1> QED BY <1>1, <1>2, <1>3

LEMMA KindsAppended ==
  ASSUME NEW t \in Seq(Records), NEW rec \in Records
  PROVE  Kinds(Append(t, rec)) = Kinds(t) \cup {Kind(rec.event)}
  <1> DEFINE u == Append(t, rec)
  <1>0. /\ Len(t) \in Nat /\ DOMAIN t = 1 .. Len(t) /\ DOMAIN u = 1 .. Len(t) + 1
        /\ \A i \in 1 .. Len(t) : u[i] = t[i]
        /\ u[Len(t) + 1] = rec
    BY Appended
  <1> HIDE DEF u
  <1>1. ASSUME NEW k \in Kinds(u) PROVE k \in Kinds(t) \cup {Kind(rec.event)}
    <2>1. PICK i \in DOMAIN u : k = Kind(u[i].event)
      BY DEF Kinds
    <2>2. CASE i \in 1 .. Len(t)
      BY <1>0, <2>1, <2>2 DEF Kinds
    <2>3. CASE i = Len(t) + 1
      BY <1>0, <2>1, <2>3
    <2> QED BY <1>0, <2>1, <2>2, <2>3
  <1>2. ASSUME NEW k \in Kinds(t) PROVE k \in Kinds(u)
    <2>1. PICK i \in DOMAIN t : k = Kind(t[i].event)
      BY DEF Kinds
    <2>2. i \in DOMAIN u /\ u[i] = t[i]
      BY <1>0, <2>1
    <2> QED BY <2>1, <2>2 DEF Kinds
  <1>3. Kind(rec.event) \in Kinds(u)
    <2>1. Len(t) + 1 \in DOMAIN u
      BY <1>0
    <2> QED BY <1>0, <2>1 DEF Kinds
  <1>4. Kinds(u) = Kinds(t) \cup {Kind(rec.event)}
    BY <1>1, <1>2, <1>3
  <1> QED BY <1>4 DEF u

\* A kind other than the terminal one is an event's own name.
LEMMA KindIsEvent ==
  ASSUME NEW t \in Seq(Records), NEW k \in Kinds(t), k # "terminal"
  PROVE  \E i \in 1 .. Len(t) : t[i].event = k
  <1>1. PICK i \in DOMAIN t : k = Kind(t[i].event)
    BY DEF Kinds
  <1>2. DOMAIN t = 1 .. Len(t)
    BY LenProperties
  <1> QED BY <1>1, <1>2 DEF Kind

LEMMA OrderKept ==
  ASSUME NEW t \in Seq(Records), NEW rec \in Records, InOrderOnce(t),
         Kind(rec.event) \notin Kinds(t), Before(rec.event) \subseteq Kinds(t) \ {"terminal"}
  PROVE  InOrderOnce(Append(t, rec))
  <1> DEFINE u == Append(t, rec)
  <1>0. /\ Len(t) \in Nat /\ DOMAIN t = 1 .. Len(t) /\ DOMAIN u = 1 .. Len(t) + 1
        /\ \A i \in 1 .. Len(t) : u[i] = t[i]
        /\ u[Len(t) + 1] = rec
    BY Appended
  <1> HIDE DEF u
  <1>1. ASSUME NEW i \in DOMAIN u, NEW e \in Before(u[i].event)
        PROVE  e \in {u[j].event : j \in 1 .. i - 1}
    <2>1. CASE i \in 1 .. Len(t)
      <3>1. e \in Before(t[i].event)
        BY <1>0, <2>1
      <3>4. Before(t[i].event) \subseteq {t[j].event : j \in 1 .. i - 1}
        BY <1>0, <2>1 DEF InOrderOnce
      <3>2. PICK j \in 1 .. i - 1 : e = t[j].event
        BY <3>1, <3>4
      <3>3. u[j] = t[j]
        BY <1>0, <2>1
      <3> QED BY <3>2, <3>3
    <2>2. CASE i = Len(t) + 1
      <3>1. e \in Kinds(t) /\ e # "terminal"
        BY <1>0, <2>2
      <3>2. PICK j \in 1 .. Len(t) : t[j].event = e
        BY <3>1, KindIsEvent
      <3>3. u[j] = t[j] /\ j \in 1 .. i - 1
        BY <1>0, <2>2
      <3> QED BY <3>2, <3>3
    <2> QED BY <1>0, <2>1, <2>2
  <1>2. ASSUME NEW i \in DOMAIN u, NEW j \in DOMAIN u, Kind(u[i].event) = Kind(u[j].event)
        PROVE  i = j
    <2>1. CASE i \in 1 .. Len(t) /\ j \in 1 .. Len(t)
      <3>1. Kind(t[i].event) = Kind(t[j].event)
        BY <1>0, <1>2, <2>1
      <3> QED BY <1>0, <2>1, <3>1 DEF InOrderOnce
    <2>2. \A k \in 1 .. Len(t) : Kind(u[k].event) # Kind(rec.event)
      BY <1>0 DEF Kinds
    <2>3. CASE i = Len(t) + 1 \/ j = Len(t) + 1
      <3>1. \A k \in DOMAIN u : k = Len(t) + 1 \/ k \in 1 .. Len(t)
        BY <1>0
      <3> QED BY <1>0, <1>2, <2>2, <2>3, <3>1
    <2> QED BY <1>0, <2>1, <2>3
  <1>3. InOrderOnce(u)
    BY <1>1, <1>2 DEF InOrderOnce
  <1> QED BY <1>3 DEF u

LEMMA ReaderAppended ==
  ASSUME NEW t \in Seq(Records), NEW rec \in Records
  PROVE  /\ \A n \in 0 .. Len(t) : StateAfter(Append(t, rec))[n] = StateAfter(t)[n]
         /\ Reader(Append(t, rec)) = AfterRecord(Reader(t), rec)
  <1> DEFINE u == Append(t, rec)
             f == StateAfter(t)
             g == StateAfter(u)
             Same == {n \in Nat : n <= Len(t) => g[n] = f[n]}
  <1>0. /\ Len(t) \in Nat /\ Len(u) = Len(t) + 1
        /\ \A i \in 1 .. Len(t) : u[i] = t[i]
        /\ u[Len(t) + 1] = rec
    BY Appended
  <1> HIDE DEF u
  <1>9. Len(u) \in Nat
    BY <1>0
  <1>1. Follows(f, t, Len(t)) /\ Follows(g, u, Len(u))
    BY <1>0, <1>9, ReaderFollowsTrace
  <1> HIDE DEF f, g
  <1>2. f[0] = NoBenchmark /\ \A n \in 1 .. Len(t) : f[n] = AfterRecord(f[n - 1], t[n])
    BY <1>0, <1>1 DEF Follows
  <1>3. g[0] = NoBenchmark /\ \A n \in 1 .. Len(t) + 1 : g[n] = AfterRecord(g[n - 1], u[n])
    BY <1>0, <1>1 DEF Follows
  <1>4. 0 \in Same
    BY <1>2, <1>3
  <1>5. ASSUME NEW n \in Nat, n \in Same PROVE n + 1 \in Same
    <2>1. SUFFICES ASSUME n + 1 <= Len(t) PROVE g[n + 1] = f[n + 1]
      OBVIOUS
    <2>2. g[n] = f[n] /\ n + 1 \in 1 .. Len(t) /\ n + 1 \in 1 .. Len(t) + 1 /\ (n + 1) - 1 = n
      BY <1>0, <1>5, <2>1
    <2>3. u[n + 1] = t[n + 1]
      BY <1>0, <2>2
    <2> QED BY <1>2, <1>3, <2>2, <2>3
  <1>6. Nat \subseteq Same
    <2> HIDE DEF Same
    <2> QED BY <1>4, <1>5, SetInduction
  <1>7. \A n \in 0 .. Len(t) : g[n] = f[n]
    BY <1>0, <1>6
  <1>8. g[Len(u)] = AfterRecord(f[Len(t)], rec)
    <2>1. Len(t) + 1 \in 1 .. Len(t) + 1 /\ (Len(t) + 1) - 1 = Len(t) /\ Len(t) \in 0 .. Len(t)
      BY <1>0
    <2> QED BY <1>0, <1>3, <1>7, <2>1
  <1> QED BY <1>7, <1>8 DEF u, f, g, Reader

LEMMA ReadAppended ==
  ASSUME NEW t \in Seq(Records), NEW rec \in Records, NEW s, NEW g, NEW start, NEW target,
         ReadTo(t, s, g), BenchmarkSchema(rec), InOrder(Reader(t), rec),
         IF rec.event = "benchmark.started" THEN rec.start = start /\ rec.target = target
         ELSE start = s /\ target = g
  PROVE  ReadTo(Append(t, rec), start, target)
  <1> DEFINE u == Append(t, rec)
  <1>0. /\ Len(t) \in Nat /\ Len(u) = Len(t) + 1
        /\ \A i \in 1 .. Len(t) : u[i] = t[i]
        /\ u[Len(t) + 1] = rec
    BY Appended
  <1>1. /\ \A n \in 0 .. Len(t) : StateAfter(u)[n] = StateAfter(t)[n]
        /\ Reader(u) = AfterRecord(Reader(t), rec)
    BY ReaderAppended
  <1>2. Kinds(u) = Kinds(t) \cup {Kind(rec.event)}
    BY KindsAppended
  <1> HIDE DEF u
  <1>3. Accepts(u)
    <2>1. ASSUME NEW n \in 1 .. Len(u) PROVE BenchmarkSchema(u[n]) /\ InOrder(StateAfter(u)[n - 1], u[n])
      <3>1. CASE n \in 1 .. Len(t)
        <4>1. n - 1 \in 0 .. Len(t) /\ u[n] = t[n]
          BY <1>0, <3>1
        <4>2. BenchmarkSchema(t[n]) /\ InOrder(StateAfter(t)[n - 1], t[n])
          BY <3>1 DEF ReadTo, Accepts
        <4> QED BY <1>1, <4>1, <4>2
      <3>2. CASE n = Len(t) + 1
        <4>1. n - 1 = Len(t) /\ Len(t) \in 0 .. Len(t) /\ u[n] = rec
          BY <1>0, <3>2
        <4> QED BY <1>1, <4>1 DEF Reader
      <3> QED BY <1>0, <3>1, <3>2
    <2> QED BY <2>1 DEF Accepts
  <1>4. Reader(t) \in Readers /\ rec.event \in Milestones \cup BenchmarkEvents
        /\ rec.start \in Maybe(Int) /\ rec.target \in Maybe(Int) /\ rec.date \in Maybe(Int)
    BY DEF ReadTo, Records
  <1>5. CASE rec.event = "benchmark.started"
    <2>1. Reader(u) = [Reader(t) EXCEPT !.started = TRUE, !.start = rec.start, !.target = rec.target]
      BY <1>1, <1>5 DEF AfterRecord, Terminals
    <2>2. Reader(u) \in Readers
      BY <1>4, <2>1 DEF Readers
    <2>3. /\ Reader(u).started /\ Reader(u).start = start /\ Reader(u).target = target
          /\ Reader(u).resources = Reader(t).resources /\ Reader(u).terminal = Reader(t).terminal
      BY <1>4, <1>5, <2>1 DEF Readers
    <2>4. Kind(rec.event) = "benchmark.started"
      BY <1>5 DEF Kind, Terminals
    <2> QED BY <1>2, <1>3, <2>2, <2>3, <2>4 DEF ReadTo, u
  <1>6. CASE rec.event = "benchmark.resources"
    <2>1. Reader(u) = [Reader(t) EXCEPT !.resources = TRUE, !.resourcesDate = rec.date]
      BY <1>1, <1>6 DEF AfterRecord, Terminals
    <2>2. Reader(u) \in Readers
      BY <1>4, <2>1 DEF Readers
    <2>3. /\ Reader(u).started = Reader(t).started /\ Reader(u).start = Reader(t).start
          /\ Reader(u).target = Reader(t).target /\ Reader(u).resources /\ Reader(u).terminal = Reader(t).terminal
      BY <1>4, <2>1 DEF Readers
    <2>4. Kind(rec.event) = "benchmark.resources" /\ rec.event # "benchmark.started"
      BY <1>6 DEF Kind, Terminals
    <2> QED BY <1>2, <1>3, <2>2, <2>3, <2>4 DEF ReadTo, u
  <1>7. CASE rec.event \in Terminals
    <2>1. Reader(u) = [Reader(t) EXCEPT !.terminal = TRUE]
      BY <1>1, <1>7 DEF AfterRecord, Terminals
    <2>2. Reader(u) \in Readers
      BY <1>4, <2>1 DEF Readers
    <2>3. /\ Reader(u).started = Reader(t).started /\ Reader(u).start = Reader(t).start
          /\ Reader(u).target = Reader(t).target /\ Reader(u).terminal /\ Reader(u).resources = Reader(t).resources
      BY <1>4, <2>1 DEF Readers
    <2>4. Kind(rec.event) = "terminal" /\ rec.event # "benchmark.started"
      BY <1>7 DEF Kind, Terminals
    <2> QED BY <1>2, <1>3, <2>2, <2>3, <2>4 DEF ReadTo, u
  <1>8. CASE rec.event \in Milestones
    <2>1. Reader(u) = Reader(t)
      BY <1>1, <1>8 DEF AfterRecord, Terminals, Milestones
    <2>2. Kind(rec.event) \notin {"terminal", "benchmark.resources", "benchmark.started"}
          /\ rec.event # "benchmark.started"
      BY <1>8 DEF Kind, Terminals, Milestones
    <2> QED BY <1>2, <1>3, <2>1, <2>2 DEF ReadTo, u
  <1> QED BY <1>4, <1>5, <1>6, <1>7, <1>8 DEF BenchmarkEvents

LEMMA GoodAppended ==
  ASSUME NEW t, NEW rec \in Records, NEW s, NEW g, NEW start, NEW target, Good(t, s, g),
         Kind(rec.event) \notin Kinds(t), Before(rec.event) \subseteq Kinds(t) \ {"terminal"},
         (ReadTo(t, s, g) => BenchmarkSchema(rec) /\ InOrder(Reader(t), rec)) \/ Undated(rec),
         IF rec.event = "benchmark.started" THEN rec.start = start /\ rec.target = target
         ELSE start = s /\ target = g
  PROVE  Good(Append(t, rec), start, target)
  <1>1. t \in Seq(Records)
    BY DEF Good
  <1>2. /\ Append(t, rec) \in Seq(Records) /\ Len(t) \in Nat
        /\ DOMAIN t = 1 .. Len(t) /\ DOMAIN Append(t, rec) = 1 .. Len(t) + 1
        /\ \A i \in 1 .. Len(t) : Append(t, rec)[i] = t[i]
        /\ Append(t, rec)[Len(t) + 1] = rec
    BY <1>1, Appended
  <1>3. InOrderOnce(Append(t, rec))
    BY <1>1, OrderKept DEF Good
  <1>4. SomeUndated(t) => SomeUndated(Append(t, rec))
    <2> SUFFICES ASSUME NEW i \in DOMAIN t, Undated(t[i]) PROVE SomeUndated(Append(t, rec))
      BY DEF SomeUndated
    <2> DEFINE u == Append(t, rec)
    <2>1. i \in DOMAIN u /\ u[i] = t[i]
      BY <1>2
    <2> HIDE DEF u
    <2>2. SomeUndated(u)
      BY <2>1 DEF SomeUndated
    <2> QED BY <2>2 DEF u
  <1>5. Undated(rec) => SomeUndated(Append(t, rec))
    <2> DEFINE u == Append(t, rec)
    <2>1. Len(t) + 1 \in DOMAIN u /\ u[Len(t) + 1] = rec
      BY <1>2
    <2> HIDE DEF u
    <2>2. Undated(rec) => SomeUndated(u)
      BY <2>1 DEF SomeUndated
    <2> QED BY <2>2 DEF u
  <1>6. CASE SomeUndated(t) \/ Undated(rec)
    BY <1>2, <1>3, <1>4, <1>5, <1>6 DEF Good
  <1>7. CASE ~SomeUndated(t) /\ ~Undated(rec)
    <2>1. ReadTo(t, s, g)
      BY <1>7 DEF Good
    <2>2. ReadTo(Append(t, rec), start, target)
      BY <1>1, <1>7, <2>1, ReadAppended
    <2> QED BY <1>2, <1>3, <2>2 DEF Good
  <1> QED BY <1>6, <1>7

LEMMA NothingRead == ASSUME NEW s, NEW g PROVE Good(<<>>, s, g) /\ Kinds(<<>>) = {}
  <1>1. <<>> \in Seq(Records) /\ Len(<<>>) = 0 /\ DOMAIN <<>> = {}
    BY EmptySeq
  <1>2. Kinds(<<>>) = {} /\ InOrderOnce(<<>>)
    BY <1>1 DEF Kinds, InOrderOnce
  <1>3. StateAfter(<<>>)[0] = NoBenchmark
    <2>1. Len(<<>>) \in Nat
      BY <1>1
    <2>2. Follows(StateAfter(<<>>), <<>>, Len(<<>>))
      BY <2>1, ReaderFollowsTrace
    <2> QED BY <1>1, <2>2 DEF Follows
  <1>4. Reader(<<>>) = NoBenchmark
    BY <1>1, <1>3 DEF Reader
  <1>5. NoBenchmark \in Readers
    <2>1. None \in Maybe(Int)
      BY Basics
    <2> QED BY <2>1 DEF NoBenchmark, Readers
  <1>7. Accepts(<<>>)
    BY <1>1 DEF Accepts
  <1>8. ~NoBenchmark.started /\ ~NoBenchmark.resources /\ ~NoBenchmark.terminal
    BY DEF NoBenchmark
  <1>6. ReadTo(<<>>, s, g)
    BY <1>2, <1>4, <1>5, <1>7, <1>8 DEF ReadTo
  <1> QED BY <1>1, <1>2, <1>6 DEF Good

Entered == {"bench", "watch", "configure", "handover", "fog", "speed", "release"}

\* What the kinds of the records tell of the launcher l at step p, and l of them.
Tells(kinds, l, p, sink) ==
  /\ sink =>
       /\ l.selected => "campaign.save_selection_requested" \in kinds
       /\ l.play => "campaign.save_load_completed" \in kinds
       /\ p \in Entered => "campaign.entered" \in kinds
       /\ l.speed => "speed.configured" \in kinds
       /\ l.recorded => "pause.configured" \in kinds
       /\ l.started => "benchmark.started" \in kinds
       /\ l.terminal /\ p # "invalid" => "terminal" \in kinds
  /\ "benchmark.started" \in kinds => l.started
  /\ "terminal" \in kinds => l.terminal /\ p # "invalid"
  /\ "benchmark.resources" \in kinds => "terminal" \in kinds

Story ==
  /\ Good(trace, b.start, b.target)
  /\ Tells(Kinds(trace), r, pc, cfg.sink)
  /\ ~cfg.sink => trace = <<>>

LEMMA TellsMore ==
  ASSUME NEW K, NEW L, NEW l, NEW m, NEW p, NEW q, NEW sink, Tells(K, l, p, sink),
         K \subseteq L, L \subseteq K \cup Milestones,
         sink /\ m.selected => l.selected \/ "campaign.save_selection_requested" \in L,
         sink /\ m.play => l.play \/ "campaign.save_load_completed" \in L,
         sink /\ q \in Entered => p \in Entered \/ "campaign.entered" \in L,
         sink /\ m.speed => l.speed \/ "speed.configured" \in L,
         sink /\ m.recorded => l.recorded \/ "pause.configured" \in L,
         m.started = l.started, m.terminal = l.terminal, p # "invalid", q # "invalid"
  PROVE  Tells(L, m, q, sink)
  BY DEF Tells, Milestones

LEMMA StoryKept ==
  ASSUME Story, UNCHANGED <<cfg, trace>>, b'.start = b.start, b'.target = b.target,
         r'.selected => r.selected, r'.play => r.play, r'.speed => r.speed, r'.recorded => r.recorded,
         r'.started = r.started, r'.terminal = r.terminal,
         pc' \in Entered => pc \in Entered, pc # "invalid", pc' # "invalid"
  PROVE  Story'
  <1>1. Tells(Kinds(trace), r', pc', cfg.sink)
    BY TellsMore DEF Story
  <1> QED BY <1>1 DEF Story

LEMMA SentIsKind == \A kind : Sent(kind) <=> kind \in Kinds(trace)
  BY DEF Sent, Kinds

LEMMA WithIs ==
  ASSUME NEW t, NEW rec
  PROVE  With(t, rec) = IF cfg.sink /\ Kind(rec.event) \notin Kinds(trace) THEN Append(t, rec) ELSE t
  BY SentIsKind DEF With

LEMMA MilestoneSent ==
  ASSUME NEW t, NEW s, NEW g, Good(t, s, g), NEW rec \in Records, rec.event \in Milestones,
         rec.event \in Kinds(trace) <=> rec.event \in Kinds(t),
         cfg.sink => Before(rec.event) \subseteq Kinds(t)
  PROVE  /\ Good(With(t, rec), s, g)
         /\ Kinds(t) \subseteq Kinds(With(t, rec)) /\ Kinds(With(t, rec)) \subseteq Kinds(t) \cup {rec.event}
         /\ cfg.sink => rec.event \in Kinds(With(t, rec))
         /\ ~cfg.sink => With(t, rec) = t
  <1>1. Kind(rec.event) = rec.event /\ "terminal" \notin Before(rec.event)
    BY DEF Kind, Milestones, Terminals, Before
  <1>2. With(t, rec) = IF cfg.sink /\ rec.event \notin Kinds(t) THEN Append(t, rec) ELSE t
    BY <1>1, WithIs
  <1>3. CASE cfg.sink /\ rec.event \notin Kinds(t)
    <2>1. BenchmarkSchema(rec) /\ InOrder(Reader(t), rec)
      BY DEF BenchmarkSchema, InOrder, Milestones, Terminals
    <2>2. rec.event # "benchmark.started"
      BY DEF Milestones
    <2>3. Good(Append(t, rec), s, g)
      BY <1>1, <1>3, <2>1, <2>2, GoodAppended
    <2>4. Kinds(Append(t, rec)) = Kinds(t) \cup {rec.event}
      BY <1>1, KindsAppended DEF Good
    <2> QED BY <1>2, <1>3, <2>3, <2>4
  <1>4. CASE ~(cfg.sink /\ rec.event \notin Kinds(t))
    BY <1>2, <1>4
  <1> QED BY <1>3, <1>4

LEMMA MilestoneRecords ==
  /\ \A event \in Milestones \cup BenchmarkEvents : Rec(event) \in Records /\ Rec(event).event = event
  /\ \A paused \in BOOLEAN : PauseConfigured(paused) \in Records /\ PauseConfigured(paused).event = "pause.configured"
  <1>1. /\ None \in Maybe(Int) /\ None \in Maybe(BOOLEAN) /\ None \in Maybe(FailureReasons)
        /\ \A paused \in BOOLEAN : paused \in Maybe(BOOLEAN)
    BY Basics
  <1>2. ASSUME NEW event \in Milestones \cup BenchmarkEvents
        PROVE  Rec(event) \in Records /\ Rec(event).event = event
    BY <1>1 DEF Rec, Records
  <1>3. ASSUME NEW paused \in BOOLEAN
        PROVE  PauseConfigured(paused) \in Records /\ PauseConfigured(paused).event = "pause.configured"
    <2>1. Rec("pause.configured") \in Records
      BY <1>2 DEF Milestones
    <2>2. PauseConfigured(paused) \in Records
      BY <1>1, <2>1 DEF PauseConfigured, Records
    <2> QED BY <2>2 DEF PauseConfigured, Rec
  <1> QED BY <1>2, <1>3

-----------------------------------------------------------------------------
(* Steps that tell nothing.                                                *)

LEMMA TimerFiresStory == Control /\ Story /\ TimerFires => Story'
  <1> SUFFICES ASSUME Control, Story, TimerFires PROVE Story'
    OBVIOUS
  <1>1. r \in LauncherFields
    BY DEF Control, Fields
  <1>2. UNCHANGED <<cfg, trace, b>> /\ pc = "idle" /\ pc' \in {"request", "read", "frontend"}
    BY DEF TimerFires, Kept
  <1>3. /\ r'.selected = r.selected /\ r'.play = r.play /\ r'.speed = r.speed /\ r'.recorded = r.recorded
        /\ r'.started = r.started /\ r'.terminal = r.terminal
    BY <1>1 DEF LauncherFields, TimerFires, Kept
  <1> QED BY <1>2, <1>3, StoryKept DEF Entered

LEMMA AcquireControllerStory == Control /\ Story /\ AcquireController => Story'
  <1> SUFFICES ASSUME Control, Story, AcquireController PROVE Story'
    OBVIOUS
  <1>1. r \in LauncherFields
    BY DEF Control, Fields
  <1>2. UNCHANGED <<cfg, trace, b>> /\ pc = "frontend" /\ pc' = "idle"
    BY DEF AcquireController, Rearm, Goto, Quiet, Kept
  <1>3. /\ r'.selected = r.selected /\ r'.play = r.play /\ r'.speed = r.speed /\ r'.recorded = r.recorded
        /\ r'.started = r.started /\ r'.terminal = r.terminal
    BY <1>1 DEF LauncherFields, AcquireController, Rearm, Goto, Quiet, Kept
  <1> QED BY <1>2, <1>3, StoryKept DEF Entered

LEMMA SinglePlayerStory == Control /\ Story /\ SinglePlayer => Story'
  <1> SUFFICES ASSUME Control, Story, SinglePlayer PROVE Story'
    OBVIOUS
  <1>1. r \in LauncherFields
    BY DEF Control, Fields
  <1>2. UNCHANGED <<cfg, trace, b>> /\ pc = "frontend" /\ pc' = "idle"
    BY DEF SinglePlayer, Rearm, Goto, Quiet, Kept
  <1>3. /\ r'.selected = r.selected /\ r'.play = r.play /\ r'.speed = r.speed /\ r'.recorded = r.recorded
        /\ r'.started = r.started /\ r'.terminal = r.terminal
    BY <1>1 DEF LauncherFields, SinglePlayer, Rearm, Goto, Quiet, Kept
  <1> QED BY <1>2, <1>3, StoryKept DEF Entered

LEMMA NoBenchmarkToStartStory == Control /\ Story /\ NoBenchmarkToStart => Story'
  <1> SUFFICES ASSUME Control, Story, NoBenchmarkToStart PROVE Story'
    OBVIOUS
  <1>1. r \in LauncherFields
    BY DEF Control, Fields
  <1>2. UNCHANGED <<cfg, trace, b>> /\ pc \in {"begin", "gameover"} /\ pc' = "idle"
    BY DEF NoBenchmarkToStart, Goto, Quiet, Kept
  <1>3. /\ r'.selected = r.selected /\ r'.play = r.play /\ r'.speed = r.speed /\ r'.recorded = r.recorded
        /\ r'.started = r.started /\ r'.terminal = r.terminal
    BY <1>1 DEF LauncherFields, NoBenchmarkToStart, Goto, Quiet, Kept
  <1> QED BY <1>2, <1>3, StoryKept DEF Entered

LEMMA QuitStory == Control /\ Story /\ Quit => Story'
  <1> SUFFICES ASSUME Control, Story, Quit PROVE Story'
    OBVIOUS
  <1>1. r \in LauncherFields
    BY DEF Control, Fields
  <1>2. UNCHANGED <<cfg, trace, b>> /\ pc = "quit" /\ pc' = "idle"
    BY DEF Quit, Goto, Quiet, Kept
  <1>3. /\ r'.selected = r.selected /\ r'.play = r.play /\ r'.speed = r.speed /\ r'.recorded = r.recorded
        /\ r'.started = r.started /\ r'.terminal = r.terminal
    BY <1>1 DEF LauncherFields, Quit, Goto, Quiet, Kept
  <1> QED BY <1>2, <1>3, StoryKept DEF Entered

LEMMA ConfigureObserverStory == Control /\ Story /\ ConfigureObserver => Story'
  <1> SUFFICES ASSUME Control, Story, ConfigureObserver PROVE Story'
    OBVIOUS
  <1>1. r \in LauncherFields
    BY DEF Control, Fields
  <1>2. UNCHANGED <<cfg, trace, b>> /\ pc = "configure" /\ pc' \in {"idle", "handover"}
    BY DEF ConfigureObserver, WaitForConsole, GiveUp, Rearm, Goto, Quiet, Kept
  <1>3. /\ r'.selected = r.selected /\ r'.play = r.play /\ r'.speed = r.speed /\ r'.recorded = r.recorded
        /\ r'.started = r.started /\ r'.terminal = r.terminal
    BY <1>1 DEF LauncherFields, ConfigureObserver, WaitForConsole, GiveUp, Rearm, Goto, Quiet, Kept
  <1> QED BY <1>2, <1>3, StoryKept DEF Entered

LEMMA HandOverStory == Control /\ Story /\ HandOver => Story'
  <1> SUFFICES ASSUME Control, Story, HandOver PROVE Story'
    OBVIOUS
  <1>1. r \in LauncherFields
    BY DEF Control, Fields
  <1>2. UNCHANGED <<cfg, trace, b>> /\ pc = "handover" /\ pc' \in {"idle", "fog"}
    BY DEF HandOver, GiveUp, Goto, Quiet, Kept
  <1>3. /\ r'.selected = r.selected /\ r'.play = r.play /\ r'.speed = r.speed /\ r'.recorded = r.recorded
        /\ r'.started = r.started /\ r'.terminal = r.terminal
    BY <1>1 DEF LauncherFields, HandOver, GiveUp, Goto, Quiet, Kept
  <1> QED BY <1>2, <1>3, StoryKept DEF Entered

LEMMA LiftFogStory == Control /\ Story /\ LiftFog => Story'
  <1> SUFFICES ASSUME Control, Story, LiftFog PROVE Story'
    OBVIOUS
  <1>1. r \in LauncherFields
    BY DEF Control, Fields
  <1>2. UNCHANGED <<cfg, trace, b>> /\ pc = "fog" /\ pc' \in {"idle", "speed"}
    BY DEF LiftFog, WaitForConsole, GiveUp, Rearm, Goto, Quiet, Kept
  <1>3. /\ r'.selected = r.selected /\ r'.play = r.play /\ r'.speed = r.speed /\ r'.recorded = r.recorded
        /\ r'.started = r.started /\ r'.terminal = r.terminal
    BY <1>1 DEF LauncherFields, LiftFog, WaitForConsole, GiveUp, Rearm, Goto, Quiet, Kept
  <1> QED BY <1>2, <1>3, StoryKept DEF Entered

LEMMA WatchLaterStory == Control /\ Story /\ WatchLater => Story'
  <1> SUFFICES ASSUME Control, Story, WatchLater PROVE Story'
    OBVIOUS
  <1>1. r \in LauncherFields
    BY DEF Control, Fields
  <1>2. UNCHANGED <<cfg, trace, b>> /\ pc = "watch" /\ pc' = "idle"
    BY DEF WatchLater, Goto, Quiet, Kept
  <1>3. /\ r'.selected = r.selected /\ r'.play = r.play /\ r'.speed = r.speed /\ r'.recorded = r.recorded
        /\ r'.started = r.started /\ r'.terminal = r.terminal
    BY <1>1 DEF LauncherFields, WatchLater, Goto, Quiet, Kept
  <1> QED BY <1>2, <1>3, StoryKept DEF Entered

LEMMA WatchFailoverStory == Control /\ Story /\ WatchFailover => Story'
  <1> SUFFICES ASSUME Control, Story, WatchFailover PROVE Story'
    OBVIOUS
  <1>1. r \in LauncherFields
    BY DEF Control, Fields
  <1>2. UNCHANGED <<cfg, trace, b>> /\ pc = "watch" /\ pc' = "idle"
    BY DEF WatchFailover, Watching, StopMonitoring, Goto, Quiet, Kept
  <1>3. /\ r'.selected = r.selected /\ r'.play = r.play /\ r'.speed = r.speed /\ r'.recorded = r.recorded
        /\ r'.started = r.started /\ r'.terminal = r.terminal
    BY <1>1 DEF LauncherFields, WatchFailover, Watching, StopMonitoring, Goto, Quiet, Kept
  <1> QED BY <1>2, <1>3, StoryKept DEF Entered

LEMMA WatchSwitchStory == Control /\ Story /\ WatchSwitch => Story'
  <1> SUFFICES ASSUME Control, Story, WatchSwitch PROVE Story'
    OBVIOUS
  <1>1. r \in LauncherFields
    BY DEF Control, Fields
  <1>2. UNCHANGED <<cfg, trace, b>> /\ pc = "watch" /\ pc' = "idle"
    BY DEF WatchSwitch, Watching, StopMonitoring, Goto, Quiet, Kept
  <1>3. /\ r'.selected = r.selected /\ r'.play = r.play /\ r'.speed = r.speed /\ r'.recorded = r.recorded
        /\ r'.started = r.started /\ r'.terminal = r.terminal
    <2>1. ASSUME NEW g, NEW restore, StopMonitoring(g, restore)
          PROVE  /\ r'.selected = r.selected /\ r'.play = r.play /\ r'.speed = r.speed /\ r'.recorded = r.recorded
                 /\ r'.started = r.started /\ r'.terminal = r.terminal
      BY <1>1, <2>1 DEF LauncherFields, StopMonitoring
    <2> DEFINE done == [r EXCEPT !.pending = FALSE, !.target = None, !.tries = 0]
    <2>2. CASE r' = r \/ r' = done \/ r' = [done EXCEPT !.monitoring = FALSE, !.popups = FALSE]
      BY <1>1, <2>2 DEF LauncherFields
    <2>3. \/ r' = r \/ r' = done \/ r' = [done EXCEPT !.monitoring = FALSE, !.popups = FALSE]
          \/ \E g, restore : StopMonitoring(g, restore)
      <3> HIDE DEF done
      <3> QED BY DEF WatchSwitch, done
    <2> QED BY <2>1, <2>2, <2>3
  <1> QED BY <1>2, <1>3, StoryKept DEF Entered

LEMMA WatchViewStory == Control /\ Story /\ WatchView => Story'
  <1> SUFFICES ASSUME Control, Story, WatchView PROVE Story'
    OBVIOUS
  <1>1. r \in LauncherFields
    BY DEF Control, Fields
  <1>2. UNCHANGED <<cfg, trace, b>> /\ pc = "watch" /\ pc' = "idle"
    BY DEF WatchView, RequestSwitch, StopMonitoring, Goto, Quiet, Kept
  <1>3. /\ r'.selected = r.selected /\ r'.play = r.play /\ r'.speed = r.speed /\ r'.recorded = r.recorded
        /\ r'.started = r.started /\ r'.terminal = r.terminal
    BY <1>1 DEF LauncherFields, WatchView, RequestSwitch, StopMonitoring, Goto, Quiet, Kept
  <1> QED BY <1>2, <1>3, StoryKept DEF Entered

LEMMA DrainConsoleRequestStory == Control /\ Story /\ DrainConsoleRequest => Story'
  <1> SUFFICES ASSUME Control, Story, DrainConsoleRequest PROVE Story'
    OBVIOUS
  <1>1. r \in LauncherFields
    BY DEF Control, Fields
  <1>2. UNCHANGED <<cfg, trace, b>> /\ pc = "request" /\ pc' \in {"read", "frontend"}
    BY DEF DrainConsoleRequest, RequestSwitch, Kept
  <1>3. /\ r'.selected = r.selected /\ r'.play = r.play /\ r'.speed = r.speed /\ r'.recorded = r.recorded
        /\ r'.started = r.started /\ r'.terminal = r.terminal
    BY <1>1 DEF LauncherFields, DrainConsoleRequest, RequestSwitch, Kept
  <1> QED BY <1>2, <1>3, StoryKept DEF Entered

LEMMA StopStory == Control /\ Story /\ Stop => Story'
  <1> SUFFICES ASSUME Control, Story, Stop PROVE Story'
    OBVIOUS
  <1>1. r \in LauncherFields
    BY DEF Control, Fields
  <1>2. UNCHANGED <<cfg, trace, b>> /\ pc = "idle" /\ pc' = "idle"
    BY DEF Stop, Quiet, Kept
  <1>3. /\ r'.selected = r.selected /\ r'.play = r.play /\ r'.speed = r.speed /\ r'.recorded = r.recorded
        /\ r'.started = r.started /\ r'.terminal = r.terminal
    BY <1>1 DEF LauncherFields, Stop, Quiet, Kept
  <1> QED BY <1>2, <1>3, StoryKept DEF Entered

\* What the game, its player and the rest of the world do leaves the story as it is.
LEMMA OthersStory ==
  ASSUME Control, Story, UNCHANGED <<cfg, trace, b, r, pc>>
  PROVE  Story'
  BY DEF Story

-----------------------------------------------------------------------------
(* Steps on the way.                                                       *)

\* A milestone is sent, and with it a step of the way is done.
LEMMA StoryTold ==
  ASSUME Story, cfg' = cfg, b'.start = b.start, b'.target = b.target,
         NEW rec \in Records, rec.event \in Milestones, trace' = With(trace, rec),
         cfg.sink => Before(rec.event) \subseteq Kinds(trace),
         r'.selected => r.selected \/ rec.event = "campaign.save_selection_requested",
         r'.play => r.play \/ rec.event = "campaign.save_load_completed",
         pc' \in Entered => pc \in Entered \/ rec.event = "campaign.entered",
         r'.speed => r.speed \/ rec.event = "speed.configured",
         r'.recorded => r.recorded \/ rec.event = "pause.configured",
         r'.started = r.started, r'.terminal = r.terminal, pc # "invalid", pc' # "invalid"
  PROVE  Story'
  <1> DEFINE u == With(trace, rec)
  <1>1. /\ Good(u, b.start, b.target)
        /\ Kinds(trace) \subseteq Kinds(u) /\ Kinds(u) \subseteq Kinds(trace) \cup {rec.event}
        /\ cfg.sink => rec.event \in Kinds(u)
        /\ ~cfg.sink => u = trace
    BY MilestoneSent DEF Story
  <1> HIDE DEF u
  <1>2. Tells(Kinds(u), r', pc', cfg.sink)
    BY <1>1, TellsMore DEF Story
  <1>3. trace' = u /\ (~cfg.sink => u = <<>>)
    BY <1>1 DEF Story, u
  <1> QED BY <1>1, <1>2, <1>3 DEF Story

LEMMA StopKeeps ==
  ASSUME r \in LauncherFields, NEW g, NEW restore, StopMonitoring(g, restore)
  PROVE  /\ r'.selected = r.selected /\ r'.play = r.play /\ r'.speed = r.speed /\ r'.recorded = r.recorded
         /\ r'.started = r.started /\ r'.terminal = r.terminal
  <1>1. \E u : r' = [r EXCEPT !.monitoring = FALSE, !.popups = FALSE, !.pending = FALSE,
                              !.target = None, !.unclean = u]
    BY DEF StopMonitoring
  <1> QED BY <1>1 DEF LauncherFields

LEMMA SelectSaveStory == Control /\ Story /\ SelectSave => Story'
  <1> SUFFICES ASSUME Control, Story, SelectSave PROVE Story'
    OBVIOUS
  <1>1. r \in LauncherFields /\ UNCHANGED <<cfg, b>> /\ pc = "frontend" /\ pc' = "idle"
    BY DEF Control, Fields, SelectSave, Kept, Rearm, Goto
  <1>2. CASE UNCHANGED <<r, trace>>
    BY <1>1, <1>2, StoryKept DEF Entered
  <1>3. CASE r' = [r EXCEPT !.selected = TRUE] /\ Emit(Rec("campaign.save_selection_requested"))
    <2>1. /\ r'.play = r.play /\ r'.speed = r.speed /\ r'.recorded = r.recorded
          /\ r'.started = r.started /\ r'.terminal = r.terminal
      BY <1>1, <1>3 DEF LauncherFields
    <2>2. PICK rec \in Records : rec.event = "campaign.save_selection_requested" /\ trace' = With(trace, rec)
      BY <1>3, MilestoneRecords DEF Emit, Milestones
    <2>3. Before(rec.event) = {}
      BY <2>2 DEF Before, BenchmarkEvents, Terminals
    <2> QED BY <1>1, <2>1, <2>2, <2>3, StoryTold DEF Entered, Milestones
  <1> QED BY <1>2, <1>3 DEF SelectSave

LEMMA CheckSaveStory == Control /\ Story /\ CheckSave => Story'
  <1> SUFFICES ASSUME Control, Story, CheckSave PROVE Story'
    OBVIOUS
  <1>1. r \in LauncherFields /\ UNCHANGED <<cfg, b>> /\ pc = "frontend" /\ pc' = "idle" /\ r.selected
    BY DEF Control, Fields, CheckSave, Kept, Rearm, Goto
  <1>2. CASE UNCHANGED trace /\ (UNCHANGED r \/ r' = [r EXCEPT !.saveTries = @ + 1])
    <2>1. /\ r'.selected = r.selected /\ r'.play = r.play /\ r'.speed = r.speed /\ r'.recorded = r.recorded
          /\ r'.started = r.started /\ r'.terminal = r.terminal
      BY <1>1, <1>2 DEF LauncherFields
    <2> QED BY <1>1, <1>2, <2>1, StoryKept DEF Entered
  <1>3. CASE /\ UNCHANGED r \/ r' = [r EXCEPT !.play = TRUE, !.front = FALSE]
             /\ Emit(Rec("campaign.save_load_completed"))
    <2>1. /\ r'.selected = r.selected /\ r'.speed = r.speed /\ r'.recorded = r.recorded
          /\ r'.started = r.started /\ r'.terminal = r.terminal
      BY <1>1, <1>3 DEF LauncherFields
    <2>2. PICK rec \in Records : rec.event = "campaign.save_load_completed" /\ trace' = With(trace, rec)
      BY <1>3, MilestoneRecords DEF Emit, Milestones
    <2>3. Before(rec.event) = {"campaign.save_selection_requested"}
      BY <2>2 DEF Before, BenchmarkEvents, Terminals
    <2>4. cfg.sink => Before(rec.event) \subseteq Kinds(trace)
      BY <1>1, <2>3 DEF Story, Tells
    <2> QED BY <1>1, <2>1, <2>2, <2>4, StoryTold DEF Entered, Milestones
  <1> QED BY <1>2, <1>3 DEF CheckSave

LEMMA ReadCampaignStory == Control /\ Story /\ ReadCampaign => Story'
  <1> SUFFICES ASSUME Control, Story, ReadCampaign PROVE Story'
    OBVIOUS
  <1>1. r \in LauncherFields /\ UNCHANGED <<cfg, b>> /\ pc = "read" /\ r.play
    BY DEF Control, Fields, WayIn, ReadCampaign, Kept
  <1>2. CASE game.over
    <2>1. /\ r'.selected = r.selected /\ r'.play = r.play /\ r'.speed = r.speed /\ r'.recorded = r.recorded
          /\ r'.started = r.started /\ r'.terminal = r.terminal
      BY <1>1, <1>2 DEF LauncherFields, ReadCampaign
    <2>2. trace' = trace /\ pc' \in {"gameover", "idle"}
      BY <1>2 DEF ReadCampaign, Goto
    <2> QED BY <1>1, <2>1, <2>2, StoryKept DEF Entered
  <1>3. CASE ~game.over
    <2>1. r' = r /\ pc' \in {"bench", "watch", "configure", "speed"} /\ Emit(Rec("campaign.entered"))
      BY <1>3 DEF ReadCampaign, AfterBench
    <2>2. PICK rec \in Records : rec.event = "campaign.entered" /\ trace' = With(trace, rec)
      BY <2>1, MilestoneRecords DEF Emit, Milestones
    <2>3. Before(rec.event) = {"campaign.save_load_completed"}
      BY <2>2 DEF Before, BenchmarkEvents, Terminals
    <2>4. cfg.sink => Before(rec.event) \subseteq Kinds(trace)
      BY <1>1, <2>3 DEF Story, Tells
    <2> QED BY <1>1, <2>1, <2>2, <2>4, StoryTold DEF Milestones
  <1> QED BY <1>2, <1>3

LEMMA SelectSpeedStory == Control /\ Story /\ SelectSpeed => Story'
  <1> SUFFICES ASSUME Control, Story, SelectSpeed PROVE Story'
    OBVIOUS
  <1>1. r \in LauncherFields /\ UNCHANGED <<cfg, b>> /\ pc = "speed" /\ pc' \in {"release", "idle"}
    BY DEF Control, Fields, SelectSpeed, Kept, GiveUp, Goto
  <1>2. CASE UNCHANGED trace /\ (UNCHANGED r \/ r' = [r EXCEPT !.popups = FALSE])
    <2>1. /\ r'.selected = r.selected /\ r'.play = r.play /\ r'.speed = r.speed /\ r'.recorded = r.recorded
          /\ r'.started = r.started /\ r'.terminal = r.terminal
      BY <1>1, <1>2 DEF LauncherFields
    <2> QED BY <1>1, <1>2, <2>1, StoryKept DEF Entered
  <1>3. CASE r' = [r EXCEPT !.speed = TRUE] /\ Emit(Rec("speed.configured"))
    <2>1. /\ r'.selected = r.selected /\ r'.play = r.play /\ r'.recorded = r.recorded
          /\ r'.started = r.started /\ r'.terminal = r.terminal
      BY <1>1, <1>3 DEF LauncherFields
    <2>2. PICK rec \in Records : rec.event = "speed.configured" /\ trace' = With(trace, rec)
      BY <1>3, MilestoneRecords DEF Emit, Milestones
    <2>3. Before(rec.event) = {"campaign.entered"}
      BY <2>2 DEF Before, BenchmarkEvents, Terminals
    <2>4. cfg.sink => Before(rec.event) \subseteq Kinds(trace)
      BY <1>1, <2>3 DEF Story, Tells, Entered
    <2> QED BY <1>1, <2>1, <2>2, <2>4, StoryTold DEF Entered, Milestones
  <1> QED BY <1>2, <1>3 DEF SelectSpeed

LEMMA WatchPauseStory == Control /\ Story /\ WatchPause => Story'
  <1> SUFFICES ASSUME Control, Story, WatchPause PROVE Story'
    OBVIOUS
  <1>1. r \in LauncherFields /\ UNCHANGED <<cfg, b>> /\ pc = "watch" /\ r.monitoring /\ r.recorded
    BY DEF Control, Fields, WayIn, WatchPause, Watching, Kept
  <1>2. CASE UNCHANGED trace /\ StopMonitoring(game, FALSE)
    <2>1. /\ r'.selected = r.selected /\ r'.play = r.play /\ r'.speed = r.speed /\ r'.recorded = r.recorded
          /\ r'.started = r.started /\ r'.terminal = r.terminal
      BY <1>1, <1>2, StopKeeps
    <2>2. pc' = "idle"
      BY <1>2 DEF StopMonitoring, Goto
    <2> QED BY <1>1, <1>2, <2>1, <2>2, StoryKept DEF Entered
  <1>3. CASE /\ trace' = IF ObserverValid THEN With(trace, Rec("observer.configured")) ELSE trace
             /\ (IF ObserverValid THEN Goto("begin") ELSE Goto("idle"))
             /\ UNCHANGED r
    <2>1. pc' \in {"begin", "idle"}
      BY <1>3 DEF Goto
    <2>2. CASE trace' = trace
      BY <1>1, <1>3, <2>1, <2>2, StoryKept DEF Entered
    <2>3. CASE trace' = With(trace, Rec("observer.configured"))
      <3>2. PICK rec \in Records : rec.event = "observer.configured" /\ trace' = With(trace, rec)
        BY <2>3, MilestoneRecords DEF Milestones
      <3>3. Before(rec.event) = {"pause.configured"}
        BY <3>2 DEF Before, BenchmarkEvents, Terminals
      <3>4. cfg.sink => Before(rec.event) \subseteq Kinds(trace)
        BY <1>1, <3>3 DEF Story, Tells
      <3> QED BY <1>1, <1>3, <2>1, <3>2, <3>4, StoryTold DEF Entered, Milestones
    <2> QED BY <1>3, <2>2, <2>3
  <1> QED BY <1>2, <1>3 DEF WatchPause

LEMMA PauseRecorded ==
  ASSUME Control, Story, pc = "release", NEW paused \in BOOLEAN
  PROVE  LET t == RecordPause(paused)
         IN /\ Good(t, b.start, b.target)
            /\ Kinds(trace) \subseteq Kinds(t) /\ Kinds(t) \subseteq Kinds(trace) \cup {"pause.configured"}
            /\ cfg.sink => "pause.configured" \in Kinds(t)
            /\ ~cfg.sink => t = <<>>
  <1>1. CASE r.recorded
    <2>1. RecordPause(paused) = trace
      BY <1>1 DEF RecordPause
    <2> QED BY <1>1, <2>1 DEF Story, Tells
  <1>2. CASE ~r.recorded
    <2>1. RecordPause(paused) = With(trace, PauseConfigured(paused))
      BY <1>2 DEF RecordPause
    <2>2. PICK rec \in Records : rec = PauseConfigured(paused) /\ rec.event = "pause.configured"
      BY MilestoneRecords
    <2>3. Before(rec.event) = {"speed.configured"}
      BY <2>2 DEF Before, BenchmarkEvents, Terminals
    <2>4. r.speed
      BY DEF Control, WayIn
    <2>5. cfg.sink => Before(rec.event) \subseteq Kinds(trace)
      BY <2>3, <2>4 DEF Story, Tells
    <2>6. Good(trace, b.start, b.target) /\ (~cfg.sink => trace = <<>>) /\ rec.event \in Milestones
      BY <2>2 DEF Story, Milestones
    <2>7. /\ Good(With(trace, rec), b.start, b.target)
          /\ Kinds(trace) \subseteq Kinds(With(trace, rec)) /\ Kinds(With(trace, rec)) \subseteq Kinds(trace) \cup {rec.event}
          /\ cfg.sink => rec.event \in Kinds(With(trace, rec))
          /\ ~cfg.sink => With(trace, rec) = trace
      BY <2>5, <2>6, MilestoneSent
    <2> QED BY <2>1, <2>2, <2>6, <2>7
  <1> QED BY <1>1, <1>2

LEMMA ReleaseStory == Control /\ Story /\ Release => Story'
  <1> SUFFICES ASSUME Control, Story, Release PROVE Story'
    OBVIOUS
  <1>1. r \in LauncherFields /\ UNCHANGED <<cfg, b>> /\ pc = "release" /\ pc' \in {"idle", "begin"}
    BY DEF Control, Fields, Release, Kept, Released, GiveUp, Goto
  <1>2. CASE UNCHANGED trace /\ r' = [r EXCEPT !.popups = FALSE]
    <2>1. /\ r'.selected = r.selected /\ r'.play = r.play /\ r'.speed = r.speed /\ r'.recorded = r.recorded
          /\ r'.started = r.started /\ r'.terminal = r.terminal
      BY <1>1, <1>2 DEF LauncherFields
    <2> QED BY <1>1, <1>2, <2>1, StoryKept DEF Entered
  <1>3. ASSUME NEW u, trace' = u, Good(u, b.start, b.target), Kinds(trace) \subseteq Kinds(u),
               Kinds(u) \subseteq Kinds(trace) \cup Milestones,
               cfg.sink => "pause.configured" \in Kinds(u), ~cfg.sink => u = <<>>,
               \/ r' = [r EXCEPT !.recorded = TRUE]
               \/ \E m, p : r' = [r EXCEPT !.recorded = TRUE, !.monitoring = m, !.popups = p]
        PROVE  Story'
    <2>1. /\ r'.selected = r.selected /\ r'.play = r.play /\ r'.speed = r.speed
          /\ r'.started = r.started /\ r'.terminal = r.terminal
      BY <1>1, <1>3 DEF LauncherFields
    <2>3. Tells(Kinds(trace), r, pc, cfg.sink) /\ pc # "invalid" /\ pc' # "invalid" /\ pc' \notin Entered
      BY <1>1 DEF Story, Entered
    <2>2. Tells(Kinds(u), r', pc', cfg.sink)
      BY <1>3, <2>1, <2>3, TellsMore
    <2> QED BY <1>1, <1>3, <2>2 DEF Story
  <1>4. CASE r' = [r EXCEPT !.recorded = TRUE] /\ trace' = RecordPause(TRUE)
    <2>1. PICK t : t = RecordPause(TRUE)
      OBVIOUS
    <2>2. /\ Good(t, b.start, b.target)
          /\ Kinds(trace) \subseteq Kinds(t) /\ Kinds(t) \subseteq Kinds(trace) \cup Milestones
          /\ cfg.sink => "pause.configured" \in Kinds(t)
          /\ ~cfg.sink => t = <<>>
      BY <1>1, <2>1, PauseRecorded DEF Milestones
    <2> QED BY <1>3, <1>4, <2>1, <2>2
  <1>5. CASE Released(RecordPause(FALSE))
    <2>1. PICK t : t = RecordPause(FALSE)
      OBVIOUS
    <2>2. /\ Good(t, b.start, b.target)
          /\ Kinds(trace) \subseteq Kinds(t) /\ Kinds(t) \subseteq Kinds(trace) \cup {"pause.configured"}
          /\ cfg.sink => "pause.configured" \in Kinds(t)
          /\ ~cfg.sink => t = <<>>
      BY <1>1, <2>1, PauseRecorded
    <2>3. /\ \E m, p : r' = [r EXCEPT !.recorded = TRUE, !.monitoring = m, !.popups = p]
          /\ trace' = IF ObserverValid THEN With(t, Rec("observer.configured")) ELSE t
      BY <1>5, <2>1 DEF Released
    <2>4. CASE trace' = t
      BY <1>3, <2>2, <2>3, <2>4 DEF Milestones
    <2>5. CASE trace' = With(t, Rec("observer.configured"))
      <3>1. PICK rec \in Records : rec.event = "observer.configured" /\ trace' = With(t, rec)
        BY <2>5, MilestoneRecords DEF Milestones
      <3>2. Before(rec.event) = {"pause.configured"}
        BY <3>1 DEF Before, BenchmarkEvents, Terminals
      <3>3. (rec.event \in Kinds(trace) <=> rec.event \in Kinds(t)) /\ rec.event \in Milestones
        BY <2>2, <3>1 DEF Milestones
      <3>4. PICK u : u = With(t, rec)
        OBVIOUS
      <3>5. /\ Good(u, b.start, b.target)
            /\ Kinds(t) \subseteq Kinds(u) /\ Kinds(u) \subseteq Kinds(t) \cup {rec.event}
            /\ ~cfg.sink => u = t
        BY <2>2, <3>2, <3>3, <3>4, MilestoneSent
      <3>6. trace' = u /\ Kinds(trace) \subseteq Kinds(u) /\ Kinds(u) \subseteq Kinds(trace) \cup Milestones
            /\ (cfg.sink => "pause.configured" \in Kinds(u)) /\ (~cfg.sink => u = <<>>)
        BY <2>2, <3>1, <3>3, <3>4, <3>5 DEF Milestones
      <3> QED BY <1>3, <2>3, <3>5, <3>6
    <2> QED BY <2>3, <2>4, <2>5
  <1> QED BY <1>2, <1>4, <1>5 DEF Release

-----------------------------------------------------------------------------
(* The start and the end of a benchmark.                                   *)

LEMMA EventBefore ==
  /\ \A event \in BenchmarkEvents : Before(event) = {"campaign.save_load_completed"}
  /\ \A event \in Terminals : Kind(event) = "terminal"
  /\ Kind("benchmark.started") = "benchmark.started" /\ Kind("benchmark.resources") = "benchmark.resources"
  BY DEF Before, BenchmarkEvents, Terminals, Kind

LEMMA ResourcesRecord ==
  ASSUME NEW actual \in Maybe(Int)
  PROVE  /\ Resources(actual) \in Records /\ Resources(actual).event = "benchmark.resources"
         /\ Resources(actual).date = actual
  <1>1. Rec("benchmark.resources") \in Records
    BY MilestoneRecords DEF BenchmarkEvents
  <1>2. Resources(actual) \in Records
    BY <1>1 DEF Resources, Records
  <1> QED BY <1>1, <1>2 DEF Resources, Records, Rec

LEMMA StartedRecord ==
  ASSUME NEW start \in Int, NEW target \in Int
  PROVE  LET rec == BenchmarkStarted(start, target)
         IN /\ rec \in Records /\ rec.event = "benchmark.started"
            /\ rec.date = start /\ rec.start = start /\ rec.target = target
            /\ rec.days = (target - start) \div Day
  <1> DEFINE blank == Rec("benchmark.started")
             rec == BenchmarkStarted(start, target)
  <1>1. blank \in Records /\ blank.event = "benchmark.started"
    BY MilestoneRecords DEF BenchmarkEvents
  <1>2. PICK days \in Int : days = (target - start) \div Day
    BY DayAssumption
  <1>3. start \in Maybe(Int) /\ target \in Maybe(Int) /\ days \in Maybe(Int)
    BY Basics
  <1>4. rec = [blank EXCEPT !.date = start, !.start = start, !.target = target, !.days = days]
    BY <1>2 DEF BenchmarkStarted
  <1> HIDE DEF rec, blank
  <1>5. rec \in Records
    BY <1>1, <1>3, <1>4 DEF Records
  <1>6. rec.event = "benchmark.started" /\ rec.date = start /\ rec.start = start /\ rec.target = target
        /\ rec.days = days
    BY <1>1, <1>4 DEF Records
  <1> QED BY <1>2, <1>5, <1>6 DEF rec

LEMMA CompletedRecord ==
  ASSUME NEW actual \in Maybe(Int), b.start \in Int, b.target \in Int
  PROVE  LET rec == Completed(actual)
         IN /\ rec \in Records /\ rec.event = "benchmark.completed"
            /\ rec.date = actual /\ rec.actual = actual /\ rec.paused = TRUE
            /\ rec.start = b.start /\ rec.target = b.target /\ rec.reason = None
            /\ rec.days = (b.target - b.start) \div Day
  <1> DEFINE blank == Rec("benchmark.completed")
             rec == Completed(actual)
  <1>1. blank \in Records /\ blank.event = "benchmark.completed" /\ blank.reason = None
    BY MilestoneRecords DEF BenchmarkEvents, Terminals, Rec
  <1>2. PICK days \in Int : days = (b.target - b.start) \div Day
    BY DayAssumption
  <1>3. b.start \in Maybe(Int) /\ b.target \in Maybe(Int) /\ days \in Maybe(Int) /\ TRUE \in Maybe(BOOLEAN)
    BY Basics
  <1>4. rec = [blank EXCEPT !.date = actual, !.actual = actual, !.paused = TRUE,
                            !.start = b.start, !.target = b.target, !.days = days]
    BY <1>2 DEF Completed
  <1> HIDE DEF rec, blank
  <1>5. rec \in Records
    BY <1>1, <1>3, <1>4 DEF Records
  <1>6. rec.event = "benchmark.completed" /\ rec.date = actual /\ rec.actual = actual /\ rec.paused = TRUE
        /\ rec.start = b.start /\ rec.target = b.target /\ rec.days = days /\ rec.reason = None
    BY <1>1, <1>4 DEF Records
  <1> QED BY <1>2, <1>5, <1>6 DEF rec

LEMMA FailedRecord ==
  ASSUME NEW start \in Maybe(Int), NEW target \in Maybe(Int), NEW actual \in Maybe(Int),
         NEW reason \in FailureReasons, NEW paused \in Maybe(BOOLEAN), late \in BOOLEAN
  PROVE  LET rec == Failed(start, target, actual, reason, paused)
         IN /\ rec \in Records /\ rec.event = "benchmark.failed"
            /\ rec.date = actual /\ rec.actual = actual /\ rec.paused = paused
            /\ rec.start = start /\ rec.target = target /\ rec.reason = reason /\ rec.late = late
  <1> DEFINE blank == Rec("benchmark.failed")
             rec == Failed(start, target, actual, reason, paused)
  <1>1. blank \in Records /\ blank.event = "benchmark.failed"
    BY MilestoneRecords DEF BenchmarkEvents, Terminals
  <1>3. reason \in Maybe(FailureReasons) /\ late \in Maybe(BOOLEAN)
    BY Basics
  <1>4. rec = [blank EXCEPT !.date = actual, !.actual = actual, !.paused = paused,
                            !.start = start, !.target = target, !.reason = reason, !.late = late]
    BY DEF Failed
  <1> HIDE DEF rec, blank
  <1>5. rec \in Records
    BY <1>1, <1>3, <1>4 DEF Records
  <1>6. rec.event = "benchmark.failed" /\ rec.date = actual /\ rec.actual = actual /\ rec.paused = paused
        /\ rec.start = start /\ rec.target = target /\ rec.reason = reason /\ rec.late = late
    BY <1>1, <1>4 DEF Records
  <1> QED BY <1>5, <1>6 DEF rec

LEMMA UndatedIsTerminal ==
  ASSUME NEW t, NEW s, NEW g, Good(t, s, g), "terminal" \notin Kinds(t)
  PROVE  ReadTo(t, s, g)
  <1>1. ASSUME NEW i \in DOMAIN t, Undated(t[i]) PROVE FALSE
    <2>1. Kind(t[i].event) = "terminal"
      BY <1>1 DEF Undated, Kind, Terminals
    <2> QED BY <2>1 DEF Kinds
  <1> QED BY <1>1 DEF Good, SomeUndated

\* The terminal record of a benchmark in hand, after the resources or not.
LEMMA TerminalAppended ==
  ASSUME NEW t, NEW start, NEW target, NEW actual \in Maybe(Int), NEW rec \in Records,
         Good(t, start, target), "terminal" \notin Kinds(t), "benchmark.resources" \notin Kinds(t),
         "benchmark.started" \in Kinds(t), "campaign.save_load_completed" \in Kinds(t),
         rec.event \in Terminals, rec.start = start, rec.target = target, rec.date = actual,
         rec.reason # "invalid_target", rec.reason = "timeout" => rec.late,
         BenchmarkSchema(rec) \/ Undated(rec)
  PROVE  /\ Good(Append(t, rec), start, target)
         /\ Kinds(Append(t, rec)) = Kinds(t) \cup {"terminal"}
         /\ LET t1 == Append(t, Resources(actual))
            IN /\ Good(Append(t1, rec), start, target)
               /\ Kinds(Append(t1, rec)) = Kinds(t) \cup {"benchmark.resources", "terminal"}
  <1> DEFINE t1 == Append(t, Resources(actual))
  <1>1. /\ Resources(actual) \in Records /\ Resources(actual).event = "benchmark.resources"
        /\ Resources(actual).date = actual
    BY ResourcesRecord
  <1>2. /\ Before(rec.event) = {"campaign.save_load_completed"} /\ Kind(rec.event) = "terminal"
        /\ Before("benchmark.resources") = {"campaign.save_load_completed"}
        /\ Kind("benchmark.resources") = "benchmark.resources"
        /\ rec.event # "benchmark.started"
    BY EventBefore DEF BenchmarkEvents, Terminals
  <1>3. t \in Seq(Records) /\ ReadTo(t, start, target)
    BY UndatedIsTerminal DEF Good
  <1>4. /\ Reader(t) \in Readers /\ Reader(t).started /\ ~Reader(t).resources /\ ~Reader(t).terminal
        /\ Reader(t).start = start /\ Reader(t).target = target
    BY <1>3 DEF ReadTo
  <1>5. /\ Good(t1, start, target) /\ t1 \in Seq(Records)
        /\ Kinds(t1) = Kinds(t) \cup {"benchmark.resources"}
    <2>1. BenchmarkSchema(Resources(actual)) /\ InOrder(Reader(t), Resources(actual))
      BY <1>1, <1>4 DEF BenchmarkSchema, InOrder, ResourcesInOrder, Terminals
    <2>2. Good(t1, start, target)
      BY <1>1, <1>2, <2>1, GoodAppended
    <2> QED BY <1>1, <1>2, <1>3, <2>2, KindsAppended DEF Good
  <1>6. Reader(t1).resourcesDate = actual /\ Reader(t1).started /\ ~Reader(t1).terminal
        /\ Reader(t1).start = start /\ Reader(t1).target = target
    <2>1. Reader(t1) = AfterRecord(Reader(t), Resources(actual))
      BY <1>1, <1>3, ReaderAppended
    <2>2. Reader(t1) = [Reader(t) EXCEPT !.resources = TRUE, !.resourcesDate = actual]
      BY <1>1, <2>1 DEF AfterRecord, Terminals
    <2> QED BY <1>4, <2>2 DEF Readers
  <1> HIDE DEF t1
  <1>7. InOrder(Reader(t), rec) /\ InOrder(Reader(t1), rec)
    <2>1. TerminalInOrder(Reader(t), rec)
      BY <1>4 DEF TerminalInOrder
    <2>2. TerminalInOrder(Reader(t1), rec)
      BY <1>6 DEF TerminalInOrder
    <2> QED BY <2>1, <2>2 DEF InOrder, Terminals
  <1>8. Good(Append(t, rec), start, target) /\ Kinds(Append(t, rec)) = Kinds(t) \cup {"terminal"}
    <2>1. Good(Append(t, rec), start, target)
      BY <1>2, <1>7, GoodAppended
    <2> QED BY <1>2, <1>3, <2>1, KindsAppended
  <1>9. /\ Good(Append(t1, rec), start, target)
        /\ Kinds(Append(t1, rec)) = Kinds(t) \cup {"benchmark.resources", "terminal"}
    <2>1. "terminal" \notin Kinds(t1) /\ {"campaign.save_load_completed"} \subseteq Kinds(t1) \ {"terminal"}
      BY <1>5
    <2>2. Good(Append(t1, rec), start, target)
      BY <1>2, <1>5, <1>7, <2>1, GoodAppended
    <2> QED BY <1>2, <1>5, <2>2, KindsAppended
  <1> QED BY <1>8, <1>9 DEF t1

LEMMA TellsEnded ==
  ASSUME NEW K, NEW L, NEW l, NEW m, NEW p, NEW q, NEW sink, Tells(K, l, p, sink),
         K \subseteq L, L \subseteq K \cup {"benchmark.resources", "terminal"}, "terminal" \in L \/ ~sink,
         "benchmark.resources" \in L => "terminal" \in L,
         m.selected = l.selected, m.play = l.play, m.speed = l.speed, m.recorded = l.recorded,
         m.started = l.started, m.terminal, q \in {"idle", "quit"}
  PROVE  Tells(L, m, q, sink)
  BY DEF Tells, Entered

FinalRecord(reason, actual, paused) ==
  IF reason = None THEN Completed(actual) ELSE Failed(b.start, b.target, actual, reason, paused)

LEMMA FinishStory ==
  ASSUME Control, Story, NEW reason \in Maybe(FailureReasons \ {"invalid_target"}), NEW actual \in Maybe(Int),
         NEW paused \in Maybe(BOOLEAN), Finish(reason, actual, paused),
         cfg' = cfg, b'.start = b.start, b'.target = b.target,
         r.started, r.play, ~r.terminal, reason = "timeout" => late,
         LET rec == FinalRecord(reason, actual, paused) IN BenchmarkSchema(rec) \/ Undated(rec)
  PROVE  Story'
  <1> DEFINE rec == FinalRecord(reason, actual, paused)
  <1>1. /\ r'.terminal /\ r'.play = r.play /\ r'.recorded = r.recorded /\ r'.started = r.started
        /\ r'.selected = r.selected /\ r'.speed = r.speed /\ pc' \in {"idle", "quit"}
    BY Finishes
  <1>2. b.start \in Int /\ b.target \in Int /\ late \in BOOLEAN
    BY DEF Control, InBenchmark, Fields
  <1>3. /\ rec \in Records /\ rec.event \in Terminals /\ rec.start = b.start /\ rec.target = b.target
        /\ rec.date = actual /\ rec.reason = reason
        /\ rec.reason = "timeout" => rec.late
    <2>1. CASE reason = None
      <3>1. reason # "timeout"
        BY <2>1, RunnerAssumption DEF Verdicts, FailureReasons
      <3> QED BY <1>2, <2>1, <3>1, CompletedRecord DEF FinalRecord, Terminals
    <2>2. CASE reason # None
      <3>1. reason \in FailureReasons
        BY <2>2, Basics
      <3>2. b.start \in Maybe(Int) /\ b.target \in Maybe(Int)
        BY <1>2, Basics
      <3> QED BY <1>2, <2>2, <3>1, <3>2, FailedRecord DEF FinalRecord, Terminals
    <2> QED BY <2>1, <2>2
  <1>4. rec.reason # "invalid_target"
    <2>1. None # "invalid_target"
      BY RunnerAssumption DEF Verdicts, FailureReasons
    <2> QED BY <1>3, <2>1, Basics DEF Maybe
  <1>5. PICK sampled \in BOOLEAN :
          trace' = With(IF sampled THEN With(trace, Resources(actual)) ELSE trace, rec)
    BY DEF Finish, FinalRecord
  <1>6. BenchmarkSchema(rec) \/ Undated(rec)
    OBVIOUS
  <1> HIDE DEF rec
  <1>7. CASE ~cfg.sink
    <2>1. \A t, record : With(t, record) = t
      BY <1>7 DEF With
    <2>2. trace' = trace
      BY <1>5, <2>1
    <2>3. Kinds(trace) = {}
      BY <1>7, NothingRead DEF Story
    <2>4. Tells(Kinds(trace), r', pc', cfg.sink)
      BY <1>1, <1>7, <2>3, TellsEnded DEF Story
    <2> QED BY <1>7, <2>2, <2>4 DEF Story
  <1>8. CASE cfg.sink
    <2>1. /\ Good(trace, b.start, b.target) /\ "terminal" \notin Kinds(trace)
          /\ "benchmark.resources" \notin Kinds(trace)
          /\ "benchmark.started" \in Kinds(trace) /\ "campaign.save_load_completed" \in Kinds(trace)
      BY <1>8 DEF Story, Tells
    <2>2. Kind(rec.event) = "terminal" /\ Kind(Resources(actual).event) = "benchmark.resources"
      BY <1>3, EventBefore, ResourcesRecord
    <2>3. /\ \A t : With(t, rec) = Append(t, rec)
          /\ With(trace, Resources(actual)) = Append(trace, Resources(actual))
      BY <1>8, <2>1, <2>2, WithIs
    <2>4. /\ Good(trace', b.start, b.target)
          /\ Kinds(trace') = Kinds(trace) \cup {"terminal"}
             \/ Kinds(trace') = Kinds(trace) \cup {"benchmark.resources", "terminal"}
      <3>1. /\ Good(Append(trace, rec), b.start, b.target)
            /\ Kinds(Append(trace, rec)) = Kinds(trace) \cup {"terminal"}
            /\ Good(Append(Append(trace, Resources(actual)), rec), b.start, b.target)
            /\ Kinds(Append(Append(trace, Resources(actual)), rec)) =
                 Kinds(trace) \cup {"benchmark.resources", "terminal"}
        BY <1>3, <1>4, <1>6, <2>1, TerminalAppended
      <3>2. trace' = Append(trace, rec) \/ trace' = Append(Append(trace, Resources(actual)), rec)
        BY <1>5, <2>3
      <3> QED BY <3>1, <3>2
    <2>5. Tells(Kinds(trace'), r', pc', cfg.sink)
      BY <1>1, <2>4, TellsEnded DEF Story
    <2> QED BY <1>8, <2>4, <2>5 DEF Story
  <1> QED BY <1>7, <1>8

LEMMA FailedFits ==
  ASSUME Control, r.started, NEW reason \in FailureReasons \ {"invalid_target"},
         NEW actual \in Maybe(Int), NEW paused \in Maybe(BOOLEAN),
         CASE reason = "date_overshoot"    -> actual # None /\ actual > b.target /\ paused = TRUE
           [] reason = "idler_unavailable" -> actual = None /\ paused = None
           [] reason = "pause_failed"      -> actual # None /\ paused # TRUE
           [] reason = "timer_unavailable" -> actual # None
           [] OTHER                        -> actual # None /\ paused = TRUE
  PROVE  BenchmarkSchema(FinalRecord(reason, actual, paused))
  <1> DEFINE rec == FinalRecord(reason, actual, paused)
  <1>1. /\ b.start \in Maybe(Int) /\ b.target \in Maybe(Int) /\ late \in BOOLEAN
        /\ Reachable(b.start, b.target)
    BY Basics DEF Control, InBenchmark, Fields
  <1>2. reason # None
    BY RunnerAssumption DEF Verdicts
  <1>3. /\ rec.event = "benchmark.failed" /\ rec.date = actual /\ rec.actual = actual /\ rec.paused = paused
        /\ rec.start = b.start /\ rec.target = b.target /\ rec.reason = reason
    BY <1>1, <1>2, FailedRecord DEF FinalRecord
  <1> HIDE DEF rec
  <1>4. ReasonSchema(rec)
    BY <1>3 DEF ReasonSchema
  <1>5. FailedSchema(rec)
    BY <1>1, <1>3, <1>4 DEF FailedSchema
  <1>6. BenchmarkSchema(rec)
    BY <1>3, <1>5 DEF BenchmarkSchema
  <1> QED BY <1>6 DEF rec

LEMMA CompletedFits ==
  ASSUME Control, r.started, NEW paused
  PROVE  BenchmarkSchema(FinalRecord(None, b.target, paused))
  <1> DEFINE rec == Completed(b.target)
  <1>1. /\ b.start \in Int /\ b.target \in Int /\ b.target \in Maybe(Int) /\ Reachable(b.start, b.target)
        /\ b.target # None
    BY Basics, RunnerAssumption DEF Control, InBenchmark
  <1>2. /\ rec.event = "benchmark.completed"
        /\ rec.date = b.target /\ rec.actual = b.target /\ rec.paused = TRUE
        /\ rec.start = b.start /\ rec.target = b.target
        /\ rec.days = (b.target - b.start) \div Day
    BY <1>1, CompletedRecord
  <1> HIDE DEF rec
  <1>3. CompletedSchema(rec)
    BY <1>1, <1>2 DEF CompletedSchema
  <1>4. BenchmarkSchema(rec)
    BY <1>2, <1>3 DEF BenchmarkSchema
  <1> QED BY <1>4 DEF rec, FinalRecord

LEMMA ReadUnavailableStory == Control /\ Story /\ ReadUnavailable => Story'
  <1> SUFFICES ASSUME Control, Story, ReadUnavailable PROVE Story'
    OBVIOUS
  <1>1. /\ r \in LauncherFields /\ b \in ControllerFields /\ cfg' = cfg /\ pc = "read"
        /\ r.play /\ ~r.terminal /\ (b.active => r.started)
    BY DEF Control, Fields, WayIn, Ended, InBenchmark, ReadUnavailable, Kept
  <1>2. CASE b.active
    <2>1. Finish("idler_unavailable", None, None) /\ b' = [b EXCEPT !.active = FALSE]
      BY <1>2 DEF ReadUnavailable
    <2>2. b'.start = b.start /\ b'.target = b.target
      BY <1>1, <2>1 DEF ControllerFields
    <2>3. /\ "idler_unavailable" \in FailureReasons \ {"invalid_target"}
          /\ "idler_unavailable" \in Maybe(FailureReasons \ {"invalid_target"})
          /\ None \in Maybe(Int) /\ None \in Maybe(BOOLEAN)
      BY Basics DEF FailureReasons
    <2>4. BenchmarkSchema(FinalRecord("idler_unavailable", None, None))
      BY <1>1, <1>2, <2>3, FailedFits
    <2> QED BY <1>1, <1>2, <2>1, <2>2, <2>3, <2>4, FinishStory
  <1>3. CASE ~b.active
    <2>1. UNCHANGED <<b, trace>> /\ pc' = "idle"
      BY <1>3 DEF ReadUnavailable, Rearm, Goto
    <2>2. /\ r'.selected = r.selected /\ r'.play = r.play /\ r'.speed = r.speed /\ r'.recorded = r.recorded
          /\ r'.started = r.started /\ r'.terminal = r.terminal
      <3>1. \/ r' = [r EXCEPT !.monitoring = FALSE, !.popups = FALSE]
            \/ \E n : r' = [r EXCEPT !.campTries = n]
        BY <1>3 DEF ReadUnavailable
      <3> QED BY <1>1, <3>1 DEF LauncherFields
    <2> QED BY <1>1, <2>1, <2>2, StoryKept DEF Entered
  <1> QED BY <1>2, <1>3

LEMMA TickBenchmarkStory == Control /\ Story /\ TickBenchmark => Story'
  <1> SUFFICES ASSUME Control, Story, TickBenchmark PROVE Story'
    OBVIOUS
  <1> DEFINE valid == pc = "gameover" \/ ~cfg.observe \/ ObserverValid
             there == seen.date = b.target
  <1>1. /\ r \in LauncherFields /\ b \in ControllerFields /\ cfg' = cfg /\ pc \in {"bench", "gameover"}
        /\ r.play /\ ~r.terminal /\ r.started /\ seen \in Snapshots
        /\ (pc = "gameover" => seen.over)
    BY DEF Control, Fields, WayIn, Ended, InBenchmark, TickBenchmark, Kept, Unread
  <1>2. b'.start = b.start /\ b'.target = b.target
    <2> HIDE DEF valid
    <2>1. \/ \E v : b' = [b EXCEPT !.active = FALSE, !.verdict = v]
          \/ \E d, h : b' = [b EXCEPT !.prev = d, !.held = h]
      BY DEF TickBenchmark
    <2> QED BY <1>1, <2>1 DEF ControllerFields
  <1>3. CASE Verdict(valid) # None
    <2>1. UNCHANGED <<r, trace>> /\ pc' = "stop"
      BY <1>3 DEF TickBenchmark, Goto
    <2> QED BY <1>1, <1>2, <2>1, StoryKept DEF Entered
  <1>4. CASE Verdict(valid) = None
    <2>1. pc = "bench"
      <3>1. pc = "gameover" => Verdict(valid) = "game_over"
        BY <1>1 DEF Verdict
      <3>2. None # "game_over"
        BY RunnerAssumption DEF Verdicts, FailureReasons
      <3> QED BY <1>1, <1>4, <3>1, <3>2
    <2>2. CASE Goto(IF there THEN "idle" ELSE AfterBench) /\ UNCHANGED <<r, trace>>
      <3>1. pc' \in {"idle", "watch", "configure", "speed"}
        BY <2>2 DEF Goto, AfterBench
      <3> QED BY <1>1, <1>2, <2>1, <2>2, <3>1, StoryKept DEF Entered
    <2>3. CASE Finish("pause_failed", seen.date, None)
      <3>1. /\ "pause_failed" \in FailureReasons \ {"invalid_target"}
            /\ "pause_failed" \in Maybe(FailureReasons \ {"invalid_target"})
            /\ None \in Maybe(BOOLEAN) /\ None # TRUE
        BY Basics, RunnerAssumption DEF FailureReasons
      <3>2. seen.date \in Maybe(Int) /\ seen.date # None
        BY <1>1, Basics, RunnerAssumption DEF Snapshots
      <3>3. BenchmarkSchema(FinalRecord("pause_failed", seen.date, None))
        BY <1>1, <3>1, <3>2, FailedFits
      <3> QED BY <1>1, <1>2, <2>3, <3>1, <3>2, <3>3, FinishStory
    <2> QED BY <1>4, <2>2, <2>3 DEF TickBenchmark
  <1> QED BY <1>3, <1>4

LEMMA StopBenchmarkStory == Control /\ Story /\ StopBenchmark => Story'
  <1> SUFFICES ASSUME Control, Story, StopBenchmark PROVE Story'
    OBVIOUS
  <1>1. /\ UNCHANGED <<cfg, b>> /\ pc = "stop" /\ r.play /\ ~r.terminal /\ r.started
        /\ seen \in Snapshots /\ game \in GameFields
        /\ b.verdict \in Decisions /\ (b.verdict = "date_overshoot" => seen.date > b.target)
        /\ (b.verdict = "timeout" => late) /\ seen.date <= game.date /\ b.target \in Int
    BY DEF Control, Fields, WayIn, Ended, InBenchmark, StopBenchmark, Kept, Unread
  <1>2. /\ seen.date \in Int /\ game.date \in Int
        /\ seen.date \in Maybe(Int) /\ game.date \in Maybe(Int) /\ seen.date # None /\ game.date # None
    BY <1>1, Basics, GameFacts, RunnerAssumption DEF Snapshots
  <1>3. /\ TRUE \in Maybe(BOOLEAN) /\ FALSE \in Maybe(BOOLEAN) /\ None \in Maybe(BOOLEAN)
        /\ None # TRUE /\ FALSE # TRUE
        /\ \A reason \in FailureReasons \ {"invalid_target"} : reason \in Maybe(FailureReasons \ {"invalid_target"})
        /\ None \in Maybe(FailureReasons \ {"invalid_target"})
    BY Basics, RunnerAssumption
  <1>4. ASSUME NEW reason \in FailureReasons \ {"invalid_target"}, NEW actual \in Maybe(Int),
               NEW paused \in Maybe(BOOLEAN), BenchmarkSchema(FinalRecord(reason, actual, paused)),
               Finish(reason, actual, paused), reason = "timeout" => late
        PROVE  Story'
    BY <1>1, <1>3, <1>4, FinishStory
  <1>5. CASE \E ok \in {TRUE, InCampaign} :
               Finish("pause_failed", IF ok THEN game.date ELSE seen.date, IF ok THEN FALSE ELSE None)
    <2>1. PICK actual \in Maybe(Int), paused \in Maybe(BOOLEAN) :
            actual # None /\ paused # TRUE /\ Finish("pause_failed", actual, paused)
      BY <1>2, <1>3, <1>5
    <2>2. "pause_failed" \in FailureReasons \ {"invalid_target"}
      BY DEF FailureReasons
    <2>3. BenchmarkSchema(FinalRecord("pause_failed", actual, paused))
      BY <1>1, <2>1, <2>2, FailedFits
    <2> QED BY <1>4, <2>1, <2>2, <2>3
  <1>6. CASE b.verdict # "complete" /\ Finish(b.verdict, game.date, TRUE)
    <2>1. b.verdict \in FailureReasons \ {"invalid_target"}
          /\ b.verdict \notin {"idler_unavailable", "pause_failed", "timer_unavailable"}
      BY <1>1, <1>6 DEF Decisions, FailureReasons
    <2>2. b.verdict = "date_overshoot" => game.date > b.target
      BY <1>1, <1>2
    <2>3. BenchmarkSchema(FinalRecord(b.verdict, game.date, TRUE))
      BY <1>1, <1>2, <1>3, <2>1, <2>2, FailedFits
    <2> QED BY <1>1, <1>2, <1>3, <1>4, <1>6, <2>1, <2>3
  <1>7. CASE game.date = b.target /\ Finish(None, game.date, TRUE)
    <2>1. BenchmarkSchema(FinalRecord(None, game.date, TRUE))
      BY <1>1, <1>7, CompletedFits
    <2>2. None # "timeout"
      BY RunnerAssumption DEF Verdicts, FailureReasons
    <2> QED BY <1>1, <1>2, <1>3, <1>7, <2>1, <2>2, FinishStory
  <1>8. CASE game.date < b.target /\ Finish("date_regressed", game.date, TRUE)
    <2>1. "date_regressed" \in FailureReasons \ {"invalid_target"}
      BY DEF FailureReasons
    <2>2. BenchmarkSchema(FinalRecord("date_regressed", game.date, TRUE))
      BY <1>1, <1>2, <1>3, <2>1, FailedFits
    <2> QED BY <1>2, <1>3, <1>4, <1>8, <2>1, <2>2
  <1>9. CASE game.date > b.target /\ Finish("date_overshoot", game.date, TRUE)
    <2>1. "date_overshoot" \in FailureReasons \ {"invalid_target"}
      BY DEF FailureReasons
    <2>2. BenchmarkSchema(FinalRecord("date_overshoot", game.date, TRUE))
      BY <1>1, <1>2, <1>3, <1>9, <2>1, FailedFits
    <2> QED BY <1>2, <1>3, <1>4, <1>9, <2>1, <2>2
  <1>10. game.date = b.target \/ game.date < b.target \/ game.date > b.target
    BY <1>1, <1>2
  <1>11. game.date < b.target => game.date # b.target
    BY <1>1, <1>2
  <1> QED BY <1>5, <1>6, <1>7, <1>8, <1>9, <1>10, <1>11 DEF StopBenchmark

LEMMA TimerUnavailableStory == Control /\ Story /\ TimerUnavailable => Story'
  <1> SUFFICES ASSUME Control, Story, TimerUnavailable PROVE Story'
    OBVIOUS
  <1>1. UNCHANGED <<cfg, b>> /\ pc = "untimed" /\ r.play /\ ~r.terminal /\ r.started
        /\ b.start \in Maybe(Int) /\ b.target \in Maybe(Int) /\ late \in BOOLEAN
    BY Basics DEF Control, Fields, WayIn, Ended, InBenchmark, TimerUnavailable, Kept
  <1>2. game.date \in Maybe(Int) /\ game.date # None /\ None \in Maybe(Int)
        /\ TRUE \in Maybe(BOOLEAN) /\ None \in Maybe(BOOLEAN)
    BY Basics, GameFacts, RunnerAssumption
  <1>3. PICK actual \in Maybe(Int), paused \in Maybe(BOOLEAN) : Finish("timer_unavailable", actual, paused)
    BY <1>2 DEF TimerUnavailable
  <1>4. "timer_unavailable" \in FailureReasons \ {"invalid_target"}
        /\ "timer_unavailable" \in Maybe(FailureReasons \ {"invalid_target"})
    BY Basics DEF FailureReasons
  <1>5. CASE actual # None
    <2>1. BenchmarkSchema(FinalRecord("timer_unavailable", actual, paused))
      BY <1>1, <1>4, <1>5, FailedFits
    <2> QED BY <1>1, <1>3, <1>4, <2>1, FinishStory
  <1>6. CASE actual = None
    <2>1. "timer_unavailable" # None
      BY RunnerAssumption DEF Verdicts, FailureReasons
    <2>2. Undated(FinalRecord("timer_unavailable", actual, paused))
      BY <1>1, <1>4, <1>6, <2>1, FailedRecord DEF FinalRecord, Undated
    <2> QED BY <1>1, <1>3, <1>4, <2>2, FinishStory
  <1> QED BY <1>5, <1>6

LEMMA BeginBenchmarkStory == Control /\ Story /\ BeginBenchmark => Story'
  <1> SUFFICES ASSUME Control, Story, BeginBenchmark PROVE Story'
    OBVIOUS
  <1>1. /\ r \in LauncherFields /\ cfg' = cfg /\ pc \in {"begin", "gameover"} /\ pc \notin Unread
        /\ r.play /\ ~r.terminal /\ ~r.started /\ Bounded(cfg)
    BY DEF Control, Fields, WayIn, BeginBenchmark, StartsBenchmark, Kept, Unread
  <1>2. Target \in Int /\ seen.date \in Int
    BY <1>1, TargetIs
  <1>3. /\ "benchmark.started" \notin Kinds(trace) /\ "terminal" \notin Kinds(trace)
        /\ (cfg.sink => "campaign.save_load_completed" \in Kinds(trace))
    BY <1>1 DEF Story, Tells
  <1>4. CASE Reachable(seen.date, Target)
    <2>1. /\ b' = [NoController EXCEPT !.active = TRUE, !.start = seen.date, !.target = Target, !.prev = seen.date]
          /\ r' = [r EXCEPT !.started = TRUE]
          /\ trace' = With(trace, BenchmarkStarted(seen.date, Target))
      BY <1>4 DEF BeginBenchmark, Emit
    <2>2. pc' \in {"idle", "gameover", "untimed"}
      BY <1>1, <1>4 DEF BeginBenchmark, Goto
    <2>3. b'.start = seen.date /\ b'.target = Target
      BY <2>1 DEF NoController
    <2>4. /\ r'.selected = r.selected /\ r'.play = r.play /\ r'.speed = r.speed /\ r'.recorded = r.recorded
          /\ r'.started /\ r'.terminal = r.terminal
      BY <1>1, <2>1 DEF LauncherFields
    <2> DEFINE rec == BenchmarkStarted(seen.date, Target)
    <2>5. /\ rec \in Records /\ rec.event = "benchmark.started"
          /\ rec.date = seen.date /\ rec.start = seen.date /\ rec.target = Target
          /\ rec.days = (Target - seen.date) \div Day
      BY <1>2, StartedRecord
    <2> HIDE DEF rec
    <2>6. Kind(rec.event) = "benchmark.started" /\ Before(rec.event) = {"campaign.save_load_completed"}
      BY <2>5, EventBefore DEF BenchmarkEvents
    <2>7. CASE cfg.sink
      <3>1. trace' = Append(trace, rec)
        BY <1>3, <2>1, <2>6, <2>7, WithIs DEF rec
      <3>2. BenchmarkSchema(rec)
        BY <1>4, <2>5 DEF BenchmarkSchema, StartedSchema, Terminals
      <3>3. ASSUME ReadTo(trace, b.start, b.target) PROVE InOrder(Reader(trace), rec)
        <4>1. ~Reader(trace).started /\ ~Reader(trace).terminal
          BY <1>3, <3>3 DEF ReadTo
        <4> QED BY <2>5, <4>1 DEF InOrder, StartedInOrder, Terminals
      <3>4. Good(trace, b.start, b.target)
        BY DEF Story
      <3>5. Good(Append(trace, rec), seen.date, Target)
        BY <1>3, <2>5, <2>6, <2>7, <3>2, <3>3, <3>4, GoodAppended
      <3>6. Kinds(Append(trace, rec)) = Kinds(trace) \cup {"benchmark.started"}
        BY <2>5, <2>6, <3>4, KindsAppended DEF Good
      <3>7. Tells(Kinds(trace) \cup {"benchmark.started"}, r', pc', cfg.sink)
        BY <1>1, <1>3, <2>2, <2>4 DEF Story, Tells, Entered
      <3> QED BY <1>1, <2>3, <2>7, <3>1, <3>5, <3>6, <3>7 DEF Story
    <2>8. CASE ~cfg.sink
      <3>1. trace' = trace /\ trace = <<>>
        BY <2>1, <2>8 DEF With, Story
      <3>2. Good(<<>>, seen.date, Target) /\ Kinds(<<>>) = {}
        BY NothingRead
      <3>3. Tells({}, r', pc', cfg.sink)
        BY <2>8 DEF Tells
      <3> QED BY <1>1, <2>3, <2>8, <3>1, <3>2, <3>3 DEF Story
    <2> QED BY <2>7, <2>8
  <1>5. CASE ~Reachable(seen.date, Target)
    <2>1. /\ r' = [r EXCEPT !.terminal = TRUE, !.monitoring = FALSE, !.popups = FALSE]
          /\ pc' = "invalid" /\ UNCHANGED <<b, trace>>
      BY <1>5 DEF BeginBenchmark, Goto
    <2>2. /\ r'.selected = r.selected /\ r'.play = r.play /\ r'.speed = r.speed /\ r'.recorded = r.recorded
          /\ r'.started = r.started
      BY <1>1, <2>1 DEF LauncherFields
    <2>3. Tells(Kinds(trace), r', pc', cfg.sink)
      BY <1>1, <1>3, <2>1, <2>2 DEF Story, Tells, Entered
    <2> QED BY <1>1, <2>1, <2>3 DEF Story
  <1> QED BY <1>4, <1>5

\* A date on the day is a whole number of days from the start.
LEMMA WholeDays ==
  ASSUME NEW date \in Int, OnTheDay(date)
  PROVE  \E q \in Int : date - Start = Day * q
  <1>1. Day \in Nat \ {0} /\ Start \in Int
    BY DayAssumption, RunnerAssumption
  <1>2. PICK x \in Int : x = date - Start
    BY <1>1
  <1>3. PICK q \in Int, m \in 0 .. Day - 1 : m = x % Day /\ x = Day * q + m
    BY <1>1, ModIs
  <1>4. m = 0
    BY <1>2, <1>3 DEF OnTheDay
  <1>5. PICK z \in Int : z = Day * q
    BY <1>1
  <1>6. x = z
    BY <1>3, <1>4, <1>5
  <1>7. date - Start = Day * q
    BY <1>2, <1>5, <1>6
  <1> QED BY <1>7

\* Whole days on, an impossible target stays one.
LEMMA StaysUnreachable ==
  ASSUME NEW seenDate \in Int, NEW date \in Int, NEW target \in Int, OnTheDay(seenDate), OnTheDay(date),
         seenDate <= date, ~Reachable(seenDate, target)
  PROVE  ~Reachable(date, target)
  <1>1. Day \in Nat \ {0} /\ Start \in Int
    BY DayAssumption, RunnerAssumption
  <1>2. CASE target <= seenDate
    BY <1>2 DEF Reachable
  <1>3. CASE target > seenDate
    <2>1. (target - seenDate) % Day # 0
      BY <1>3 DEF Reachable
    <2>2. PICK q \in Int : date - Start = Day * q
      BY WholeDays
    <2>3. PICK p \in Int : seenDate - Start = Day * p
      BY WholeDays
    <2>4. PICK y \in Int : y = target - date
      OBVIOUS
    <2>5. PICK k \in Int : k = q - p
      OBVIOUS
    <2>6. target - seenDate = y + k * Day
      <3>1. k * Day = Day * q - Day * p
        BY <1>1, <2>5
      <3>2. PICK i \in Int : i = Day * q
        BY <1>1
      <3>3. PICK j \in Int : j = Day * p
        BY <1>1
      <3>4. PICK n \in Int : n = k * Day
        BY <1>1
      <3>5. n = i - j /\ date - Start = i /\ seenDate - Start = j
        BY <2>2, <2>3, <3>1, <3>2, <3>3, <3>4
      <3>6. target - seenDate = y + n
        BY <1>1, <2>4, <3>5
      <3> QED BY <3>4, <3>6
    <2>7. (y + k * Day) % Day = y % Day
      BY <1>1, ModShift
    <2>8. (target - date) % Day # 0
      BY <2>1, <2>4, <2>6, <2>7
    <2> QED BY <2>8 DEF Reachable
  <1> QED BY <1>2, <1>3

LEMMA FinishInvalidBenchmarkStory == Control /\ Story /\ FinishInvalidBenchmark => Story'
  <1> SUFFICES ASSUME Control, Story, FinishInvalidBenchmark PROVE Story'
    OBVIOUS
  <1>1. /\ UNCHANGED <<cfg, b, r>> /\ pc = "invalid" /\ pc' = "idle" /\ pc \notin Unread
        /\ r.play /\ r.terminal /\ ~r.started /\ late \in BOOLEAN
        /\ ~Reachable(seen.date, Target) /\ Bounded(cfg)
        /\ (cfg.days = None \/ cfg.target = None) /\ cfg \in Launches
        /\ seen.date <= game.date /\ OnTheDay(seen.date) /\ OnTheDay(game.date)
    BY DEF Control, Fields, WayIn, Ended, InBenchmark, FinishInvalidBenchmark, Kept, Goto, Unread, ArgumentsAgree
  <1>2. Target \in Int /\ seen.date \in Int /\ game.date \in Int
    BY <1>1, TargetIs, GameFacts
  <1>3. PICK actual \in Int, paused \in Maybe(BOOLEAN) :
          /\ actual \in {seen.date, game.date}
          /\ trace' = With(trace, Failed(actual, IF cfg.target # None THEN cfg.target ELSE actual, actual,
                                         "invalid_target", paused))
    <2>1. TRUE \in Maybe(BOOLEAN) /\ None \in Maybe(BOOLEAN)
      BY Basics
    <2> QED BY <1>2, <2>1 DEF FinishInvalidBenchmark, Emit
  <1>4. PICK target \in Int : target = IF cfg.target # None THEN cfg.target ELSE actual
    BY <1>1, <1>2 DEF Launches
  <1>5. ~Reachable(actual, target)
    <2>1. CASE cfg.target = None
      BY <1>4, <2>1 DEF Reachable
    <2>2. CASE cfg.target # None
      <3>1. target = Target
        BY <1>1, <1>4, <2>2 DEF Target
      <3>2. ~Reachable(game.date, target)
        BY <1>1, <1>2, <3>1, StaysUnreachable
      <3> QED BY <1>1, <1>3, <3>1, <3>2
    <2> QED BY <2>1, <2>2
  <1> DEFINE rec == Failed(actual, target, actual, "invalid_target", paused)
  <1>6. actual \in Maybe(Int) /\ target \in Maybe(Int) /\ actual # None /\ "invalid_target" \in FailureReasons
    BY Basics, RunnerAssumption DEF FailureReasons
  <1>7. /\ rec \in Records /\ rec.event = "benchmark.failed"
        /\ rec.date = actual /\ rec.actual = actual
        /\ rec.start = actual /\ rec.target = target /\ rec.reason = "invalid_target"
    BY <1>1, <1>6, FailedRecord
  <1>8. trace' = With(trace, rec)
    BY <1>3, <1>4
  <1> HIDE DEF rec
  <1>9. Kind(rec.event) = "terminal" /\ Before(rec.event) = {"campaign.save_load_completed"}
    BY <1>7, EventBefore DEF BenchmarkEvents, Terminals
  <1>10. CASE ~cfg.sink
    <2>1. trace' = trace /\ trace = <<>>
      BY <1>8, <1>10 DEF With, Story
    <2>2. Kinds(<<>>) = {}
      BY NothingRead
    <2>3. Tells({}, r', pc', cfg.sink)
      BY <1>10 DEF Tells
    <2> QED BY <1>1, <1>10, <2>1, <2>2, <2>3 DEF Story
  <1>11. CASE cfg.sink
    <2>1. /\ Good(trace, b.start, b.target) /\ "terminal" \notin Kinds(trace)
          /\ "benchmark.resources" \notin Kinds(trace) /\ "benchmark.started" \notin Kinds(trace)
          /\ "campaign.save_load_completed" \in Kinds(trace)
      BY <1>1, <1>11 DEF Story, Tells
    <2>2. trace' = Append(trace, rec)
      BY <1>8, <1>9, <1>11, <2>1, WithIs
    <2>3. BenchmarkSchema(rec)
      <3>1. ReasonSchema(rec)
        BY <1>5, <1>6, <1>7 DEF ReasonSchema
      <3>2. FailedSchema(rec)
        BY <1>6, <1>7, <3>1 DEF FailedSchema
      <3> QED BY <1>7, <3>2 DEF BenchmarkSchema
    <2>4. ASSUME ReadTo(trace, b.start, b.target) PROVE InOrder(Reader(trace), rec)
      <3>1. ~Reader(trace).started /\ ~Reader(trace).terminal /\ ~Reader(trace).resources
        BY <2>1, <2>4 DEF ReadTo
      <3>2. TerminalInOrder(Reader(trace), rec)
        BY <1>7, <3>1 DEF TerminalInOrder
      <3> QED BY <1>7, <3>2 DEF InOrder, Terminals
    <2>5. rec.event # "benchmark.started"
      BY <1>7
    <2>6. Good(Append(trace, rec), b.start, b.target)
      BY <1>7, <1>9, <2>1, <2>3, <2>4, <2>5, GoodAppended
    <2>7. Kinds(Append(trace, rec)) = Kinds(trace) \cup {"terminal"}
      BY <1>7, <1>9, <2>1, KindsAppended DEF Good
    <2>8. Tells(Kinds(trace) \cup {"terminal"}, r', pc', cfg.sink)
      BY <1>1, <2>1 DEF Story, Tells, Entered
    <2> QED BY <1>1, <1>11, <2>2, <2>6, <2>7, <2>8 DEF Story
  <1> QED BY <1>10, <1>11

-----------------------------------------------------------------------------
(* Every trace is accepted.                                                *)

LEMMA InitStory == Init => Story
  <1> SUFFICES ASSUME Init PROVE Story
    OBVIOUS
  <1>1. trace = <<>> /\ pc = "idle"
    BY DEF Init
  <1>2. ~r.selected /\ ~r.play /\ ~r.speed /\ ~r.recorded /\ ~r.started /\ ~r.terminal
    BY DEF Init, NoLauncher
  <1>3. Good(trace, b.start, b.target) /\ Kinds(trace) = {}
    BY <1>1, NothingRead
  <1>4. Tells(Kinds(trace), r, pc, cfg.sink)
    BY <1>1, <1>2, <1>3 DEF Tells, Entered
  <1> QED BY <1>1, <1>3, <1>4 DEF Story

LEMMA CallbackStory == Control /\ Story /\ Callback => Story'
  BY TimerFiresStory, DrainConsoleRequestStory, AcquireControllerStory, SinglePlayerStory,
     SelectSaveStory, CheckSaveStory, ReadUnavailableStory, ReadCampaignStory, TickBenchmarkStory,
     StopBenchmarkStory, BeginBenchmarkStory, NoBenchmarkToStartStory, FinishInvalidBenchmarkStory,
     TimerUnavailableStory, QuitStory, ConfigureObserverStory, HandOverStory, LiftFogStory,
     SelectSpeedStory, ReleaseStory, WatchLaterStory, WatchViewStory, WatchFailoverStory,
     WatchSwitchStory, WatchPauseStory DEF Callback

\* What is not the callback's leaves the launcher's fields and the trace alone.
LEMMA OthersLeave ==
  ASSUME Next, ~Callback, ~Stop
  PROVE  UNCHANGED <<cfg, trace, b, r, pc>>
  <1>1. CASE FrontendCaptured
    BY <1>1 DEF FrontendCaptured, Quiet, Kept
  <1>2. CASE ConsoleCommand
    BY <1>2 DEF ConsoleCommand, Kept
  <1>3. CASE SaveLoads
    BY <1>3 DEF SaveLoads, TheGame, Kept
  <1>4. CASE Enters
    BY <1>4 DEF Enters, Kept
  <1>5. CASE DayPasses
    BY <1>5 DEF DayPasses, TheGame, Kept
  <1>6. CASE Interferes
    BY <1>6 DEF Interferes, TheGame, Kept
  <1>7. CASE TagSwitch
    BY <1>7 DEF TagSwitch, TheGame, Kept
  <1>8. CASE TimePasses
    BY <1>8 DEF TimePasses
  <1>9. ASSUME NEW c \in Countries, Annexed(c) PROVE UNCHANGED <<cfg, trace, b, r, pc>>
    BY <1>9 DEF Annexed, TheGame, Kept
  <1> QED BY <1>1, <1>2, <1>3, <1>4, <1>5, <1>6, <1>7, <1>8, <1>9 DEF Next

LEMMA NextStory == Control /\ Story /\ [Next]_vars => Story'
  <1> SUFFICES ASSUME Control, Story, [Next]_vars PROVE Story'
    OBVIOUS
  <1>1. CASE Callback
    BY <1>1, CallbackStory
  <1>2. CASE Stop
    BY <1>2, StopStory
  <1>3. CASE Next /\ ~Callback /\ ~Stop
    BY <1>3, OthersLeave, OthersStory
  <1>4. CASE UNCHANGED vars
    BY <1>4, OthersStory DEF vars
  <1> QED BY <1>1, <1>2, <1>3, <1>4

\* The records tell what the launcher did, and a reader of them is where the
\* launcher is.
THEOREM SpecStory == Spec => [](Control /\ Story)
  <1>1. Init => Control /\ Story
    BY InitControl, InitStory
  <1>2. (Control /\ Story) /\ [Next]_vars => (Control /\ Story)'
    BY NextControl, NextStory
  <1> QED BY <1>1, <1>2, PTL DEF Spec

LEMMA StoryRecordsAccepted == Story => RecordsAccepted
  BY DEF Story, Good, SomeUndated, ReadTo, RecordsAccepted, LifecycleInOrder

\* Whatever happened, the trace is one smedley_trace reads: milestones once and in
\* order, benchmark records with fields that fit, in an order it accepts; unless a
\* timer failed and its final date could not be read.
THEOREM SpecRecordsAccepted == Spec => []RecordsAccepted
  BY SpecStory, StoryRecordsAccepted, PTL

-----------------------------------------------------------------------------
(* The end is true.                                                        *)

\* The trace u is t and after it records of S.
Grows(t, u, S) ==
  /\ u \in Seq(Records) /\ DOMAIN t \subseteq DOMAIN u
  /\ \A i \in DOMAIN t : u[i] = t[i]
  /\ \A i \in DOMAIN u \ DOMAIN t : u[i] \in S

LEMMA WithGrows ==
  ASSUME NEW t \in Seq(Records), NEW S, NEW rec \in S, rec \in Records
  PROVE  Grows(t, With(t, rec), S)
  <1>1. CASE With(t, rec) = t
    BY <1>1 DEF Grows
  <1>2. CASE With(t, rec) = Append(t, rec)
    <2> DEFINE u == Append(t, rec)
    <2>1. /\ u \in Seq(Records) /\ Len(t) \in Nat /\ DOMAIN t = 1 .. Len(t) /\ DOMAIN u = 1 .. Len(t) + 1
          /\ \A i \in 1 .. Len(t) : u[i] = t[i]
          /\ u[Len(t) + 1] = rec
      BY Appended
    <2> HIDE DEF u
    <2>2. \A i \in DOMAIN u \ DOMAIN t : i = Len(t) + 1
      BY <2>1
    <2>3. DOMAIN t \subseteq DOMAIN u
      BY <2>1
    <2>4. Grows(t, u, S)
      BY <2>1, <2>2, <2>3 DEF Grows
    <2> QED BY <1>2, <2>4 DEF u
  <1> QED BY <1>1, <1>2 DEF With

LEMMA GrowsOn ==
  ASSUME NEW t, NEW u, NEW w, NEW S, Grows(t, u, S), Grows(u, w, S)
  PROVE  Grows(t, w, S)
  BY DEF Grows

\* The records that are true of a game at this date, paused or not, with this target.
Truthful(paused, date, target) ==
  {rec \in Records :
     /\ rec.event = "benchmark.completed" => paused /\ date = target
     /\ rec.event \in Terminals /\ rec.paused = TRUE => paused /\ rec.actual = date}

EndTold ==
  \A i \in DOMAIN trace' \ DOMAIN trace :
    LET rec == trace'[i]
    IN /\ rec.event = "benchmark.completed" => game'.paused /\ game'.date = b.target
       /\ rec.event \in Terminals /\ rec.paused = TRUE => game'.paused /\ rec.actual = game'.date

LEMMA GrowsTruly ==
  ASSUME Grows(trace, trace', Truthful(game'.paused, game'.date, b.target))
  PROVE  EndTold
  BY DEF Grows, Truthful, EndTold

LEMMA NothingTold == ASSUME trace' = trace PROVE EndTold
  BY DEF EndTold

LEMMA MilestoneTold ==
  ASSUME Story, NEW rec \in Records, rec.event \notin Terminals, trace' = With(trace, rec)
  PROVE  EndTold
  <1>1. rec \in Truthful(game'.paused, game'.date, b.target)
    BY DEF Truthful, Terminals
  <1>2. trace \in Seq(Records)
    BY DEF Story, Good
  <1> QED BY <1>1, <1>2, WithGrows, GrowsTruly

LEMMA FinishTold ==
  ASSUME Control, Story, NEW reason \in Maybe(FailureReasons), NEW actual \in Maybe(Int),
         NEW paused \in Maybe(BOOLEAN), Finish(reason, actual, paused), r.started,
         reason = None => game'.paused /\ game'.date = b.target /\ actual = game'.date,
         paused = TRUE => game'.paused /\ actual = game'.date
  PROVE  EndTold
  <1> DEFINE rec == FinalRecord(reason, actual, paused)
             S == Truthful(game'.paused, game'.date, b.target)
             t1 == With(trace, Resources(actual))
  <1>1. b.start \in Int /\ b.target \in Int /\ late \in BOOLEAN /\ b.start \in Maybe(Int) /\ b.target \in Maybe(Int)
    BY Basics DEF Control, InBenchmark, Fields
  <1>2. rec \in S /\ rec \in Records
    <2>1. CASE reason = None
      BY <1>1, <2>1, CompletedRecord DEF FinalRecord, Truthful
    <2>2. CASE reason # None
      <3>1. reason \in FailureReasons
        BY <2>2, Basics
      <3>2. rec \in Records /\ rec.event = "benchmark.failed" /\ rec.actual = actual /\ rec.paused = paused
        BY <1>1, <2>2, <3>1, FailedRecord DEF FinalRecord
      <3> QED BY <3>2 DEF Truthful
    <2> QED BY <2>1, <2>2
  <1>3. Resources(actual) \in S /\ Resources(actual) \in Records
    BY ResourcesRecord DEF Truthful, Terminals
  <1>4. PICK sampled \in BOOLEAN : trace' = With(IF sampled THEN t1 ELSE trace, rec)
    BY DEF Finish, FinalRecord
  <1>5. trace \in Seq(Records)
    BY DEF Story, Good
  <1> HIDE DEF rec, S
  <1>6. Grows(trace, t1, S)
    BY <1>3, <1>5, WithGrows
  <1>7. t1 \in Seq(Records)
    BY <1>6 DEF Grows
  <1> HIDE DEF t1
  <1>8. Grows(t1, With(t1, rec), S) /\ Grows(trace, With(trace, rec), S)
    BY <1>2, <1>5, <1>7, WithGrows
  <1>9. Grows(trace, With(t1, rec), S)
    BY <1>6, <1>8, GrowsOn
  <1>10. Grows(trace, trace', S)
    BY <1>4, <1>8, <1>9
  <1> QED BY <1>10, GrowsTruly DEF S

LEMMA MilestonesTold ==
  ASSUME Control, Story, SelectSave \/ CheckSave \/ ReadCampaign \/ SelectSpeed \/ WatchPause
  PROVE  EndTold
  <1>1. \/ trace' = trace
        \/ \E event \in Milestones : trace' = With(trace, Rec(event))
    <2>1. CASE SelectSave
      BY <2>1 DEF SelectSave, Emit, Milestones
    <2>2. CASE CheckSave
      BY <2>2 DEF CheckSave, Emit, Milestones
    <2>3. CASE ReadCampaign
      BY <2>3 DEF ReadCampaign, Emit, Milestones
    <2>4. CASE SelectSpeed
      BY <2>4 DEF SelectSpeed, Emit, Milestones
    <2>5. CASE WatchPause
      BY <2>5 DEF WatchPause, Milestones
    <2> QED BY <2>1, <2>2, <2>3, <2>4, <2>5
  <1>2. ASSUME NEW event \in Milestones, trace' = With(trace, Rec(event)) PROVE EndTold
    <2>1. Rec(event) \in Records /\ Rec(event).event = event
      BY MilestoneRecords
    <2>2. event \notin Terminals
      BY DEF Milestones, Terminals
    <2> QED BY <1>2, <2>1, <2>2, MilestoneTold
  <1> QED BY <1>1, <1>2, NothingTold

LEMMA ReleaseTold == Control /\ Story /\ Release => EndTold
  <1> SUFFICES ASSUME Control, Story, Release PROVE EndTold
    OBVIOUS
  <1> DEFINE S == Truthful(game'.paused, game'.date, b.target)
  <1>1. trace \in Seq(Records)
    BY DEF Story, Good
  <1>2. \A event \in Milestones : Rec(event) \in Records /\ Rec(event).event = event
    BY MilestoneRecords
  <1>3. ASSUME NEW rec \in Records, rec.event \in Milestones PROVE rec \in S
    BY <1>3 DEF Truthful, Milestones, Terminals
  <1>4. Rec("observer.configured") \in S /\ Rec("observer.configured") \in Records
    BY <1>2, <1>3 DEF Milestones
  <1>5. \A paused \in BOOLEAN : PauseConfigured(paused) \in S /\ PauseConfigured(paused) \in Records
    BY <1>3, MilestoneRecords DEF Milestones
  <1> HIDE DEF S
  <1>6. Grows(trace, trace, S)
    BY <1>1 DEF Grows
  <1>7. \A paused \in BOOLEAN : Grows(trace, RecordPause(paused), S)
    BY <1>1, <1>5, <1>6, WithGrows DEF RecordPause
  <1>8. ASSUME NEW t, Grows(trace, t, S) PROVE Grows(trace, With(t, Rec("observer.configured")), S)
    <2>1. t \in Seq(Records)
      BY <1>8 DEF Grows
    <2>2. Grows(t, With(t, Rec("observer.configured")), S)
      BY <1>4, <2>1, WithGrows
    <2> QED BY <1>8, <2>2, GrowsOn
  <1>9. \/ trace' = trace
        \/ \E paused \in BOOLEAN : \/ trace' = RecordPause(paused)
                                   \/ trace' = With(RecordPause(paused), Rec("observer.configured"))
    BY DEF Release, Released
  <1>10. Grows(trace, trace', S)
    BY <1>6, <1>7, <1>8, <1>9
  <1> QED BY <1>10, GrowsTruly DEF S

LEMMA BeginBenchmarkTold == Control /\ Story /\ BeginBenchmark => EndTold
  <1> SUFFICES ASSUME Control, Story, BeginBenchmark PROVE EndTold
    OBVIOUS
  <1>1. pc \notin Unread /\ seen \in Snapshots /\ cfg \in Launches /\ Bounded(cfg)
    BY DEF Control, Fields, BeginBenchmark, StartsBenchmark, Unread
  <1>2. seen.date \in Int /\ Target \in Int
    BY <1>1, TargetIs
  <1>3. CASE trace' = trace
    BY <1>3, NothingTold
  <1>4. CASE Emit(BenchmarkStarted(seen.date, Target))
    <2>1. /\ BenchmarkStarted(seen.date, Target) \in Records
          /\ BenchmarkStarted(seen.date, Target).event \notin Terminals
      BY <1>2, StartedRecord DEF Terminals
    <2> QED BY <1>4, <2>1, MilestoneTold DEF Emit
  <1> QED BY <1>3, <1>4 DEF BeginBenchmark

LEMMA ReadUnavailableTold == Control /\ Story /\ ReadUnavailable => EndTold
  <1> SUFFICES ASSUME Control, Story, ReadUnavailable PROVE EndTold
    OBVIOUS
  <1>1. CASE b.active
    <2>1. Finish("idler_unavailable", None, None) /\ r.started
      BY <1>1 DEF ReadUnavailable, Control, InBenchmark
    <2>2. /\ "idler_unavailable" \in Maybe(FailureReasons) /\ "idler_unavailable" # None
          /\ None \in Maybe(Int) /\ None \in Maybe(BOOLEAN) /\ None # TRUE
      BY Basics, RunnerAssumption DEF FailureReasons, Verdicts
    <2> QED BY <2>1, <2>2, FinishTold
  <1>2. CASE ~b.active
    BY <1>2, NothingTold DEF ReadUnavailable
  <1> QED BY <1>1, <1>2

LEMMA TickBenchmarkTold == Control /\ Story /\ TickBenchmark => EndTold
  <1> SUFFICES ASSUME Control, Story, TickBenchmark PROVE EndTold
    OBVIOUS
  <1>1. CASE trace' = trace
    BY <1>1, NothingTold
  <1>2. CASE Finish("pause_failed", seen.date, None)
    <2>1. seen \in Snapshots /\ r.started
      BY DEF Control, Fields, InBenchmark, TickBenchmark, Unread
    <2>2. seen.date \in Maybe(Int)
      BY <2>1, Basics, RunnerAssumption DEF Snapshots
    <2>3. /\ "pause_failed" \in Maybe(FailureReasons) /\ "pause_failed" # None
          /\ None \in Maybe(BOOLEAN) /\ None # TRUE
      BY Basics, RunnerAssumption DEF FailureReasons, Verdicts
    <2> QED BY <1>2, <2>1, <2>2, <2>3, FinishTold
  <1> QED BY <1>1, <1>2 DEF TickBenchmark

LEMMA StopBenchmarkTold == Control /\ Story /\ StopBenchmark => EndTold
  <1> SUFFICES ASSUME Control, Story, StopBenchmark PROVE EndTold
    OBVIOUS
  <1>1. /\ r.started /\ seen \in Snapshots /\ b.verdict \in Decisions /\ PauseTakes /\ b.target \in Int
    BY DEF Control, Fields, InBenchmark, StopBenchmark, Unread
  <1>2. game'.date = game.date
    BY <1>1, PauseFacts
  <1>3. game.date \in Maybe(Int) /\ seen.date \in Maybe(Int) /\ game.date \in Int
    BY <1>1, Basics, GameFacts, RunnerAssumption DEF Snapshots
  <1>4. /\ TRUE \in Maybe(BOOLEAN) /\ FALSE \in Maybe(BOOLEAN) /\ None \in Maybe(BOOLEAN)
        /\ None # TRUE /\ None \in Maybe(FailureReasons)
        /\ \A reason \in FailureReasons : reason \in Maybe(FailureReasons) /\ reason # None
    BY Basics, RunnerAssumption DEF Verdicts
  <1>5. CASE \E ok \in {TRUE, InCampaign} :
               Finish("pause_failed", IF ok THEN game.date ELSE seen.date, IF ok THEN FALSE ELSE None)
    <2>1. PICK actual \in Maybe(Int), paused \in Maybe(BOOLEAN) :
            paused # TRUE /\ Finish("pause_failed", actual, paused)
      BY <1>3, <1>4, <1>5
    <2>2. "pause_failed" \in FailureReasons
      BY DEF FailureReasons
    <2> QED BY <1>1, <1>4, <2>1, <2>2, FinishTold
  <1>6. CASE \E reason \in FailureReasons : game'.paused /\ Finish(reason, game.date, TRUE)
    BY <1>1, <1>2, <1>3, <1>4, <1>6, FinishTold
  <1>7. CASE game'.paused /\ game.date = b.target /\ Finish(None, game.date, TRUE)
    BY <1>1, <1>2, <1>3, <1>4, <1>7, FinishTold
  <1>8. "date_regressed" \in FailureReasons /\ "date_overshoot" \in FailureReasons
    BY DEF FailureReasons
  <1>9. b.verdict # "complete" => b.verdict \in FailureReasons
    BY <1>1 DEF Decisions, FailureReasons
  <1> QED BY <1>5, <1>6, <1>7, <1>8, <1>9 DEF StopBenchmark

LEMMA TimerUnavailableTold == Control /\ Story /\ TimerUnavailable => EndTold
  <1> SUFFICES ASSUME Control, Story, TimerUnavailable PROVE EndTold
    OBVIOUS
  <1>1. r.started /\ PauseTakes
    BY DEF Control, InBenchmark, TimerUnavailable
  <1>2. game'.date = game.date /\ game'.paused \in BOOLEAN
    BY <1>1, PauseFacts DEF GameFields
  <1>3. game.date \in Maybe(Int) /\ None \in Maybe(Int) /\ TRUE \in Maybe(BOOLEAN) /\ None \in Maybe(BOOLEAN)
        /\ None # TRUE
    BY Basics, GameFacts, RunnerAssumption
  <1>4. PICK ok \in {TRUE, InCampaign} :
          Finish("timer_unavailable", IF ok THEN game.date ELSE None, IF ok /\ game'.paused THEN TRUE ELSE None)
    BY DEF TimerUnavailable
  <1>5. PICK actual \in Maybe(Int), paused \in Maybe(BOOLEAN) :
          /\ Finish("timer_unavailable", actual, paused)
          /\ paused = TRUE => game'.paused /\ actual = game'.date
    BY <1>2, <1>3, <1>4
  <1>6. "timer_unavailable" \in Maybe(FailureReasons) /\ "timer_unavailable" # None
    BY Basics, RunnerAssumption DEF FailureReasons, Verdicts
  <1> QED BY <1>1, <1>5, <1>6, FinishTold

LEMMA FinishInvalidBenchmarkTold == Control /\ Story /\ FinishInvalidBenchmark => EndTold
  <1> SUFFICES ASSUME Control, Story, FinishInvalidBenchmark PROVE EndTold
    OBVIOUS
  <1>1. /\ PauseTakes /\ late \in BOOLEAN /\ cfg \in Launches /\ seen \in Snapshots
    BY DEF Control, Fields, FinishInvalidBenchmark, Unread
  <1>2. game'.date = game.date /\ game'.paused \in BOOLEAN
    BY <1>1, PauseFacts DEF GameFields
  <1>3. /\ game.date \in Maybe(Int) /\ seen.date \in Maybe(Int)
        /\ TRUE \in Maybe(BOOLEAN) /\ None \in Maybe(BOOLEAN) /\ None # TRUE
    <2>1. game.date \in Int /\ seen.date \in Int
      BY <1>1, GameFacts, RunnerAssumption DEF Snapshots
    <2> QED BY <2>1, Basics, RunnerAssumption
  <1>4. PICK actual \in Maybe(Int), paused \in Maybe(BOOLEAN) :
          /\ trace' = With(trace, Failed(actual, IF cfg.target # None THEN cfg.target ELSE actual, actual,
                                         "invalid_target", paused))
          /\ paused = TRUE => game'.paused /\ actual = game'.date
    BY <1>2, <1>3 DEF FinishInvalidBenchmark, Emit
  <1>5. PICK target \in Maybe(Int) : target = IF cfg.target # None THEN cfg.target ELSE actual
    BY <1>1 DEF Launches, Maybe
  <1> DEFINE rec == Failed(actual, target, actual, "invalid_target", paused)
  <1>6. "invalid_target" \in FailureReasons
    BY DEF FailureReasons
  <1>7. rec \in Records /\ rec.event = "benchmark.failed" /\ rec.actual = actual /\ rec.paused = paused
    BY <1>1, <1>6, FailedRecord
  <1>8. trace' = With(trace, rec)
    BY <1>4, <1>5
  <1> HIDE DEF rec
  <1>9. rec \in Truthful(game'.paused, game'.date, b.target)
    BY <1>4, <1>7 DEF Truthful
  <1>10. trace \in Seq(Records)
    BY DEF Story, Good
  <1> QED BY <1>7, <1>8, <1>9, <1>10, WithGrows, GrowsTruly

LEMMA StopMonitoringQuits ==
  ASSUME NEW g \in GameFields, NEW restore \in BOOLEAN, StopMonitoring(g, restore)
  PROVE  game'.quit = g.quit
  <1>1. game' = g \/ \E c : game' = ReturnedToAI(g, c)
    BY DEF StopMonitoring
  <1> QED BY <1>1 DEF ReturnedToAI, GameFields

\* Only Quit asks the game to quit.
LEMMA CallbackQuits == Control /\ Callback /\ ~Quit => game'.quit = game.quit
  <1> SUFFICES ASSUME Control, Callback, ~Quit PROVE game'.quit = game.quit
    OBVIOUS
  <1>1. game \in GameFields
    BY GameFacts
  <1>2. CASE TimerFires \/ AcquireController \/ SinglePlayer \/ ReadUnavailable \/ ReadCampaign
             \/ BeginBenchmark \/ NoBenchmarkToStart \/ SelectSpeed \/ WatchLater
    BY <1>2 DEF TimerFires, AcquireController, SinglePlayer, ReadUnavailable, ReadCampaign, BeginBenchmark,
                NoBenchmarkToStart, SelectSpeed, WatchLater, Kept, Quiet
  <1>3. CASE SelectSave \/ CheckSave
    BY <1>1, <1>3 DEF SelectSave, CheckSave, GameFields
  <1>4. CASE TickBenchmark
    BY <1>1, <1>4 DEF TickBenchmark, Pausing, GameFields
  <1>5. CASE StopBenchmark \/ FinishInvalidBenchmark \/ TimerUnavailable
    BY <1>5, PauseFacts DEF StopBenchmark, FinishInvalidBenchmark, TimerUnavailable
  <1>6. CASE ConfigureObserver
    BY <1>1, <1>6 DEF ConfigureObserver, GameFields
  <1>7. CASE HandOver
    BY <1>1, <1>7 DEF HandOver, ReturnedToAI, GameFields
  <1>8. CASE LiftFog
    BY <1>1, <1>8 DEF LiftFog, GameFields
  <1>9. CASE Release
    BY <1>1, <1>9 DEF Release, Released, GameFields
  <1>10. CASE DrainConsoleRequest
    BY <1>1, <1>10 DEF DrainConsoleRequest, RequestSwitch, Switching, GameFields
  <1> DEFINE held == [game EXCEPT !.paused = TRUE]
  <1>11. held \in GameFields /\ held.quit = game.quit
    BY <1>1 DEF GameFields
  <1>12. \A c : ReturnedToAI(held, c).quit = game.quit /\ Switching(held, c).quit = game.quit
    BY <1>11 DEF ReturnedToAI, Switching, GameFields
  <1>13. CASE WatchFailover
    <2>1. \/ StopMonitoring(game, FALSE) \/ StopMonitoring(held, FALSE)
          \/ \E c : game' = Switching(held, c)
      BY <1>13 DEF WatchFailover
    <2> HIDE DEF held
    <2> QED BY <1>1, <1>11, <1>12, <2>1, StopMonitoringQuits
  <1>14. CASE WatchSwitch
    <2>1. \/ StopMonitoring(game, FALSE) \/ StopMonitoring(held, FALSE) \/ StopMonitoring(held, TRUE)
          \/ game' = held \/ game' = ReturnedToAI(held, r.target)
          \/ game' = [ReturnedToAI(held, r.target) EXCEPT !.paused = FALSE]
      BY <1>14 DEF WatchSwitch
    <2>2. ReturnedToAI(held, r.target).quit = game.quit
          /\ [ReturnedToAI(held, r.target) EXCEPT !.paused = FALSE].quit = game.quit
      BY <1>11 DEF ReturnedToAI, GameFields
    <2> HIDE DEF held
    <2> QED BY <1>1, <1>11, <2>1, <2>2, StopMonitoringQuits
  <1>15. CASE WatchPause
    <2>1. game' = game \/ game' = [game EXCEPT !.paused = FALSE] \/ StopMonitoring(game, FALSE)
      BY <1>15 DEF WatchPause
    <2>2. [game EXCEPT !.paused = FALSE].quit = game.quit
      BY <1>1 DEF GameFields
    <2> QED BY <1>1, <2>1, <2>2, StopMonitoringQuits
  <1>16. CASE WatchView
    <2>1. \/ \E resumed \in BOOLEAN : StopMonitoring([game EXCEPT !.paused = @ \/ ~resumed], FALSE)
          \/ StopMonitoring(game, FALSE)
          \/ \E c : game' = Switching(held, c)
      BY <1>16 DEF WatchView, RequestSwitch
    <2>2. ASSUME NEW paused \in BOOLEAN
          PROVE  /\ [game EXCEPT !.paused = @ \/ paused] \in GameFields
                 /\ [game EXCEPT !.paused = @ \/ paused].quit = game.quit
      BY <1>1 DEF GameFields
    <2>3. \A resumed \in BOOLEAN : (~resumed) \in BOOLEAN
      OBVIOUS
    <2> HIDE DEF held
    <2>4. CASE \E resumed \in BOOLEAN : StopMonitoring([game EXCEPT !.paused = @ \/ ~resumed], FALSE)
      <3>1. PICK resumed \in BOOLEAN : StopMonitoring([game EXCEPT !.paused = @ \/ ~resumed], FALSE)
        BY <2>4
      <3>2. PICK m \in BOOLEAN : m = ~resumed
        BY <2>3
      <3>3. StopMonitoring([game EXCEPT !.paused = @ \/ m], FALSE)
        BY <3>1, <3>2
      <3> QED BY <2>2, <3>3, StopMonitoringQuits
    <2> QED BY <1>1, <1>11, <1>12, <2>1, <2>4, StopMonitoringQuits
  <1> QED BY <1>2, <1>3, <1>4, <1>5, <1>6, <1>7, <1>8, <1>9, <1>10, <1>13, <1>14, <1>15, <1>16 DEF Callback

LEMMA OthersQuit == Control /\ Next /\ ~Callback => game'.quit = game.quit
  <1> SUFFICES ASSUME Control, Next, ~Callback PROVE game'.quit = game.quit
    OBVIOUS
  <1>1. game \in GameFields
    BY GameFacts
  <1>2. CASE FrontendCaptured \/ TimePasses
    BY <1>2 DEF FrontendCaptured, TimePasses
  <1>3. CASE ConsoleCommand
    BY <1>1, <1>3 DEF ConsoleCommand, Done, GameFields
  <1>4. CASE Stop
    BY <1>1, <1>4 DEF Stop, ReturnedToAI, GameFields
  <1>5. CASE SaveLoads
    BY <1>1, <1>5 DEF SaveLoads, GameFields
  <1>6. CASE Enters
    BY <1>1, <1>6 DEF Enters, GameFields
  <1>7. CASE DayPasses
    BY <1>1, <1>7 DEF DayPasses, GameFields
  <1>8. CASE Interferes
    BY <1>1, <1>8 DEF Interferes, Done, GameFields
  <1>9. CASE TagSwitch
    BY <1>1, <1>9 DEF TagSwitch, GameFields
  <1>10. ASSUME NEW c \in Countries, Annexed(c) PROVE game'.quit = game.quit
    <2>1. \E view : game' = [Done(game) EXCEPT !.view = view, !.living = @ \ {c}, !.human = @ \ {c},
                                               !.ai = @ \ {c}]
      BY <1>10 DEF Annexed
    <2> QED BY <1>1, <2>1 DEF Done, GameFields
  <1> QED BY <1>2, <1>3, <1>4, <1>5, <1>6, <1>7, <1>8, <1>9, <1>10 DEF Next

LEMMA QuitAfterEnd == Control /\ Story /\ Quit => r.terminal /\ (cfg.sink => Sent("terminal"))
  BY SentIsKind DEF Control, Ended, Story, Tells, Quit

LEMMA NextTold == Control /\ Story /\ Next => EndTold
  <1> SUFFICES ASSUME Control, Story, Next PROVE EndTold
    OBVIOUS
  <1>1. CASE SelectSave \/ CheckSave \/ ReadCampaign \/ SelectSpeed \/ WatchPause
    BY <1>1, MilestonesTold
  <1>2. CASE Release \/ BeginBenchmark \/ ReadUnavailable \/ TickBenchmark \/ StopBenchmark
             \/ TimerUnavailable \/ FinishInvalidBenchmark
    BY <1>2, ReleaseTold, BeginBenchmarkTold, ReadUnavailableTold, TickBenchmarkTold, StopBenchmarkTold,
       TimerUnavailableTold, FinishInvalidBenchmarkTold
  <1>3. CASE TimerFires \/ DrainConsoleRequest \/ AcquireController \/ SinglePlayer
             \/ NoBenchmarkToStart \/ Quit \/ ConfigureObserver \/ HandOver \/ LiftFog
             \/ WatchLater \/ WatchView \/ WatchFailover \/ WatchSwitch \/ Stop
    BY <1>3, NothingTold DEF TimerFires, DrainConsoleRequest, AcquireController, SinglePlayer,
             NoBenchmarkToStart, Quit, ConfigureObserver, HandOver, LiftFog,
             WatchLater, WatchView, WatchFailover, WatchSwitch, Stop, Quiet
  <1>4. CASE ~Callback /\ ~Stop
    BY <1>4, OthersLeave, NothingTold
  <1> QED BY <1>1, <1>2, <1>3, <1>4 DEF Callback

\* A benchmark is recorded as completed only while the game stands paused at the
\* target, a failure with a confirmed pause only while it is paused at that date, and
\* the game is asked to quit only after the end was recorded.
THEOREM SpecEndIsTrue == Spec => EndIsTrue
  <1>1. /\ Control /\ Story /\ [Next]_vars
        => [/\ \A i \in DOMAIN trace' \ DOMAIN trace :
                 LET rec == trace'[i]
                 IN /\ rec.event = "benchmark.completed" => game'.paused /\ game'.date = b.target
                    /\ rec.event \in Terminals /\ rec.paused = TRUE =>
                         game'.paused /\ rec.actual = game'.date
            /\ game'.quit # game.quit => r.terminal /\ (cfg.sink => Sent("terminal"))]_vars
    BY NextTold, CallbackQuits, OthersQuit, QuitAfterEnd DEF EndTold
  <1> QED BY <1>1, SpecStory, PTL DEF Spec, EndIsTrue

=============================================================================
