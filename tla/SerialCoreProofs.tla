-------------------------- MODULE SerialCoreProofs -------------------------
(***************************************************************************)
(* Proofs about SerialCore, for every number of files and addresses.  In   *)
(* every interleaving, the races among them, the low level is started at   *)
(* most once and never shut down twice; and in all those that the code     *)
(* gets right the line runs only for somebody, its count is right, an open *)
(* port is served, its address is its own and a removed port is quiet.     *)
(*                                                                         *)
(* CoreInv is the inductive invariant.  What the properties do not say and *)
(* it adds: which files are behind the state of the line (ForSomebody,     *)
(* TtyKept, ClosingAlone, Bound), that the flags of a sleeping port are    *)
(* set only while user processes are frozen (Frozen), and how far a        *)
(* removal is (Removal).                                                   *)
(***************************************************************************)
EXTENDS SerialCore, FiniteSetTheorems, TLAPS

(* The fields of the line and their types; the counters apart.             *)
Names ==
  {"attached", "dead", "known", "addr", "fixed", "suspended", "started", "init",
   "susp", "active", "closing", "count", "blocked", "tty", "pm", "xmit", "ddata",
   "ioerr", "result"}

Typed(s) ==
  /\ DOMAIN s = Names
  /\ {s.attached, s.dead, s.known, s.suspended, s.init, s.susp, s.active,
      s.closing, s.xmit, s.ddata, s.ioerr} \subseteq BOOLEAN
  /\ s.addr \in Addrs /\ s.started \in 0 .. 1
  /\ s.tty \in {"none", "now", "old"} /\ s.pm \in {"new", "on", "off"}

(* The functions of the line keep it sound: typed, and with the low level  *)
(* in step with ASYNC_INITIALIZED.                                         *)
Sound(s) ==
  /\ Typed(s)
  /\ s.started = IF s.init THEN 1 ELSE 0
  /\ ~(s.init /\ s.susp)
  /\ s.init \/ s.susp => s.xmit

(* The files that are counted, that wait for the carrier, and those the    *)
(* port may run for.                                                       *)
CountedPCs == {"ready", "closewait", "woken", "open", "asking", "failed"}
Openers == {p \in Files : ~hung[p] /\ pc[p] \in CountedPCs}
Blocked == {p \in Files : pc[p] = "blocked"}
Servers == Openers \cup {p \in Files : pc[p] = "draining" \/ (pc[p] = "blocked" /\ ~hung[p])}

(* ASYNC_SUSPENDED and suspended last only while the system sleeps, and it *)
(* does not sleep during a removal.                                        *)
Frozen ==
  /\ l.susp => l.suspended
  /\ l.suspended => asleep
  /\ asleep => rem.step = "idle"

(* blocked_open counts the files that wait for the carrier.                *)
BlockedCounted == l.blocked = Cardinality(Blocked)

(* driver_data is set by the first open that finds the port, and from then *)
(* on no file of the tty is without it unless it was hung up.              *)
Bound ==
  /\ ~l.ddata => \A p \in Files : pc[p] \in {"out", "opening", "refused"}
  /\ l.ddata => \A p \in Files : pc[p] = "refused" => hung[p]
  /\ \A p \in Files : pc[p] = "ready" => ~hung[p]

(* An initialised, suspended or active port has a file it runs for.        *)
ForSomebody == l.init \/ l.susp \/ l.active => Servers # {}

(* A hang-up, or the last close, leaves nothing running on the old tty.    *)
TtyKept ==
  l.tty # "now" =>
    /\ ~l.init /\ ~l.susp /\ ~l.active
    /\ \A p \in Files : pc[p] # "ready" /\ (pc[p] \in {"open", "asking"} => hung[p])

(* One file at a time closes the port, and none has it open meanwhile.     *)
ClosingAlone ==
  /\ l.closing <=> \E p \in Files : pc[p] = "draining"
  /\ \A p, q \in Files : pc[p] = "draining" /\ pc[q] = "draining" => p = q
  /\ l.closing => \A p \in Files : pc[p] \in {"open", "asking"} => hung[p]

(* As OpenPortServed, for the open that is to become ready too.            *)
ServedInv ==
  /\ \E p \in Files : pc[p] = "ready" \/ (pc[p] \in {"open", "asking"} /\ ~hung[p])
  /\ l.known /\ l.result = "ok"
  => l.init \/ l.susp

(* What each step of a removal has achieved.                               *)
Removal ==
  /\ l.dead <=> rem.step # "idle"
  /\ l.attached <=> rem.step # "gone"
  /\ ~l.attached => ~l.known
  /\ rem.step \in {"hungup", "gone"} =>
       /\ \A p \in Files : pc[p] # "ready" /\ (pc[p] \in {"open", "asking"} => hung[p])
       /\ l.init => Blocked = {}
  /\ rem.step = "gone" => Servers = {} /\ \A p \in Files : pc[p] # "asking"

(* The races that only touch the address a port claims.                    *)
RegionRaces == {"config_busy", "info_busy"}
RegionKept  == Races = {} => RegionHeld

CoreInv ==
  /\ TypeOK /\ Sound(l) /\ Frozen
  /\ CountIsOpeners /\ BlockedCounted
  /\ Bound /\ ForSomebody /\ TtyKept /\ ClosingAlone
  /\ ServedInv /\ RegionKept /\ Removal /\ ~stray

-----------------------------------------------------------------------------

(* What no start and no shutdown changes.                                  *)
SameUse(s, t) ==
  /\ t.attached = s.attached /\ t.dead = s.dead /\ t.suspended = s.suspended
  /\ t.active = s.active /\ t.closing = s.closing /\ t.ddata = s.ddata
  /\ t.count = s.count /\ t.blocked = s.blocked /\ t.tty = s.tty

(* uart_startup keeps the line sound; a typed port whose start is "ok" runs.*)
LEMMA StartupSound ==
  ASSUME NEW s, Sound(s), ~s.susp, NEW ok \in BOOLEAN, NEW t, t = UartStartup(s, ok)
  PROVE  /\ Sound(t) /\ SameUse(s, t) /\ ~t.susp
         /\ t.known = s.known /\ t.addr = s.addr
         /\ t.known /\ t.result = "ok" => t.init
<1>1. CASE s.init
  BY <1>1 DEF UartStartup, SameUse, Sound
<1>2. CASE ~s.init /\ ~s.known
  BY <1>2 DEF UartStartup, SameUse, Sound, Typed, Names
<1>3. CASE ~s.init /\ s.known /\ ok
  <2>1. t = [s EXCEPT !.xmit = TRUE, !.started = 1, !.init = TRUE, !.ioerr = FALSE,
                      !.result = "ok"]
    BY <1>3 DEF UartStartup, Sound, Typed
  <2>2. Typed(t) /\ t.xmit /\ t.started = 1 /\ t.init
    BY <2>1 DEF Sound, Typed, Names
  <2>3. SameUse(s, t) /\ t.susp = s.susp /\ t.known = s.known /\ t.addr = s.addr
    BY <2>1 DEF Sound, Typed, Names, SameUse
  <2> QED BY <2>2, <2>3 DEF Sound
<1>4. CASE ~s.init /\ s.known /\ ~ok
  <2>1. t = [s EXCEPT !.xmit = TRUE, !.ioerr = TRUE, !.result = "failed"]
    BY <1>4 DEF UartStartup
  <2>2. Typed(t) /\ t.xmit /\ t.started = s.started /\ t.init = s.init /\ t.result # "ok"
    BY <2>1 DEF Sound, Typed, Names
  <2>3. SameUse(s, t) /\ t.susp = s.susp /\ t.known = s.known /\ t.addr = s.addr
    BY <2>1 DEF Sound, Typed, Names, SameUse
  <2> QED BY <2>2, <2>3 DEF Sound
<1> QED BY <1>1, <1>2, <1>3, <1>4

(* uart_shutdown keeps the line sound and leaves it down and awake.        *)
LEMMA ShutdownSound ==
  ASSUME NEW s, Sound(s), NEW w \in BOOLEAN, NEW t, t = UartShutdown(s, w)
  PROVE  /\ Sound(t) /\ SameUse(s, t) /\ ~t.init /\ ~t.susp
         /\ t.known = s.known /\ t.addr = s.addr /\ t.result = s.result
BY DEF UartShutdown, SameUse, Sound, Typed, Names

(* set_info and autoconfig give the port another type or address.          *)
LEMMA MovedSound ==
  ASSUME NEW s, Sound(s), NEW x \in Addrs, NEW known \in BOOLEAN,
         NEW t, t = [s EXCEPT !.addr = x, !.known = known]
  PROVE  /\ Sound(t) /\ SameUse(s, t) /\ t.init = s.init /\ t.susp = s.susp
         /\ t.known = known /\ t.addr = x /\ t.result = s.result
BY DEF SameUse, Sound, Typed, Names

(* config_port may change the type and nothing else.                       *)
LEMMA ConfigSound ==
  ASSUME NEW s, Sound(s), NEW k, NEW outcome \in Outcomes, NEW t,
         t = s \/ (k = Probed(s, outcome) /\ t = [s EXCEPT !.known = k])
  PROVE  /\ Sound(t) /\ SameUse(s, t) /\ t.init = s.init /\ t.susp = s.susp
         /\ t.addr = s.addr /\ t.result = s.result /\ t.pm = s.pm
<1>1. Probed(s, outcome) \in BOOLEAN
  BY DEF Probed, Outcomes, Sound, Typed
<1> QED BY <1>1 DEF SameUse, Sound, Typed, Names

(* check_and_exit of uart_set_info starts a typed port that is down.       *)
LEMMA CheckSound ==
  ASSUME NEW s, Sound(s), ~s.susp, NEW ok \in BOOLEAN, NEW t, t = CheckAndExit(s, ok)
  PROVE  /\ Sound(t) /\ SameUse(s, t) /\ ~t.susp
         /\ t.known = s.known /\ t.addr = s.addr
         /\ t.known /\ t.result = "ok" => t.init
<1>1. CASE s.known /\ ~s.init
  <2>1. t = UartStartup(s, ok)
    BY <1>1 DEF CheckAndExit
  <2> QED BY <2>1, StartupSound
<1>2. CASE ~(s.known /\ ~s.init)
  <2>1. t = s
    BY <1>2 DEF CheckAndExit
  <2> QED BY <1>2, <2>1 DEF SameUse
<1> QED BY <1>1, <1>2

-----------------------------------------------------------------------------
(* Sets of files.                                                          *)
LEMMA Counting ==
  ASSUME NEW S \in SUBSET Files
  PROVE  /\ Cardinality(S) \in 0 .. Cardinality(Files)
         /\ Cardinality(S) = 0 <=> S = {}
         /\ \A p \in Files \ S : Cardinality(S \cup {p}) = Cardinality(S) + 1
         /\ \A p \in S : Cardinality(S \ {p}) = Cardinality(S) - 1
<1>1. IsFiniteSet(Files) /\ IsFiniteSet(S)
  BY CoreAssumption, FS_Subset
<1>2. Cardinality(S) \in Nat /\ Cardinality(Files) \in Nat
  BY <1>1, FS_CardinalityType
<1>3. Cardinality(S) <= Cardinality(Files)
  BY <1>1, FS_Subset
<1>4. Cardinality(S) = 0 <=> S = {}
  BY <1>1, FS_EmptySet
<1>5. \A p \in Files \ S : Cardinality(S \cup {p}) = Cardinality(S) + 1
  BY <1>1, FS_AddElement
<1>6. \A p \in S : Cardinality(S \ {p}) = Cardinality(S) - 1
  BY <1>1, FS_RemoveElement
<1> QED BY <1>2, <1>3, <1>4, <1>5, <1>6

(* What a file that moves between states changes.                          *)
Facts ==
  /\ pc \in [Files -> PCs] /\ hung \in [Files -> BOOLEAN]
  /\ Openers \in SUBSET Files /\ Blocked \in SUBSET Files
  /\ l.count = Cardinality(Openers) /\ l.blocked = Cardinality(Blocked)
  /\ l.count \in Nat /\ l.blocked \in 0 .. Cardinality(Files)
  /\ Sound(l) /\ Typed(l)

(* CoreInv in the form the counters need.                                  *)
LEMMA CoreFacts == CoreInv => Facts
<1> SUFFICES ASSUME CoreInv PROVE Facts
  OBVIOUS
<1>1. Openers \in SUBSET Files /\ Blocked \in SUBSET Files
  BY DEF Openers, Blocked
<1>2. l.count = Cardinality(Openers)
  BY DEF CoreInv, CountIsOpeners, Openers, CountedPCs
<1> QED BY <1>1, <1>2 DEF CoreInv, Facts, TypeOK, Sound, BlockedCounted

(* The counters follow the sets.                                           *)
LEMMA Counters ==
  ASSUME l'.count = Cardinality(Openers'), l'.blocked = Cardinality(Blocked'),
         pc' \in [Files -> PCs], hung' \in [Files -> BOOLEAN], stray' \in BOOLEAN,
         region' \in [Addrs -> {"free", "ours", "other"}],
         rem' \in [step : Steps, next : {"card", "isa"}], asleep' \in BOOLEAN,
         Sound(l')
  PROVE  TypeOK' /\ CountIsOpeners' /\ BlockedCounted'
<1>1. Openers' \in SUBSET Files /\ Blocked' \in SUBSET Files
  BY DEF Openers, Blocked
<1>2. l'.count \in Nat /\ l'.blocked \in 0 .. Cardinality(Files)
  <2>1. /\ Cardinality(Openers') \in 0 .. Cardinality(Files)
        /\ Cardinality(Blocked') \in 0 .. Cardinality(Files)
    BY <1>1, Counting
  <2> QED BY <2>1
<1>3. TypeOK'
  BY <1>2 DEF TypeOK, Sound, Typed
<1>4. CountIsOpeners'
  BY DEF CountIsOpeners, Openers, CountedPCs
<1> QED BY <1>3, <1>4 DEF BlockedCounted

(* A file moves and the line stays as it is.                               *)
LEMMA MoveStep ==
  ASSUME CoreInv, NEW p \in Files, NEW x \in PCs,
         pc' = [pc EXCEPT ![p] = x], UNCHANGED <<l, region, rem, asleep, stray>>,
         \/ pc[p] = "out" /\ x = "opening" /\ hung' = [hung EXCEPT ![p] = FALSE]
         \/ pc[p] = "opening" /\ x = "refused" /\ ~l.ddata /\ UNCHANGED hung
         \/ pc[p] = "closewait" /\ x = "woken" /\ UNCHANGED hung
         \/ pc[p] = "woken" /\ x \in {"closewait", "failed"} /\ UNCHANGED hung
         \/ pc[p] = "open" /\ x = "asking" /\ ~hung[p] /\ UNCHANGED hung
         \/ pc[p] = "asking" /\ x = "open" /\ UNCHANGED hung
  PROVE  CoreInv'
<1>1. Facts
  BY CoreFacts
<1>2. /\ pc' \in [Files -> PCs] /\ hung' \in [Files -> BOOLEAN]
      /\ \A q \in Files \ {p} : pc'[q] = pc[q] /\ hung'[q] = hung[q]
      /\ pc'[p] = x
  BY <1>1 DEF Facts
<1>3. Openers' = Openers /\ Blocked' = Blocked /\ Servers' = Servers
  <2>1. Openers' = Openers
    BY <1>1, <1>2 DEF Openers, CountedPCs, Facts
  <2>2. Blocked' = Blocked
    BY <1>2 DEF Blocked
  <2> QED BY <1>2, <2>1, <2>2 DEF Servers
<1>4. TypeOK' /\ CountIsOpeners' /\ BlockedCounted'
  BY <1>1, <1>2, <1>3, Counters DEF Facts, CoreInv, TypeOK
<1>5. Bound'
  BY <1>2 DEF CoreInv, Bound
<1>6. TtyKept' /\ ClosingAlone'
  BY <1>2 DEF CoreInv, TtyKept, ClosingAlone
<1>7. ServedInv' /\ Removal'
  BY <1>2, <1>3 DEF CoreInv, ServedInv, Removal
<1>8. (ForSomebody /\ RegionKept /\ Frozen /\ ~stray)' /\ Sound(l')
  BY <1>3 DEF CoreInv, ForSomebody, RegionKept, RegionHeld, Frozen
<1> QED BY <1>4, <1>5, <1>6, <1>7, <1>8 DEF CoreInv

(* uart_open of a file that was hung up meanwhile.                         *)
LEMMA HungUpStep ==
  ASSUME Races \subseteq RegionRaces, CoreInv, NEW p \in Files, OpenHungUp(p)
  PROVE  CoreInv'
<1>1. Facts
  BY CoreFacts
<1>2. /\ pc' = [pc EXCEPT ![p] = "refused"] /\ pc[p] = "opening" /\ hung[p]
      /\ UNCHANGED <<hung, region, rem, asleep, stray>>
      /\ l.attached /\ ~l.dead /\ NoneRefused
  BY DEF OpenHungUp, Race, RegionRaces
<1>3. /\ pc' \in [Files -> PCs] /\ pc'[p] = "refused"
      /\ \A q \in Files \ {p} : pc'[q] = pc[q]
  BY <1>1, <1>2 DEF Facts, PCs
<1>4. l' = [l EXCEPT !.ddata = TRUE, !.tty = "now"]
  BY DEF OpenHungUp, OpenBound
<1>5. /\ Sound(l') /\ l'.ddata = TRUE /\ l'.tty = "now"
      /\ l'.attached = l.attached /\ l'.dead = l.dead /\ l'.known = l.known
      /\ l'.addr = l.addr /\ l'.suspended = l.suspended /\ l'.init = l.init
      /\ l'.susp = l.susp /\ l'.active = l.active /\ l'.closing = l.closing
      /\ l'.count = l.count /\ l'.blocked = l.blocked /\ l'.result = l.result
  BY <1>1, <1>4 DEF Facts, Sound, Typed, Names
<1>6. Openers' = Openers /\ Blocked' = Blocked /\ Servers' = Servers
  <2>1. Openers' = Openers
    BY <1>2, <1>3 DEF Openers, CountedPCs
  <2>2. Blocked' = Blocked
    BY <1>2, <1>3 DEF Blocked
  <2> QED BY <1>2, <1>3, <2>1, <2>2 DEF Servers
<1>7. TypeOK' /\ CountIsOpeners' /\ BlockedCounted'
  BY <1>1, <1>2, <1>3, <1>5, <1>6, Counters DEF Facts, CoreInv, TypeOK
<1>8. Bound'
  BY <1>2, <1>3, <1>5 DEF CoreInv, Bound, NoneRefused
<1>9. TtyKept' /\ ClosingAlone'
  BY <1>2, <1>3, <1>5 DEF CoreInv, TtyKept, ClosingAlone
<1>10. ServedInv' /\ Removal'
  BY <1>2, <1>3, <1>5, <1>6 DEF CoreInv, ServedInv, Removal
<1>11. (ForSomebody /\ RegionKept /\ Frozen /\ ~stray)'
  BY <1>2, <1>5, <1>6 DEF CoreInv, ForSomebody, RegionKept, RegionHeld, Frozen
<1> QED BY <1>5, <1>7, <1>8, <1>9, <1>10, <1>11 DEF CoreInv

(* uart_open up to uart_startup.                                           *)
LEMMA StartStep ==
  ASSUME Races \subseteq RegionRaces, CoreInv, NEW p \in Files, OpenStart(p)
  PROVE  CoreInv'
<1>1. Facts
  BY CoreFacts
<1>2. /\ pc[p] = "opening" /\ ~hung[p] /\ UNCHANGED <<hung, region, rem, asleep, stray>>
      /\ l.attached /\ ~l.dead /\ NoneRefused /\ ~asleep
      /\ pc' = [pc EXCEPT ![p] = "failed"] \/ pc' = [pc EXCEPT ![p] = "ready"]
  BY DEF OpenStart, Race, RegionRaces
<1>3. /\ pc' \in [Files -> PCs] /\ pc'[p] \in {"ready", "failed"}
      /\ \A q \in Files \ {p} : pc'[q] = pc[q]
  BY <1>1, <1>2 DEF Facts, PCs
<1>4. ~l.susp
  BY <1>2 DEF CoreInv, Frozen
<1> DEFINE b == [l EXCEPT !.ddata = TRUE, !.tty = "now"]
           c == [b EXCEPT !.count = @ + 1]
<1>5. /\ Sound(c) /\ c.ddata = TRUE /\ c.tty = "now" /\ c.count = l.count + 1
      /\ c.attached = l.attached /\ c.dead = l.dead /\ c.known = l.known
      /\ c.addr = l.addr /\ c.suspended = l.suspended /\ ~c.susp
      /\ c.active = l.active /\ c.closing = l.closing /\ c.blocked = l.blocked
  BY <1>1, <1>4 DEF Facts, Sound, Typed, Names
<1>6. PICK ok \in BOOLEAN :
        l' = UartStartup(IF c.count = 1 THEN ChangePm(c, "on") ELSE c, ok)
  BY DEF OpenStart, OpenBound, Counted
<1> HIDE DEF c
<1> DEFINE w == IF c.count = 1 THEN ChangePm(c, "on") ELSE c
<1>7. /\ Sound(w) /\ SameUse(c, w) /\ ~w.susp /\ w.known = c.known /\ w.addr = c.addr
  <2>1. CASE w = [c EXCEPT !.pm = "on"]
    BY <1>5, <2>1 DEF Sound, Typed, Names, SameUse
  <2>2. CASE w = c
    BY <1>5, <2>2 DEF SameUse
  <2> QED BY <2>1, <2>2 DEF ChangePm
<1> HIDE DEF w
<1>8. /\ Sound(l') /\ SameUse(w, l') /\ ~l'.susp
      /\ l'.known = w.known /\ l'.addr = w.addr
      /\ l'.known /\ l'.result = "ok" => l'.init
  <2>1. l' = UartStartup(w, ok)
    BY <1>6 DEF w
  <2> QED BY <1>7, <2>1, StartupSound
<1>9. /\ l'.ddata = TRUE /\ l'.tty = "now" /\ l'.count = l.count + 1
      /\ l'.attached = l.attached /\ l'.dead = l.dead /\ l'.known = l.known
      /\ l'.addr = l.addr /\ l'.suspended = l.suspended
      /\ l'.active = l.active /\ l'.closing = l.closing /\ l'.blocked = l.blocked
  BY <1>5, <1>7, <1>8 DEF SameUse
<1>10. Openers' = Openers \cup {p} /\ Blocked' = Blocked /\ Servers' = Servers \cup {p}
       /\ p \notin Openers
  <2>1. Openers' = Openers \cup {p} /\ p \notin Openers
    BY <1>2, <1>3 DEF Openers, CountedPCs
  <2>2. Blocked' = Blocked
    BY <1>2, <1>3 DEF Blocked
  <2> QED BY <1>2, <1>3, <2>1, <2>2 DEF Servers
<1>11. TypeOK' /\ CountIsOpeners' /\ BlockedCounted'
  <2>1. Cardinality(Openers \cup {p}) = Cardinality(Openers) + 1
    BY <1>1, <1>10, Counting DEF Facts
  <2> QED
    BY <1>1, <1>2, <1>3, <1>8, <1>9, <1>10, <2>1, Counters DEF Facts, CoreInv, TypeOK
<1>12. rem.step = "idle"
  BY <1>2 DEF CoreInv, Removal
<1>13. Bound'
  BY <1>2, <1>3, <1>9 DEF CoreInv, Bound, NoneRefused
<1>14. TtyKept' /\ ClosingAlone'
  BY <1>2, <1>3, <1>9 DEF CoreInv, TtyKept, ClosingAlone
<1>15. ServedInv' /\ Removal'
  BY <1>2, <1>8, <1>9, <1>12 DEF CoreInv, ServedInv, Removal
<1>16. (ForSomebody /\ RegionKept /\ Frozen /\ ~stray)'
  BY <1>2, <1>8, <1>9, <1>10 DEF CoreInv, ForSomebody, RegionKept, RegionHeld, Frozen
<1> QED BY <1>8, <1>11, <1>13, <1>14, <1>15, <1>16 DEF CoreInv

(* tty_port_block_til_ready.                                               *)
LEMMA ReadyStep ==
  ASSUME CoreInv, NEW p \in Files, BlockTilReady(p)
  PROVE  CoreInv'
<1>1. Facts
  BY CoreFacts
<1>2. /\ pc[p] = "ready" /\ ~hung[p] /\ UNCHANGED <<hung, region, rem, asleep, stray>>
      /\ l.ddata /\ l.tty = "now" /\ rem.step \notin {"hungup", "gone"}
  BY <1>1 DEF BlockTilReady, CoreInv, Bound, TtyKept, Removal, Facts, Typed
<1>3. ASSUME NEW x \in {"closewait", "open", "blocked"}, pc' = [pc EXCEPT ![p] = x]
      PROVE  /\ pc' \in [Files -> PCs] /\ pc'[p] = x
             /\ \A q \in Files \ {p} : pc'[q] = pc[q]
             /\ Servers' = Servers /\ p \in Servers
             /\ x # "blocked" => Openers' = Openers /\ Blocked' = Blocked
             /\ x = "blocked" => /\ Openers' = Openers \ {p} /\ p \in Openers
                                 /\ Blocked' = Blocked \cup {p} /\ p \notin Blocked
  <2>1. /\ pc' \in [Files -> PCs] /\ pc'[p] = x
        /\ \A q \in Files \ {p} : pc'[q] = pc[q]
    BY <1>1, <1>3 DEF Facts, PCs
  <2>2. /\ x # "blocked" => Openers' = Openers
        /\ x = "blocked" => Openers' = Openers \ {p}
        /\ p \in Openers
    BY <1>2, <1>3, <2>1 DEF Openers, CountedPCs
  <2>3. /\ x # "blocked" => Blocked' = Blocked
        /\ x = "blocked" => Blocked' = Blocked \cup {p}
        /\ p \notin Blocked
    BY <1>2, <1>3, <2>1 DEF Blocked
  <2>4. Servers' = Servers /\ p \in Servers
    BY <1>2, <1>3, <2>1, <2>2 DEF Servers
  <2> QED BY <2>1, <2>2, <2>3, <2>4
<1>4. ASSUME NEW x \in {"closewait", "open", "blocked"}, pc' = [pc EXCEPT ![p] = x],
             Sound(l'), l'.count = Cardinality(Openers'), l'.blocked = Cardinality(Blocked'),
             l'.attached = l.attached, l'.dead = l.dead, l'.known = l.known,
             l'.addr = l.addr, l'.suspended = l.suspended, l'.init = l.init,
             l'.susp = l.susp, l'.closing = l.closing, l'.result = l.result,
             l'.ddata = l.ddata, l'.tty = l.tty, x = "open" => ~l.closing
      PROVE  CoreInv'
  <2>1. TypeOK' /\ CountIsOpeners' /\ BlockedCounted'
    BY <1>1, <1>2, <1>3, <1>4, Counters DEF Facts, CoreInv, TypeOK
  <2>2. Bound'
    BY <1>2, <1>3, <1>4 DEF CoreInv, Bound
  <2>3. TtyKept' /\ ClosingAlone'
    BY <1>2, <1>3, <1>4 DEF CoreInv, TtyKept, ClosingAlone
  <2>4. ServedInv' /\ Removal'
    BY <1>2, <1>3, <1>4 DEF CoreInv, ServedInv, Removal
  <2>5. (RegionKept /\ Frozen /\ ~stray)'
    BY <1>2, <1>4 DEF CoreInv, RegionKept, RegionHeld, Frozen
  <2>6. p \in Servers'
    BY <1>3, <1>4
  <2>7. ForSomebody'
    BY <2>6 DEF ForSomebody
  <2> QED BY <1>4, <2>1, <2>2, <2>3, <2>4, <2>5, <2>7 DEF CoreInv
<1>5. CASE l.closing /\ pc' = [pc EXCEPT ![p] = "closewait"] /\ UNCHANGED l
  <2>1. Openers' = Openers /\ Blocked' = Blocked
    BY <1>3, <1>5
  <2> QED BY <1>1, <1>4, <1>5, <2>1 DEF Facts
<1>6. CASE ~l.closing /\ pc' = [pc EXCEPT ![p] = "open"] /\ l' = [l EXCEPT !.active = TRUE]
  <2>1. Openers' = Openers /\ Blocked' = Blocked
    BY <1>3, <1>6
  <2>2. /\ Sound(l') /\ l'.count = l.count /\ l'.blocked = l.blocked
        /\ l'.attached = l.attached /\ l'.dead = l.dead /\ l'.known = l.known
        /\ l'.addr = l.addr /\ l'.suspended = l.suspended /\ l'.init = l.init
        /\ l'.susp = l.susp /\ l'.closing = l.closing /\ l'.result = l.result
        /\ l'.ddata = l.ddata /\ l'.tty = l.tty
    BY <1>1, <1>6 DEF Facts, Sound, Typed, Names
  <2> QED BY <1>1, <1>4, <1>6, <2>1, <2>2 DEF Facts
<1>7. CASE /\ ~l.closing /\ pc' = [pc EXCEPT ![p] = "blocked"]
           /\ l' = [l EXCEPT !.count = @ - 1, !.blocked = @ + 1]
  <2>1. /\ Openers' = Openers \ {p} /\ p \in Openers
        /\ Blocked' = Blocked \cup {p} /\ p \notin Blocked
    BY <1>3, <1>7
  <2>2. /\ Cardinality(Openers \ {p}) = Cardinality(Openers) - 1
        /\ Cardinality(Blocked \cup {p}) = Cardinality(Blocked) + 1
    BY <1>1, <2>1, Counting DEF Facts
  <2>3. /\ Sound(l') /\ l'.count = l.count - 1 /\ l'.blocked = l.blocked + 1
        /\ l'.attached = l.attached /\ l'.dead = l.dead /\ l'.known = l.known
        /\ l'.addr = l.addr /\ l'.suspended = l.suspended /\ l'.init = l.init
        /\ l'.susp = l.susp /\ l'.closing = l.closing /\ l'.result = l.result
        /\ l'.ddata = l.ddata /\ l'.tty = l.tty
    BY <1>1, <1>7 DEF Facts, Sound, Typed, Names
  <2> QED BY <1>1, <1>4, <1>7, <2>1, <2>2, <2>3 DEF Facts
<1> QED BY <1>5, <1>6, <1>7 DEF BlockTilReady

(* The wait for the carrier ends.                                          *)
LEMMA BlockedStep ==
  ASSUME CoreInv, NEW p \in Files, BlockedOver(p)
  PROVE  CoreInv'
<1>1. Facts
  BY CoreFacts
<1>2. pc[p] = "blocked" /\ UNCHANGED <<hung, region, rem, asleep, stray>> /\ p \in Blocked
  BY DEF BlockedOver, Blocked
<1>3. PICK ok \in BOOLEAN :
        /\ ok => ~hung[p] /\ l.init /\ ~l.closing
        /\ pc' = [pc EXCEPT ![p] = IF ok THEN "open" ELSE "failed"]
        /\ l' = [l EXCEPT !.count = IF hung[p] THEN @ ELSE @ + 1, !.blocked = @ - 1,
                          !.active = @ \/ ok]
  BY DEF BlockedOver
<1> DEFINE n == IF hung[p] THEN l.count ELSE l.count + 1
           act == l.active \/ ok
<1>4. act \in BOOLEAN
  BY <1>1 DEF Facts, Typed
<1>5. l' = [l EXCEPT !.count = n, !.blocked = @ - 1, !.active = act]
  BY <1>3
<1> HIDE DEF n, act
<1>6. /\ Sound(l') /\ l'.count = n /\ l'.blocked = l.blocked - 1 /\ l'.active = act
      /\ l'.attached = l.attached /\ l'.dead = l.dead /\ l'.known = l.known
      /\ l'.addr = l.addr /\ l'.suspended = l.suspended /\ l'.init = l.init
      /\ l'.susp = l.susp /\ l'.closing = l.closing /\ l'.result = l.result
      /\ l'.ddata = l.ddata /\ l'.tty = l.tty
  BY <1>1, <1>4, <1>5 DEF Facts, Sound, Typed, Names
<1>7. /\ pc' \in [Files -> PCs] /\ pc'[p] = (IF ok THEN "open" ELSE "failed")
      /\ \A q \in Files \ {p} : pc'[q] = pc[q]
  BY <1>1, <1>3 DEF Facts, PCs
<1>8. /\ hung[p] => Openers' = Openers
      /\ ~hung[p] => Openers' = Openers \cup {p} /\ p \notin Openers
      /\ Blocked' = Blocked \ {p} /\ Servers' = Servers
      /\ ~hung[p] => p \in Servers'
  <2>1. /\ hung[p] => Openers' = Openers
        /\ ~hung[p] => Openers' = Openers \cup {p} /\ p \notin Openers
    BY <1>2, <1>7 DEF Openers, CountedPCs
  <2>2. Blocked' = Blocked \ {p}
    BY <1>2, <1>7 DEF Blocked
  <2> QED BY <1>2, <1>7, <2>1, <2>2 DEF Servers
<1>9. TypeOK' /\ CountIsOpeners' /\ BlockedCounted'
  <2>1. Cardinality(Blocked \ {p}) = Cardinality(Blocked) - 1
    BY <1>1, <1>2, Counting DEF Facts
  <2>2. ~hung[p] => Cardinality(Openers \cup {p}) = Cardinality(Openers) + 1
    BY <1>1, <1>8, Counting DEF Facts
  <2>3. l'.count = Cardinality(Openers') /\ l'.blocked = Cardinality(Blocked')
    BY <1>1, <1>6, <1>8, <2>1, <2>2 DEF Facts, n
  <2> QED BY <1>1, <1>2, <1>6, <1>7, <2>3, Counters DEF Facts, CoreInv, TypeOK
<1>10. Bound'
  BY <1>2, <1>6, <1>7 DEF CoreInv, Bound
<1>11. TtyKept' /\ ClosingAlone'
  BY <1>2, <1>3, <1>6, <1>7 DEF CoreInv, TtyKept, ClosingAlone, act
<1>12. ServedInv' /\ Removal'
  BY <1>2, <1>3, <1>6, <1>7, <1>8 DEF CoreInv, ServedInv, Removal
<1>13. (ForSomebody /\ RegionKept /\ Frozen /\ ~stray)'
  BY <1>2, <1>3, <1>6, <1>8 DEF CoreInv, ForSomebody, RegionKept, RegionHeld, Frozen, act
<1> QED BY <1>6, <1>9, <1>10, <1>11, <1>12, <1>13 DEF CoreInv

-----------------------------------------------------------------------------
(* uart_close.                                                             *)
LEMMA LeaveSound ==
  ASSUME NEW s, Sound(s), NEW p \in Files, NEW t, t = Leave(p, s)
  PROVE  /\ Sound(t)
         /\ t.attached = s.attached /\ t.dead = s.dead /\ t.known = s.known
         /\ t.addr = s.addr /\ t.suspended = s.suspended /\ t.init = s.init
         /\ t.susp = s.susp /\ t.active = s.active /\ t.closing = s.closing
         /\ t.count = s.count /\ t.blocked = s.blocked /\ t.result = s.result
         /\ Present = {p} => ~t.ddata
         /\ Present # {p} => t.ddata = s.ddata /\ t.tty = s.tty
<1>1. CASE Present = {p}
  <2> DEFINE v == IF s.tty = "now" THEN "old" ELSE s.tty
  <2>1. t = [s EXCEPT !.ddata = FALSE, !.ioerr = FALSE, !.tty = v]
    BY <1>1 DEF Leave
  <2>2. v \in {"none", "now", "old"}
    BY DEF Sound, Typed
  <2> HIDE DEF v
  <2> QED BY <1>1, <2>1, <2>2 DEF Sound, Typed, Names
<1>2. CASE Present # {p}
  BY <1>2 DEF Leave
<1> QED BY <1>1, <1>2

(* The files that are present are all but those that are out.              *)
LEMMA PresentFacts ==
  ASSUME NEW p \in Files, pc[p] # "out"
  PROVE  /\ Present \in SUBSET Files /\ p \in Present
         /\ Cardinality(Present) = 1 => Present = {p}
         /\ Present = {p} => Cardinality(Present) = 1 /\ \A q \in Files \ {p} : pc[q] = "out"
<1>1. Present \in SUBSET Files /\ p \in Present
  BY DEF Present
<1>2. Cardinality(Present) = 1 => Present = {p}
  <2>1. /\ Cardinality(Present \ {p}) = Cardinality(Present) - 1
        /\ Cardinality(Present \ {p}) = 0 <=> Present \ {p} = {}
    BY <1>1, Counting
  <2> QED BY <1>1, <2>1
<1>3. Cardinality({p}) = 1
  BY FS_Singleton
<1> QED BY <1>1, <1>2, <1>3 DEF Present

(* A close that is not the last one only takes its file off the count.     *)
LEMMA NotLastStep ==
  ASSUME CoreInv, NEW p \in Files, CloseNotLast(p)
  PROVE  CoreInv'
<1>1. Facts
  BY CoreFacts
<1>2. /\ pc[p] \in {"open", "failed", "refused"} /\ pc' = [pc EXCEPT ![p] = "out"]
      /\ UNCHANGED <<hung, region, rem, asleep, stray>>
      /\ \A q \in Files : pc[q] # "ready"
      /\ ~l.ddata \/ hung[p] \/ Mended > 1
  BY DEF CloseNotLast, TtyLockFree
<1>3. /\ pc' \in [Files -> PCs] /\ pc'[p] = "out"
      /\ \A q \in Files \ {p} : pc'[q] = pc[q]
  BY <1>1, <1>2 DEF Facts, PCs
<1> DEFINE counts == l.ddata /\ ~hung[p]
           m == IF counts THEN [l EXCEPT !.count = Mended - 1] ELSE l
<1>4. /\ counts => /\ Mended = l.count /\ l.count > 1 /\ Present # {p} /\ p \in Openers
      /\ ~counts => p \notin Openers
  <2>1. counts => Mended > 1
    BY <1>2
  <2>2. counts => Cardinality(Present) # 1
    BY <2>1 DEF Mended
  <2>3. counts => Mended = l.count /\ l.count > 1
    BY <2>1, <2>2 DEF Mended
  <2>4. counts => Present # {p}
    BY <1>2, <2>2, PresentFacts
  <2>5. counts => p \in Openers
    BY <1>2 DEF CoreInv, Bound, Openers, CountedPCs
  <2>6. ~counts => p \notin Openers
    BY <1>2 DEF CoreInv, Bound, Openers, CountedPCs
  <2> QED BY <2>3, <2>4, <2>5, <2>6
<1>5. /\ Sound(m)
      /\ counts => m.count = l.count - 1
      /\ ~counts => m.count = l.count
      /\ m.attached = l.attached /\ m.dead = l.dead /\ m.known = l.known
      /\ m.addr = l.addr /\ m.suspended = l.suspended /\ m.init = l.init
      /\ m.susp = l.susp /\ m.active = l.active /\ m.closing = l.closing
      /\ m.blocked = l.blocked /\ m.result = l.result /\ m.ddata = l.ddata
      /\ m.tty = l.tty
  <2>1. CASE counts
    <3>1. m = [l EXCEPT !.count = l.count - 1]
      BY <1>4, <2>1
    <3> HIDE DEF m, counts
    <3> QED BY <1>1, <2>1, <3>1 DEF Facts, Sound, Typed, Names
  <2>2. CASE ~counts
    BY <1>1, <2>2 DEF Facts
  <2> QED BY <2>1, <2>2
<1>6. l' = Leave(p, m)
  BY DEF CloseNotLast
<1> HIDE DEF m
<1>7. /\ Sound(l') /\ l'.count = m.count
      /\ l'.attached = l.attached /\ l'.dead = l.dead /\ l'.known = l.known
      /\ l'.addr = l.addr /\ l'.suspended = l.suspended /\ l'.init = l.init
      /\ l'.susp = l.susp /\ l'.active = l.active /\ l'.closing = l.closing
      /\ l'.blocked = l.blocked /\ l'.result = l.result
      /\ Present = {p} => ~l'.ddata
      /\ Present # {p} => l'.ddata = l.ddata /\ l'.tty = l.tty
  <2>1. /\ Sound(l') /\ l'.count = m.count
        /\ l'.attached = m.attached /\ l'.dead = m.dead /\ l'.known = m.known
        /\ l'.addr = m.addr /\ l'.suspended = m.suspended /\ l'.init = m.init
        /\ l'.susp = m.susp /\ l'.active = m.active /\ l'.closing = m.closing
        /\ l'.blocked = m.blocked /\ l'.result = m.result
        /\ Present = {p} => ~l'.ddata
        /\ Present # {p} => l'.ddata = m.ddata /\ l'.tty = m.tty
    BY <1>5, <1>6, LeaveSound
  <2> QED BY <1>5, <2>1
<1>8. Openers' = Openers \ {p} /\ Blocked' = Blocked
      /\ Servers' = Servers \ {p}
  <2>1. Openers' = Openers \ {p}
    BY <1>2, <1>3 DEF Openers, CountedPCs
  <2>2. Blocked' = Blocked
    BY <1>2, <1>3 DEF Blocked
  <2> QED BY <1>2, <1>3, <2>1, <2>2 DEF Servers
<1>9. TypeOK' /\ CountIsOpeners' /\ BlockedCounted'
  <2>1. p \in Openers => Cardinality(Openers \ {p}) = Cardinality(Openers) - 1
    BY <1>1, Counting DEF Facts
  <2>2. p \notin Openers => Openers \ {p} = Openers
    OBVIOUS
  <2>3. l'.count = Cardinality(Openers')
    BY <1>1, <1>4, <1>5, <1>7, <1>8, <2>1, <2>2 DEF Facts
  <2> QED BY <1>1, <1>2, <1>3, <1>7, <1>8, <2>3, Counters DEF Facts, CoreInv, TypeOK
<1>10. l.init \/ l.susp \/ l.active => Servers \ {p} # {}
  <2>1. CASE counts
    <3>1. /\ Cardinality(Openers \ {p}) = Cardinality(Openers) - 1
          /\ Cardinality(Openers \ {p}) = 0 <=> Openers \ {p} = {}
      <4>1. Openers \ {p} \in SUBSET Files
        BY <1>1 DEF Facts
      <4> QED BY <1>1, <1>4, <2>1, <4>1, Counting DEF Facts
    <3>2. Openers \ {p} # {}
      BY <1>1, <1>4, <2>1, <3>1 DEF Facts
    <3> QED BY <3>2 DEF Servers
  <2>2. CASE ~counts
    <3>1. p \notin Servers
      BY <1>2, <1>4, <2>2 DEF Servers
    <3> QED BY <3>1 DEF CoreInv, ForSomebody
  <2> QED BY <2>1, <2>2
<1>11. Bound'
  <2>1. CASE Present = {p}
    BY <1>2, <1>3, <1>7, <2>1, PresentFacts DEF Bound
  <2>2. CASE Present # {p}
    BY <1>2, <1>3, <1>7, <2>2 DEF CoreInv, Bound
  <2> QED BY <2>1, <2>2
<1>12. TtyKept' /\ ClosingAlone'
  <2>1. ClosingAlone'
    BY <1>2, <1>3, <1>7 DEF CoreInv, ClosingAlone
  <2>2. CASE Present = {p}
    <3>1. \A q \in Files : pc'[q] = "out"
      BY <1>2, <1>3, <2>2, PresentFacts
    <3>2. Servers' = {}
      BY <3>1 DEF Servers, Openers, CountedPCs
    <3> QED BY <1>7, <1>8, <1>10, <2>1, <3>1, <3>2 DEF TtyKept
  <2>3. CASE Present # {p}
    BY <1>2, <1>3, <1>7, <2>1, <2>3 DEF CoreInv, TtyKept
  <2> QED BY <2>2, <2>3
<1>13. ServedInv' /\ Removal'
  BY <1>2, <1>3, <1>7, <1>8 DEF CoreInv, ServedInv, Removal
<1>14. (ForSomebody /\ RegionKept /\ Frozen /\ ~stray)'
  BY <1>2, <1>7, <1>8, <1>10 DEF CoreInv, ForSomebody, RegionKept, RegionHeld, Frozen
<1> QED BY <1>7, <1>9, <1>11, <1>12, <1>13, <1>14 DEF CoreInv

(* The last close was the only opener, so the count it clears is 1.        *)
LEMMA LastStep ==
  ASSUME Races \subseteq RegionRaces, CoreInv, NEW p \in Files, CloseLast(p)
  PROVE  CoreInv'
<1>1. Facts
  BY CoreFacts
<1>2. /\ pc[p] \in {"open", "failed", "refused"} /\ pc' = [pc EXCEPT ![p] = "draining"]
      /\ UNCHANGED <<hung, region, rem, asleep, stray>>
      /\ \A q \in Files : pc[q] # "ready"
      /\ l.ddata /\ ~hung[p] /\ Mended <= 1 /\ ~l.closing
  BY <1>1 DEF CloseLast, TtyLockFree, Race, Facts, Typed, RegionRaces
<1>3. /\ pc' \in [Files -> PCs] /\ pc'[p] = "draining"
      /\ \A q \in Files \ {p} : pc'[q] = pc[q]
  BY <1>1, <1>2 DEF Facts, PCs
<1>4. /\ Sound(l') /\ l'.count = 0 /\ l'.closing = TRUE
      /\ l'.attached = l.attached /\ l'.dead = l.dead /\ l'.known = l.known
      /\ l'.addr = l.addr /\ l'.suspended = l.suspended /\ l'.init = l.init
      /\ l'.susp = l.susp /\ l'.active = l.active
      /\ l'.blocked = l.blocked /\ l'.result = l.result /\ l'.ddata = l.ddata
      /\ l'.tty = l.tty
  <2>1. l' = [l EXCEPT !.count = 0, !.closing = TRUE]
    BY DEF CloseLast
  <2> QED BY <1>1, <2>1 DEF Facts, Sound, Typed, Names
<1>5. Openers = {p}
  <2>1. p \in Openers
    BY <1>2 DEF CoreInv, Bound, Openers, CountedPCs
  <2>2. CASE Cardinality(Present) = 1
    <3>1. \A q \in Files \ {p} : pc[q] = "out"
      BY <1>2, <2>2, PresentFacts
    <3> QED BY <2>1, <3>1 DEF Openers, CountedPCs
  <2>3. CASE Cardinality(Present) # 1
    <3>1. l.count <= 1
      BY <1>2, <2>3 DEF Mended
    <3>2. Openers \ {p} \in SUBSET Files
      BY <1>1 DEF Facts
    <3>3. Cardinality(Openers \ {p}) = Cardinality(Openers) - 1
      BY <1>1, <2>1, Counting DEF Facts
    <3>4. /\ Cardinality(Openers \ {p}) \in 0 .. Cardinality(Files)
          /\ Cardinality(Openers \ {p}) = 0 <=> Openers \ {p} = {}
      BY <3>2, Counting
    <3>5. Cardinality(Openers \ {p}) = 0
      <4>1. Cardinality(Openers) <= 1
        BY <1>1, <3>1 DEF Facts
      <4>2. Cardinality(Openers \ {p}) \in Nat /\ Cardinality(Openers) \in Nat
        BY <1>1, <3>4 DEF Facts
      <4> QED BY <3>3, <4>1, <4>2
    <3>6. Openers \ {p} = {}
      BY <3>4, <3>5
    <3> QED BY <2>1, <3>6
  <2> QED BY <2>2, <2>3
<1>6. Openers' = {} /\ Blocked' = Blocked /\ p \in Servers'
  <2>1. Openers' = {}
    BY <1>2, <1>3, <1>5 DEF Openers, CountedPCs
  <2>2. Blocked' = Blocked
    BY <1>2, <1>3 DEF Blocked
  <2> QED BY <1>3, <2>1, <2>2 DEF Servers
<1>7. TypeOK' /\ CountIsOpeners' /\ BlockedCounted'
  <2>1. l'.count = Cardinality(Openers')
    BY <1>4, <1>6, FS_EmptySet
  <2> QED BY <1>1, <1>2, <1>3, <1>4, <1>6, <2>1, Counters DEF Facts, CoreInv, TypeOK
<1>8. Bound'
  BY <1>2, <1>3, <1>4 DEF CoreInv, Bound
<1>9. \A q \in Files : pc'[q] \in {"open", "asking"} => hung[q]
  BY <1>2, <1>3, <1>6 DEF Openers, CountedPCs
<1>10. TtyKept' /\ ClosingAlone'
  BY <1>2, <1>3, <1>4, <1>9 DEF CoreInv, TtyKept, ClosingAlone
<1>11. rem.step # "gone"
  <2>1. p \in Servers
    BY <1>5 DEF Servers
  <2> QED BY <2>1 DEF CoreInv, Removal
<1>12. ServedInv' /\ Removal'
  BY <1>2, <1>3, <1>4, <1>6, <1>9, <1>11 DEF CoreInv, ServedInv, Removal
<1>13. (ForSomebody /\ RegionKept /\ Frozen /\ ~stray)'
  BY <1>2, <1>4, <1>6 DEF CoreInv, ForSomebody, RegionKept, RegionHeld, Frozen
<1> QED BY <1>4, <1>7, <1>8, <1>10, <1>12, <1>13 DEF CoreInv

(* The end of the last close: nobody has the port open when it goes down.  *)
LEMMA FinishStep ==
  ASSUME CoreInv, NEW p \in Files, CloseFinish(p)
  PROVE  CoreInv'
<1>1. Facts
  BY CoreFacts
<1>2. /\ pc[p] = "draining" /\ pc' = [pc EXCEPT ![p] = "out"] /\ l' = Leave(p, CloseDone(l))
      /\ UNCHANGED <<hung, region, rem, asleep>> /\ stray' = (stray \/ ~l.attached)
      /\ \A q \in Files : pc[q] # "ready"
  BY DEF CloseFinish, TtyLockFree
<1>3. /\ pc' \in [Files -> PCs] /\ pc'[p] = "out"
      /\ \A q \in Files \ {p} : pc'[q] = pc[q]
  BY <1>1, <1>2 DEF Facts, PCs
<1>4. ~l.suspended \/ asleep
  BY DEF CoreInv, Frozen
<1> DEFINE d == UartShutdown(l, TRUE)
           e == [d EXCEPT !.tty = "none"]
           w == IF l.blocked = 0 THEN ChangePm(e, "off") ELSE e
           c == [w EXCEPT !.active = FALSE, !.closing = FALSE]
<1>5. /\ Sound(d) /\ SameUse(l, d) /\ ~d.init /\ ~d.susp
      /\ d.known = l.known /\ d.addr = l.addr /\ d.result = l.result
  BY <1>1, ShutdownSound DEF Facts
<1>6. CloseDone(l) = c
  BY Zenon DEF CloseDone
<1> HIDE DEF d
<1>7. /\ Sound(c) /\ c.tty = "none" /\ ~c.init /\ ~c.susp /\ ~c.active /\ ~c.closing
      /\ c.known = d.known /\ c.addr = d.addr /\ c.attached = d.attached /\ c.dead = d.dead
      /\ c.suspended = d.suspended /\ c.ddata = d.ddata /\ c.count = d.count
      /\ c.blocked = d.blocked
  <2>1. /\ Sound(e) /\ e.tty = "none" /\ ~e.init /\ ~e.susp
        /\ e.known = d.known /\ e.addr = d.addr /\ e.attached = d.attached
        /\ e.dead = d.dead /\ e.suspended = d.suspended /\ e.ddata = d.ddata
        /\ e.count = d.count /\ e.blocked = d.blocked
    BY <1>5 DEF Sound, Typed, Names
  <2>2. w = e \/ w = [e EXCEPT !.pm = "off"]
    BY DEF ChangePm
  <2> HIDE DEF e, w
  <2>3. /\ Sound(w) /\ w.tty = "none" /\ ~w.init /\ ~w.susp
        /\ w.known = e.known /\ w.addr = e.addr /\ w.attached = e.attached
        /\ w.dead = e.dead /\ w.suspended = e.suspended /\ w.ddata = e.ddata
        /\ w.count = e.count /\ w.blocked = e.blocked
    BY <2>1, <2>2 DEF Sound, Typed, Names
  <2>4. /\ Sound(c) /\ c.tty = "none" /\ ~c.init /\ ~c.susp /\ ~c.active /\ ~c.closing
        /\ c.known = w.known /\ c.addr = w.addr /\ c.attached = w.attached
        /\ c.dead = w.dead /\ c.suspended = w.suspended /\ c.ddata = w.ddata
        /\ c.count = w.count /\ c.blocked = w.blocked
    BY <2>3 DEF Sound, Typed, Names
  <2> QED BY <2>1, <2>3, <2>4
<1> HIDE DEF c
<1>8. /\ Sound(l') /\ ~l'.init /\ ~l'.susp /\ ~l'.active /\ ~l'.closing
      /\ l'.known = l.known /\ l'.addr = l.addr /\ l'.attached = l.attached
      /\ l'.dead = l.dead /\ l'.suspended = l.suspended
      /\ l'.count = l.count /\ l'.blocked = l.blocked
      /\ Present = {p} => ~l'.ddata
      /\ Present # {p} => l'.ddata = l.ddata
  <2>1. /\ Sound(l')
        /\ l'.attached = c.attached /\ l'.dead = c.dead /\ l'.known = c.known
        /\ l'.addr = c.addr /\ l'.suspended = c.suspended /\ l'.init = c.init
        /\ l'.susp = c.susp /\ l'.active = c.active /\ l'.closing = c.closing
        /\ l'.count = c.count /\ l'.blocked = c.blocked
        /\ Present = {p} => ~l'.ddata
        /\ Present # {p} => l'.ddata = c.ddata
    BY <1>2, <1>6, <1>7, LeaveSound
  <2> QED BY <1>5, <1>7, <2>1 DEF SameUse
<1>9. Openers' = Openers /\ Blocked' = Blocked /\ Servers' = Servers \ {p} /\ p \in Servers
  <2>1. Openers' = Openers
    BY <1>2, <1>3 DEF Openers, CountedPCs
  <2>2. Blocked' = Blocked
    BY <1>2, <1>3 DEF Blocked
  <2>3. p \in Servers
    BY <1>2 DEF Servers
  <2>4. p \notin Openers
    BY <1>2 DEF Openers, CountedPCs
  <2> QED BY <1>2, <1>3, <2>1, <2>2, <2>3, <2>4 DEF Servers
<1>10. rem.step # "gone" /\ ~stray'
  BY <1>1, <1>2, <1>9 DEF CoreInv, Removal, Facts, Typed
<1>11. TypeOK' /\ CountIsOpeners' /\ BlockedCounted'
  BY <1>1, <1>2, <1>3, <1>8, <1>9, <1>10, Counters DEF Facts, CoreInv, TypeOK
<1>12. Bound'
  <2>1. CASE Present = {p}
    BY <1>2, <1>3, <1>8, <2>1, PresentFacts DEF Bound
  <2>2. CASE Present # {p}
    BY <1>2, <1>3, <1>8, <2>2 DEF CoreInv, Bound
  <2> QED BY <2>1, <2>2
<1>13. \A q \in Files : pc'[q] # "ready" /\ pc'[q] # "draining" /\ (pc'[q] \in {"open", "asking"} => hung[q])
  BY <1>2, <1>3 DEF CoreInv, ClosingAlone
<1>14. TtyKept' /\ ClosingAlone'
  BY <1>2, <1>8, <1>13 DEF TtyKept, ClosingAlone
<1>15. ServedInv' /\ Removal'
  BY <1>2, <1>8, <1>10, <1>13 DEF CoreInv, ServedInv, Removal
<1>16. (ForSomebody /\ RegionKept /\ Frozen)'
  BY <1>2, <1>8 DEF CoreInv, ForSomebody, RegionKept, RegionHeld, Frozen
<1> QED BY <1>8, <1>10, <1>11, <1>12, <1>14, <1>15, <1>16 DEF CoreInv

-----------------------------------------------------------------------------
(* tty_vhangup, on its own or in the course of a removal.                  *)
LEMMA VhangupStep ==
  ASSUME Races \subseteq RegionRaces, CoreInv, Vhangup, UNCHANGED <<pc, region, asleep>>,
         rem' \in [step : Steps, next : {"card", "isa"}],
         rem' = rem \/ (rem.step = "dead" /\ ~asleep /\ rem'.step = "hungup")
  PROVE  CoreInv'
<1>1. Facts
  BY CoreFacts
<1>2. /\ \A p \in Files : pc[p] # "ready"
      /\ ~l.active => l.count + l.blocked = 0
      /\ l' = UartHangup(l)
      /\ hung' = [p \in Files |-> hung[p] \/ (l.tty = "now" /\ pc[p] # "out")]
      /\ stray' = (stray \/ (l.active /\ ~l.attached))
  BY <1>1 DEF Vhangup, TtyLockFree, Users, Race, Facts, RegionRaces
<1>3. l.active => l.tty = "now"
  BY DEF CoreInv, TtyKept
<1>4. /\ hung' \in [Files -> BOOLEAN]
      /\ \A p \in Files : hung[p] => hung'[p]
      /\ l.tty = "now" => \A p \in Files : pc[p] # "out" => hung'[p]
  BY <1>2 DEF Facts
<1>5. ~l.active => Openers = {} /\ Blocked = {} /\ l' = l
  <2>1. ~l.active => l.count = 0 /\ l.blocked = 0
    BY <1>1, <1>2 DEF Facts
  <2>2. ~l.active => Openers = {} /\ Blocked = {}
    BY <1>1, <2>1, Counting DEF Facts
  <2> QED BY <1>2, <2>2 DEF UartHangup
<1>6. /\ Sound(l') /\ l'.attached = l.attached /\ l'.dead = l.dead /\ l'.known = l.known
      /\ l'.addr = l.addr /\ l'.suspended = l.suspended /\ l'.closing = l.closing
      /\ l'.blocked = l.blocked /\ l'.ddata = l.ddata
      /\ l'.count = 0 /\ ~l'.active /\ (l'.init => l.init) /\ (l'.susp => l.susp)
      /\ l.active => ~l'.init /\ ~l'.susp
      /\ l'.tty = "now" => l.tty = "now"
  <2>1. CASE l.active
    <3> DEFINE d == UartShutdown(l, TRUE)
    <3>1. /\ Sound(d) /\ SameUse(l, d) /\ ~d.init /\ ~d.susp
          /\ d.known = l.known /\ d.addr = l.addr
      BY <1>1, ShutdownSound DEF Facts
    <3>2. l' = [d EXCEPT !.count = 0, !.active = FALSE, !.tty = "none"]
      BY <1>2, <2>1 DEF UartHangup
    <3> HIDE DEF d
    <3>3. /\ Sound(l') /\ l'.count = 0 /\ ~l'.active /\ l'.tty = "none"
          /\ l'.init = d.init /\ l'.susp = d.susp /\ l'.known = d.known
          /\ l'.addr = d.addr /\ l'.attached = d.attached /\ l'.dead = d.dead
          /\ l'.suspended = d.suspended /\ l'.closing = d.closing
          /\ l'.blocked = d.blocked /\ l'.ddata = d.ddata
      BY <3>1, <3>2 DEF Sound, Typed, Names
    <3> QED BY <3>1, <3>3 DEF SameUse
  <2>2. CASE ~l.active
    BY <1>1, <1>2, <1>5, <2>2 DEF Facts
  <2> QED BY <2>1, <2>2
<1>7. Openers' = {} /\ Blocked' = Blocked /\ Servers' \subseteq Servers
  <2>1. Blocked' = Blocked
    BY DEF Blocked
  <2>2. Openers' \subseteq Openers
    BY <1>4 DEF Openers
  <2>3. l.tty = "now" => Openers' = {}
    BY <1>4 DEF Openers, CountedPCs
  <2>4. Openers' = {}
    BY <1>3, <1>5, <2>2, <2>3
  <2> QED BY <1>4, <2>1, <2>2, <2>4 DEF Servers
<1>8. stray' = FALSE
  <2>1. l.active => Servers # {}
    BY DEF CoreInv, ForSomebody
  <2>2. l.active => l.attached
    BY <2>1 DEF CoreInv, Removal
  <2> QED BY <1>2, <2>2 DEF CoreInv
<1>9. TypeOK' /\ CountIsOpeners' /\ BlockedCounted'
  <2>1. l'.count = Cardinality(Openers')
    BY <1>6, <1>7, FS_EmptySet
  <2> QED BY <1>1, <1>4, <1>6, <1>7, <1>8, <2>1, Counters DEF Facts, CoreInv, TypeOK
<1>10. \A p \in Files : pc[p] \in {"open", "asking"} => hung'[p]
  BY <1>4 DEF CoreInv, TtyKept
<1>11. (Bound /\ TtyKept /\ ClosingAlone /\ ServedInv)'
  <2>1. Bound'
    BY <1>2, <1>4, <1>6 DEF CoreInv, Bound
  <2>2. TtyKept'
    <3>1. CASE l.active
      BY <1>2, <1>6, <1>10, <3>1 DEF TtyKept
    <3>2. CASE ~l.active
      BY <1>2, <1>5, <1>10, <3>2 DEF CoreInv, TtyKept
    <3> QED BY <3>1, <3>2
  <2>3. ClosingAlone'
    BY <1>6, <1>10 DEF CoreInv, ClosingAlone
  <2>4. ServedInv'
    BY <1>2, <1>10 DEF ServedInv
  <2> QED BY <2>1, <2>2, <2>3, <2>4
<1>12. ForSomebody'
  <2>1. CASE l.active
    BY <1>6, <2>1 DEF ForSomebody
  <2>2. CASE ~l.active
    <3>1. Servers = {p \in Files : pc[p] = "draining"}
      BY <1>5, <2>2 DEF Servers, Blocked
    <3>2. Servers \subseteq Servers'
      BY <3>1 DEF Servers
    <3> QED BY <1>6, <3>2 DEF CoreInv, ForSomebody
  <2> QED BY <2>1, <2>2
<1>13. (RegionKept /\ Frozen)'
  BY <1>6 DEF CoreInv, RegionKept, RegionHeld, Frozen
<1>14. Removal'
  <2>1. CASE rem' = rem
    BY <1>2, <1>6, <1>7, <1>10, <2>1 DEF CoreInv, Removal
  <2>2. CASE rem.step = "dead" /\ rem'.step = "hungup"
    BY <1>2, <1>5, <1>6, <1>7, <1>10, <2>2 DEF CoreInv, Removal
  <2> QED BY <2>1, <2>2
<1> QED BY <1>6, <1>8, <1>9, <1>11, <1>12, <1>13, <1>14 DEF CoreInv

(* The hang-up of a removal, or none for a line without a tty.             *)
LEMMA RemoveHangUpStep ==
  ASSUME Races \subseteq RegionRaces, CoreInv, RemoveHangUp
  PROVE  CoreInv'
<1>1. Facts
  BY CoreFacts
<1>2. /\ rem.step = "dead" /\ ~asleep /\ UNCHANGED <<pc, region, asleep>>
      /\ rem' = [rem EXCEPT !.step = "hungup"]
  BY DEF RemoveHangUp
<1>3. rem' \in [step : Steps, next : {"card", "isa"}] /\ rem'.step = "hungup"
  BY <1>2 DEF CoreInv, TypeOK, Steps
<1>4. CASE Vhangup
  BY <1>2, <1>3, <1>4, VhangupStep
<1>5. CASE l.tty = "none" /\ UNCHANGED <<l, hung, stray>>
  <2>1. /\ \A p \in Files : pc[p] # "ready" /\ (pc[p] \in {"open", "asking"} => hung[p])
        /\ ~l.init
    BY <1>5 DEF CoreInv, TtyKept
  <2>2. Openers' = Openers /\ Blocked' = Blocked /\ Servers' = Servers
    BY <1>2, <1>5 DEF Openers, Blocked, Servers
  <2>3. TypeOK' /\ CountIsOpeners' /\ BlockedCounted'
    BY <1>1, <1>2, <1>3, <1>5, <2>2, Counters DEF Facts, CoreInv, TypeOK
  <2>4. (Bound /\ TtyKept /\ ClosingAlone /\ ServedInv)'
    BY <1>2, <1>5, <2>1 DEF CoreInv, Bound, TtyKept, ClosingAlone, ServedInv
  <2>5. (ForSomebody /\ RegionKept /\ Frozen /\ ~stray)' /\ Sound(l')
    BY <1>2, <1>5, <2>2 DEF CoreInv, ForSomebody, RegionKept, RegionHeld, Frozen
  <2>6. Removal'
    BY <1>2, <1>3, <1>5, <2>1, <2>2 DEF CoreInv, Removal
  <2> QED BY <2>3, <2>4, <2>5, <2>6 DEF CoreInv
<1> QED BY <1>4, <1>5 DEF RemoveHangUp

-----------------------------------------------------------------------------
(* uart_set_info and uart_do_autoconfig.                                   *)
LEMMA AnsweredStep ==
  ASSUME Races \subseteq RegionRaces, CoreInv, NEW p \in Files, Asking(p),
         NEW starts \in BOOLEAN, Answered(p, l', starts), Sound(l'), SameUse(l, l'), ~l'.susp,
         l'.known /\ l'.result = "ok" => l'.init,
         RegionKept', region' \in [Addrs -> {"free", "ours", "other"}]
  PROVE  CoreInv'
<1>1. Facts
  BY CoreFacts
<1>2. /\ pc[p] = "asking" /\ ~asleep /\ pc' = [pc EXCEPT ![p] = "open"]
      /\ UNCHANGED <<hung, rem, asleep>>
      /\ hung[p] /\ l'.init => l.init
      /\ stray' = (stray \/ (~l.attached /\ (l.init \/ starts)))
  BY DEF Asking, Answered, Race, RegionRaces
<1>3. stray' = FALSE /\ l.attached /\ rem.step # "gone"
  BY <1>2 DEF CoreInv, Removal
<1>4. /\ pc' \in [Files -> PCs] /\ pc'[p] = "open"
      /\ \A q \in Files \ {p} : pc'[q] = pc[q]
  BY <1>1, <1>2 DEF Facts, PCs
<1>5. /\ Openers' = Openers /\ Blocked' = Blocked /\ Servers' = Servers
      /\ hung[p] \/ p \in Servers
  <2>1. Openers' = Openers
    BY <1>2, <1>4 DEF Openers, CountedPCs
  <2>2. Blocked' = Blocked
    BY <1>2, <1>4 DEF Blocked
  <2>3. hung[p] \/ p \in Openers
    BY <1>2 DEF Openers, CountedPCs
  <2> QED BY <1>2, <1>4, <2>1, <2>2, <2>3 DEF Servers
<1>6. TypeOK' /\ CountIsOpeners' /\ BlockedCounted'
  BY <1>1, <1>2, <1>3, <1>4, <1>5, Counters DEF Facts, CoreInv, TypeOK, SameUse
<1>7. Bound' /\ ClosingAlone' /\ ServedInv'
  BY <1>2, <1>4 DEF CoreInv, Bound, ClosingAlone, ServedInv, SameUse
<1>8. TtyKept'
  BY <1>2, <1>4 DEF CoreInv, TtyKept, SameUse
<1>9. ForSomebody' /\ Frozen'
  BY <1>2, <1>5 DEF CoreInv, ForSomebody, Frozen, SameUse
<1>10. Removal'
  BY <1>2, <1>3, <1>4, <1>5 DEF CoreInv, Removal, SameUse
<1> QED BY <1>3, <1>6, <1>7, <1>8, <1>9, <1>10 DEF CoreInv

(* The regions: what is left when the old address is released, and what a  *)
(* claim does.                                                             *)
LEMMA Released ==
  ASSUME CoreInv, NEW r,
         r = ReleaseOld(l, region) \/ r \in Regrab(ReleaseOld(l, region), l.addr)
  PROVE  /\ r \in [Addrs -> {"free", "ours", "other"}]
         /\ Races = {} => \A y \in Addrs : r[y] # "ours"
<1> DEFINE q == ReleaseOld(l, region)
<1>1. /\ q \in [Addrs -> {"free", "ours", "other"}]
      /\ Races = {} => \A y \in Addrs : q[y] # "ours"
  BY DEF ReleaseOld, ReleasePort, CoreInv, TypeOK, RegionKept, RegionHeld
<1> HIDE DEF q
<1>2. r = q \/ r = [q EXCEPT ![l.addr] = "other"]
  BY DEF Regrab, q
<1> QED BY <1>1, <1>2

(* A claim gives the port an address that was free and no other.           *)
LEMMA Requested ==
  ASSUME NEW r \in [Addrs -> {"free", "ours", "other"}], \A y \in Addrs : r[y] # "ours",
         NEW x \in Addrs, NEW q, q = RequestPort(r, x)
  PROVE  /\ q \in [Addrs -> {"free", "ours", "other"}]
         /\ \A y \in Addrs : q[y] = "ours" <=> CanRequest(r, x) /\ y = x
BY DEF RequestPort, CanRequest

(* TIOCSSERIAL with the same port and perhaps another irq.                 *)
LEMMA SetFlagsStep ==
  ASSUME Races \subseteq RegionRaces, CoreInv, NEW p \in Files, SetFlags(p) \/ SetIrq(p)
  PROVE  CoreInv'
<1>1. Facts
  BY CoreFacts
<1>2. Asking(p) /\ region' = region /\ Answered(p, l', l.known) /\ l.known \in BOOLEAN
  BY <1>1 DEF SetFlags, SetIrq, Answered, Facts, Typed
<1>3. ~l.susp
  BY <1>2 DEF CoreInv, Frozen, Asking
<1>4. PICK ok \in BOOLEAN, d \in {l, UartShutdown(l, TRUE)} : l' = CheckAndExit(d, ok)
  BY DEF SetFlags, SetIrq, Answered
<1>5. /\ Sound(d) /\ SameUse(l, d) /\ ~d.susp /\ d.known = l.known /\ d.addr = l.addr
  <2>1. CASE d = l
    BY <1>1, <1>3, <2>1 DEF SameUse, Facts
  <2>2. CASE d = UartShutdown(l, TRUE)
    BY <1>1, <2>2, ShutdownSound DEF Facts
  <2> QED BY <2>1, <2>2
<1>6. /\ Sound(l') /\ SameUse(d, l') /\ ~l'.susp /\ l'.known = d.known /\ l'.addr = d.addr
      /\ l'.known /\ l'.result = "ok" => l'.init
  BY <1>4, <1>5, CheckSound
<1>7. SameUse(l, l') /\ RegionKept'
  BY <1>2, <1>5, <1>6 DEF SameUse, CoreInv, RegionKept, RegionHeld
<1> QED BY <1>2, <1>6, <1>7, AnsweredStep DEF CoreInv, TypeOK

(* TIOCSSERIAL with another address or type, or with the old one restored. *)
LEMMA SetPortStep ==
  ASSUME Races \subseteq RegionRaces, CoreInv, NEW p \in Files, SetPort(p)
  PROVE  CoreInv'
<1>1. Facts
  BY CoreFacts
<1>2. Asking(p)
  BY DEF SetPort
<1> DEFINE d == UartShutdown(l, TRUE)
<1>3. PICK x \in Addrs, known \in BOOLEAN, ok \in BOOLEAN,
           r \in Regrab(ReleaseOld(l, region), l.addr) :
        \/ /\ Races = {} /\ known => CanRequest(r, x)
           /\ Answered(p, CheckAndExit([d EXCEPT !.addr = x, !.known = known], ok), known)
           /\ region' = IF known THEN RequestPort(r, x) ELSE r
        \/ /\ Answered(p, Restored(d, r), FALSE)
           /\ region' = RequestPort(r, l.addr)
  BY DEF SetPort, Race, RegionRaces
<1>4. /\ r \in [Addrs -> {"free", "ours", "other"}]
      /\ Races = {} => \A y \in Addrs : r[y] # "ours"
  BY Released
<1>5. /\ Sound(d) /\ SameUse(l, d) /\ ~d.init /\ ~d.susp
      /\ d.known = l.known /\ d.addr = l.addr
  BY <1>1, ShutdownSound DEF Facts
<1> HIDE DEF d
<1>6. CASE /\ Races = {} /\ known => CanRequest(r, x)
           /\ Answered(p, CheckAndExit([d EXCEPT !.addr = x, !.known = known], ok), known)
           /\ region' = IF known THEN RequestPort(r, x) ELSE r
  <2> DEFINE e == [d EXCEPT !.addr = x, !.known = known]
  <2>0. e = [d EXCEPT !.addr = x, !.known = known]
    OBVIOUS
  <2>6. l' = CheckAndExit(e, ok) /\ Answered(p, l', known)
    BY <1>6 DEF Answered
  <2> HIDE DEF e
  <2>1. /\ Sound(e) /\ SameUse(d, e) /\ ~e.susp /\ e.known = known /\ e.addr = x
    <3>1. /\ Sound(e) /\ SameUse(d, e) /\ e.init = d.init /\ e.susp = d.susp
          /\ e.known = known /\ e.addr = x /\ e.result = d.result
      BY <1>5, <2>0 DEF SameUse, Sound, Typed, Names
    <3> QED BY <1>5, <3>1
  <2>2. /\ Sound(l') /\ SameUse(e, l') /\ ~l'.susp /\ l'.known = known /\ l'.addr = x
        /\ l'.known /\ l'.result = "ok" => l'.init
    <3> QED BY <2>1, <2>6, CheckSound
  <2>3. SameUse(l, l')
    BY <1>5, <2>1, <2>2 DEF SameUse
  <2>4. RegionKept' /\ region' \in [Addrs -> {"free", "ours", "other"}]
    <3>1. CASE known
      <4>1. region' = RequestPort(r, x) /\ (Races = {} => CanRequest(r, x))
        BY <1>6, <3>1
      <4>2. region' \in [Addrs -> {"free", "ours", "other"}]
        BY <1>4, <4>1 DEF RequestPort
      <4>3. Races = {} => \A y \in Addrs : region'[y] = "ours" <=> y = x
        BY <1>4, <4>1, Requested
      <4> QED BY <2>2, <3>1, <4>2, <4>3 DEF RegionKept, RegionHeld
    <3>2. CASE ~known
      BY <1>4, <1>6, <2>2, <3>2 DEF RegionKept, RegionHeld
    <3> QED BY <3>1, <3>2
  <2> QED BY <1>2, <2>2, <2>3, <2>4, <2>6, AnsweredStep
<1>7. CASE Answered(p, Restored(d, r), FALSE) /\ region' = RequestPort(r, l.addr)
  <2>6. l' = Restored(d, r) /\ Answered(p, l', FALSE)
    BY <1>7 DEF Answered
  <2>1. l' = [d EXCEPT !.known = CanRequest(r, l.addr), !.result = "refused"]
    BY <1>5, <2>6 DEF Restored
  <2>2. CanRequest(r, l.addr) \in BOOLEAN /\ l.addr \in Addrs
    BY <1>1 DEF CanRequest, Facts, Typed
  <2>3. /\ Sound(l') /\ SameUse(d, l') /\ ~l'.susp /\ l'.known = CanRequest(r, l.addr)
        /\ l'.addr = d.addr /\ l'.result = "refused"
    BY <1>5, <2>1, <2>2 DEF SameUse, Sound, Typed, Names
  <2>4. SameUse(l, l')
    BY <1>5, <2>3 DEF SameUse
  <2>5. RegionKept' /\ region' \in [Addrs -> {"free", "ours", "other"}]
    <3>1. region' \in [Addrs -> {"free", "ours", "other"}]
      BY <1>4, <1>7 DEF RequestPort
    <3> QED BY <1>4, <1>5, <1>7, <2>2, <2>3, <3>1, Requested DEF RegionKept, RegionHeld
  <2> QED BY <1>2, <2>3, <2>4, <2>5, <2>6, AnsweredStep
<1> QED BY <1>3, <1>6, <1>7

(* TIOCSERCONFIG: down, probed again and started.                          *)
LEMMA AutoconfigStep ==
  ASSUME Races \subseteq RegionRaces, CoreInv, NEW p \in Files, Autoconfig(p)
  PROVE  CoreInv'
<1>1. Facts
  BY CoreFacts
<1>2. Asking(p)
  BY DEF Autoconfig
<1> DEFINE d == UartShutdown(l, TRUE)
<1>3. PICK ok \in BOOLEAN, outcome \in Outcomes,
           r \in Regrab(ReleaseOld(l, region), l.addr) :
        /\ Races = {} /\ l.known => CanRequest(r, l.addr)
        /\ l' = UartStartup(ConfigType(d, r, TRUE, outcome), ok)
        /\ Answered(p, l', TRUE)
        /\ region' = ConfigRegion(d, r, TRUE, outcome)
  BY DEF Autoconfig, Answered, Race, RegionRaces
<1>4. /\ r \in [Addrs -> {"free", "ours", "other"}]
      /\ Races = {} => \A y \in Addrs : r[y] # "ours"
  BY Released
<1>5. /\ Sound(d) /\ SameUse(l, d) /\ ~d.init /\ ~d.susp
      /\ d.known = l.known /\ d.addr = l.addr
  BY <1>1, ShutdownSound DEF Facts
<1> HIDE DEF d
<1> DEFINE c == ConfigType(d, r, TRUE, outcome)
<1>11. c = ConfigType(d, r, TRUE, outcome)
  OBVIOUS
<1> HIDE DEF c
<1>6. /\ Sound(c) /\ SameUse(d, c) /\ ~c.susp /\ c.addr = d.addr
      /\ ~CanRequest(r, d.addr) => c.known = d.known
  <2>1. PICK k : k = Probed(d, outcome)
    OBVIOUS
  <2>2. \/ c = d
        \/ CanRequest(r, d.addr) /\ c = [d EXCEPT !.known = k]
    BY <1>11, <2>1 DEF ConfigType
  <2>3. Sound(c) /\ SameUse(d, c) /\ c.susp = d.susp /\ c.addr = d.addr
    BY <1>5, <2>1, <2>2, ConfigSound
  <2> QED BY <1>5, <2>2, <2>3
<1>7. region' = IF c.known THEN RequestPort(r, d.addr) ELSE r
  BY <1>3, <1>11 DEF ConfigRegion
<1>8. /\ Sound(l') /\ SameUse(c, l') /\ ~l'.susp /\ l'.known = c.known /\ l'.addr = c.addr
      /\ l'.known /\ l'.result = "ok" => l'.init
  <2>1. l' = UartStartup(c, ok)
    BY <1>3, <1>11
  <2> QED BY <1>6, <2>1, StartupSound
<1>9. SameUse(l, l')
  BY <1>5, <1>6, <1>8 DEF SameUse
<1>10. RegionKept' /\ region' \in [Addrs -> {"free", "ours", "other"}]
  <2>1. l.addr \in Addrs
    BY <1>1 DEF Facts, Typed
  <2>2. Races = {} /\ c.known => CanRequest(r, l.addr)
    BY <1>3, <1>5, <1>6
  <2>3. CASE c.known
    <3>1. region' \in [Addrs -> {"free", "ours", "other"}]
      BY <1>4, <1>7, <2>3 DEF RequestPort
    <3> QED
      BY <1>4, <1>5, <1>6, <1>7, <1>8, <2>1, <2>2, <2>3, <3>1, Requested
      DEF RegionKept, RegionHeld
  <2>4. CASE ~c.known
    BY <1>4, <1>7, <1>8, <2>4 DEF RegionKept, RegionHeld
  <2> QED BY <2>3, <2>4
<1> QED BY <1>2, <1>3, <1>8, <1>9, <1>10, AnsweredStep

-----------------------------------------------------------------------------
(* Steps that leave the files alone: the line keeps its users, and what    *)
(* runs has run or has slept before.                                       *)
LEMMA LineStep ==
  ASSUME CoreInv, UNCHANGED <<pc, hung, stray>>, asleep' \in BOOLEAN, Sound(l'),
         rem' \in [step : Steps, next : {"card", "isa"}],
         region' \in [Addrs -> {"free", "ours", "other"}], RegionKept', Frozen', Removal',
         l'.active = l.active, l'.closing = l.closing, l'.ddata = l.ddata,
         l'.count = l.count, l'.blocked = l.blocked, l'.tty = l.tty,
         l'.init \/ l'.susp => l.init \/ l.susp, ServedInv'
  PROVE  CoreInv'
<1>1. Facts
  BY CoreFacts
<1>2. Openers' = Openers /\ Blocked' = Blocked /\ Servers' = Servers
  BY DEF Openers, Blocked, Servers
<1>3. TypeOK' /\ CountIsOpeners' /\ BlockedCounted'
  BY <1>1, <1>2, Counters DEF Facts, CoreInv, TypeOK
<1>4. (Bound /\ TtyKept /\ ClosingAlone)'
  BY DEF CoreInv, Bound, TtyKept, ClosingAlone
<1>5. ForSomebody' /\ ~stray'
  BY <1>2 DEF CoreInv, ForSomebody
<1> QED BY <1>3, <1>4, <1>5 DEF CoreInv

(* uart_suspend_port: what ran is down and marked ASYNC_SUSPENDED.         *)
LEMMA SuspendedSound ==
  ASSUME NEW s, Sound(s), ~s.susp, NEW t, t = Suspended(s)
  PROVE  /\ Sound(t) /\ t.suspended /\ ~t.init
         /\ (t.susp => s.init) /\ (s.init => t.susp) /\ t.known = s.known /\ t.addr = s.addr
         /\ t.attached = s.attached /\ t.dead = s.dead /\ t.active = s.active
         /\ t.closing = s.closing /\ t.ddata = s.ddata /\ t.count = s.count
         /\ t.blocked = s.blocked /\ t.tty = s.tty /\ t.result = s.result
<1>1. CASE s.init
  <2> DEFINE m == [s EXCEPT !.suspended = TRUE]
  <2>5. m.started = 1
    BY <1>1 DEF Sound, Typed, Names
  <2>6. t = [[m EXCEPT !.susp = TRUE, !.init = FALSE, !.started = m.started - 1]
                EXCEPT !.pm = "off"]
    BY <1>1 DEF Suspended, ChangePm
  <2>7. /\ Typed(m) /\ m.xmit = s.xmit /\ m.suspended = TRUE
        /\ m.known = s.known /\ m.addr = s.addr
        /\ m.attached = s.attached /\ m.dead = s.dead /\ m.active = s.active
        /\ m.closing = s.closing /\ m.ddata = s.ddata /\ m.count = s.count
        /\ m.blocked = s.blocked /\ m.tty = s.tty /\ m.result = s.result
    BY DEF Sound, Typed, Names
  <2> HIDE DEF m
  <2>1. t = [m EXCEPT !.susp = TRUE, !.init = FALSE, !.started = 0, !.pm = "off"]
    BY <2>5, <2>6
  <2>2. /\ Typed(t) /\ t.xmit = s.xmit /\ t.started = 0
        /\ t.suspended = TRUE /\ t.init = FALSE /\ t.susp = TRUE
    BY <2>1, <2>7 DEF Typed, Names
  <2>3. /\ t.known = s.known /\ t.addr = s.addr
        /\ t.attached = s.attached /\ t.dead = s.dead /\ t.active = s.active
        /\ t.closing = s.closing /\ t.ddata = s.ddata /\ t.count = s.count
        /\ t.blocked = s.blocked /\ t.tty = s.tty /\ t.result = s.result
    BY <2>1, <2>7 DEF Typed, Names
  <2>4. s.init = TRUE
    BY <1>1 DEF Sound, Typed
  <2> QED BY <2>2, <2>3, <2>4 DEF Sound
<1>2. CASE ~s.init
  <2>1. t = [s EXCEPT !.suspended = TRUE, !.pm = "off"]
    BY <1>2 DEF Suspended, ChangePm
  <2>2. /\ Sound(t) /\ t.suspended = TRUE /\ t.init = s.init /\ t.susp = s.susp
        /\ t.known = s.known /\ t.addr = s.addr
        /\ t.attached = s.attached /\ t.dead = s.dead /\ t.active = s.active
        /\ t.closing = s.closing /\ t.ddata = s.ddata /\ t.count = s.count
        /\ t.blocked = s.blocked /\ t.tty = s.tty /\ t.result = s.result
    BY <2>1 DEF Sound, Typed, Names
  <2>3. s.init = FALSE /\ s.susp = FALSE
    BY <1>2 DEF Sound, Typed
  <2> QED BY <2>2, <2>3
<1> QED BY <1>1, <1>2

(* uart_suspend_port of a line that is attached and typed.                 *)
LEMMA SuspendStep ==
  ASSUME CoreInv, Suspend
  PROVE  CoreInv'
<1>1. Facts
  BY CoreFacts
<1>2. /\ ~asleep /\ rem.step = "idle" /\ asleep' = TRUE
      /\ UNCHANGED <<pc, hung, region, rem, stray>>
  BY DEF Suspend
<1>3. ~l.susp
  BY <1>2 DEF CoreInv, Frozen
<1>4. CASE l' = l
  <2>1. (RegionKept /\ Frozen /\ Removal /\ ServedInv)'
    <3>1. Servers' = Servers /\ Blocked' = Blocked
      BY <1>2 DEF Openers, Blocked, Servers
    <3> QED BY <1>2, <1>4, <3>1 DEF CoreInv, RegionKept, RegionHeld, Frozen, Removal, ServedInv
  <2> QED BY <1>1, <1>2, <1>4, <2>1, LineStep DEF Facts, CoreInv, TypeOK
<1>5. CASE l' = Suspended(l)
  <2>1. /\ Sound(l') /\ l'.suspended /\ ~l'.init
        /\ (l'.susp => l.init) /\ (l.init => l'.susp) /\ l'.known = l.known /\ l'.addr = l.addr
        /\ l'.attached = l.attached /\ l'.dead = l.dead /\ l'.active = l.active
        /\ l'.closing = l.closing /\ l'.ddata = l.ddata /\ l'.count = l.count
        /\ l'.blocked = l.blocked /\ l'.tty = l.tty /\ l'.result = l.result
    <3>1. Sound(l)
      BY <1>1 DEF Facts
    <3> QED BY <1>3, <1>5, <3>1, SuspendedSound
  <2>2. (RegionKept /\ Frozen)'
    BY <1>2, <2>1 DEF CoreInv, RegionKept, RegionHeld, Frozen
  <2>3. Removal'
    BY <1>2, <2>1 DEF CoreInv, Removal
  <2>4. ServedInv'
    BY <1>2, <1>3, <2>1 DEF CoreInv, ServedInv
  <2> QED
    BY <1>1, <1>2, <2>1, <2>2, <2>3, <2>4, LineStep DEF Facts, CoreInv, TypeOK
<1> QED BY <1>4, <1>5 DEF Suspend

(* uart_resume_port starts what it marked, or leaves the result "failed".  *)
LEMMA ResumedSound ==
  ASSUME NEW s, Sound(s), NEW ok \in BOOLEAN, NEW t, t = Resumed(s, ok)
  PROVE  /\ Sound(t) /\ ~t.suspended /\ ~t.susp
         /\ t.known = s.known /\ t.addr = s.addr
         /\ t.attached = s.attached /\ t.dead = s.dead /\ t.active = s.active
         /\ t.closing = s.closing /\ t.ddata = s.ddata /\ t.count = s.count
         /\ t.blocked = s.blocked /\ t.tty = s.tty
         /\ t.init => s.init \/ s.susp
         /\ t.result = "ok" => s.result = "ok" /\ (s.init \/ s.susp => t.init)
<1>1. CASE ~s.susp
  <2>1. t = [s EXCEPT !.suspended = FALSE]
    BY <1>1 DEF Resumed
  <2>2. /\ Sound(t) /\ ~t.suspended /\ t.susp = s.susp /\ t.init = s.init
        /\ t.known = s.known /\ t.addr = s.addr
        /\ t.attached = s.attached /\ t.dead = s.dead /\ t.active = s.active
        /\ t.closing = s.closing /\ t.ddata = s.ddata /\ t.count = s.count
        /\ t.blocked = s.blocked /\ t.tty = s.tty /\ t.result = s.result
    BY <2>1 DEF Sound, Typed, Names
  <2> QED BY <1>1, <2>2
<1>2. CASE s.susp
  <2> DEFINE u == [[s EXCEPT !.suspended = FALSE] EXCEPT !.pm = "on"]
  <2>1. /\ Sound(u) /\ u.suspended = FALSE /\ u.init = s.init /\ u.susp = s.susp
        /\ u.started = s.started /\ u.xmit = s.xmit
        /\ u.known = s.known /\ u.addr = s.addr
        /\ u.attached = s.attached /\ u.dead = s.dead /\ u.active = s.active
        /\ u.closing = s.closing /\ u.ddata = s.ddata /\ u.count = s.count
        /\ u.blocked = s.blocked /\ u.tty = s.tty /\ u.result = s.result
    BY DEF Sound, Typed, Names
  <2>2. ~s.init /\ s.started = 0 /\ s.xmit
    BY <1>2 DEF Sound
  <2>3. CASE ok
    <3>1. t = [u EXCEPT !.started = u.started + 1, !.init = TRUE, !.susp = FALSE]
      BY <1>2, <2>3 DEF Resumed, ChangePm
    <3> HIDE DEF u
    <3>2. t = [u EXCEPT !.started = 1, !.init = TRUE, !.susp = FALSE]
      BY <2>1, <2>2, <3>1
    <3>3. /\ Typed(t) /\ t.xmit = u.xmit /\ t.started = 1
          /\ t.suspended = FALSE /\ t.init = TRUE /\ t.susp = FALSE
      BY <2>1, <3>2 DEF Sound, Typed, Names
    <3>4. /\ t.known = u.known /\ t.addr = u.addr
          /\ t.attached = u.attached /\ t.dead = u.dead /\ t.active = u.active
          /\ t.closing = u.closing /\ t.ddata = u.ddata /\ t.count = u.count
          /\ t.blocked = u.blocked /\ t.tty = u.tty /\ t.result = u.result
      BY <2>1, <3>2 DEF Sound, Typed, Names
    <3>5. Sound(t)
      BY <2>1, <2>2, <3>3 DEF Sound
    <3> QED BY <1>2, <2>1, <3>3, <3>4, <3>5
  <2>4. CASE ~ok
    <3> DEFINE w == s.tty # "none"
               d == UartShutdown(u, w)
    <3>1. w \in BOOLEAN
      OBVIOUS
    <3>2. t = [d EXCEPT !.result = "failed"]
      BY <1>2, <2>4 DEF Resumed, ChangePm
    <3> HIDE DEF u, w
    <3>3. /\ Sound(d) /\ SameUse(u, d) /\ ~d.init /\ ~d.susp
          /\ d.known = u.known /\ d.addr = u.addr
      BY <2>1, <3>1, ShutdownSound
    <3> HIDE DEF d
    <3>4. /\ Sound(t) /\ t.result = "failed" /\ t.init = d.init /\ t.susp = d.susp
          /\ t.known = d.known /\ t.addr = d.addr /\ SameUse(d, t)
      BY <3>2, <3>3 DEF Sound, Typed, Names, SameUse
    <3> QED BY <2>1, <3>3, <3>4 DEF SameUse
  <2> QED BY <2>3, <2>4
<1> QED BY <1>1, <1>2

(* uart_resume_port: nothing starts that did not run before the sleep.     *)
LEMMA ResumeStep ==
  ASSUME CoreInv, Resume
  PROVE  CoreInv'
<1>1. Facts
  BY CoreFacts
<1>2. /\ asleep /\ asleep' = FALSE /\ UNCHANGED <<pc, hung, region, rem, stray>>
  BY DEF Resume
<1>3. rem.step = "idle"
  BY <1>2 DEF CoreInv, Frozen
<1>4. PICK ok \in BOOLEAN : l' = IF l.suspended THEN Resumed(l, ok) ELSE l
  BY DEF Resume
<1>5. ASSUME Sound(l'), ~l'.suspended, ~l'.susp,
             l'.known = l.known, l'.addr = l.addr,
             l'.attached = l.attached, l'.dead = l.dead, l'.active = l.active,
             l'.closing = l.closing, l'.ddata = l.ddata, l'.count = l.count,
             l'.blocked = l.blocked, l'.tty = l.tty,
             l'.init => l.init \/ l.susp,
             l'.result = "ok" => l.result = "ok" /\ (l.init \/ l.susp => l'.init)
      PROVE  CoreInv'
  <2>1. (RegionKept /\ Frozen)'
    BY <1>2, <1>5 DEF CoreInv, RegionKept, RegionHeld, Frozen
  <2>2. Removal'
    BY <1>2, <1>3, <1>5 DEF CoreInv, Removal
  <2>3. ServedInv'
    BY <1>2, <1>5 DEF CoreInv, ServedInv
  <2> QED
    BY <1>1, <1>2, <1>5, <2>1, <2>2, <2>3, LineStep DEF Facts, CoreInv, TypeOK
<1>6. CASE ~l.suspended
  <2>1. l' = l /\ ~l.susp
    BY <1>4, <1>6 DEF CoreInv, Frozen
  <2> QED BY <1>1, <1>5, <1>6, <2>1 DEF Facts
<1>7. CASE l.suspended
  BY <1>1, <1>4, <1>5, <1>7, ResumedSound DEF Facts, Sound
<1> QED BY <1>6, <1>7

-----------------------------------------------------------------------------
(* uart_remove_one_port and uart_add_one_port.                             *)
LEMMA RemoveBeginStep ==
  ASSUME CoreInv, RemoveBegin
  PROVE  CoreInv'
<1>1. Facts
  BY CoreFacts
<1>2. /\ rem.step = "idle" /\ ~asleep /\ UNCHANGED <<pc, hung, region, asleep, stray>>
      /\ rem' = [step |-> "dead", next |-> IF rem.next = "isa" THEN "card" ELSE "isa"]
  BY DEF RemoveBegin
<1>3. rem' \in [step : Steps, next : {"card", "isa"}] /\ rem'.step = "dead"
  BY <1>2 DEF Steps
<1>4. /\ Sound(l') /\ l'.dead = TRUE /\ l'.suspended = l.suspended
      /\ l'.init = l.init /\ l'.susp = l.susp /\ l'.known = l.known /\ l'.addr = l.addr
      /\ l'.attached = l.attached /\ l'.active = l.active
      /\ l'.closing = l.closing /\ l'.ddata = l.ddata /\ l'.count = l.count
      /\ l'.blocked = l.blocked /\ l'.tty = l.tty /\ l'.result = l.result
  <2>1. l' = [l EXCEPT !.dead = TRUE]
    BY DEF RemoveBegin
  <2> QED BY <1>1, <2>1 DEF Facts, Sound, Typed, Names
<1>5. (RegionKept /\ Frozen /\ ServedInv)'
  BY <1>2, <1>4 DEF CoreInv, RegionKept, RegionHeld, Frozen, ServedInv
<1>6. Removal'
  BY <1>2, <1>3, <1>4 DEF CoreInv, Removal
<1> QED BY <1>1, <1>2, <1>3, <1>4, <1>5, <1>6, LineStep DEF CoreInv, TypeOK

(* The regions are released when no close is owed: nothing runs.           *)
LEMMA RemoveReleaseStep ==
  ASSUME Races \subseteq RegionRaces, CoreInv, RemoveRelease
  PROVE  CoreInv'
<1>1. Facts
  BY CoreFacts
<1>2. /\ rem.step = "hungup" /\ ~asleep /\ UNCHANGED <<pc, hung, asleep, stray>>
      /\ rem' = [rem EXCEPT !.step = "gone"] /\ region' = ReleaseOld(l, region)
      /\ \A p \in Files : ~CloseOwed(p) /\ pc[p] # "asking"
  BY DEF RemoveRelease, Race, RegionRaces
<1>3. rem' \in [step : Steps, next : {"card", "isa"}] /\ rem'.step = "gone"
  BY <1>2 DEF CoreInv, TypeOK, Steps
<1>4. \A p \in Files : pc[p] # "ready" /\ (pc[p] \in {"open", "asking"} => hung[p])
  BY <1>2 DEF CoreInv, Removal
<1>5. Servers = {}
  BY <1>2, <1>4 DEF Servers, Openers, CountedPCs, CloseOwed
<1>6. ~l.init /\ ~l.susp /\ ~l.active
  BY <1>5 DEF CoreInv, ForSomebody
<1>7. /\ Sound(l') /\ l'.known = FALSE /\ l'.attached = FALSE /\ l'.dead = l.dead
      /\ l'.suspended = l.suspended /\ l'.init = l.init /\ l'.susp = l.susp
      /\ l'.active = l.active
      /\ l'.closing = l.closing /\ l'.ddata = l.ddata /\ l'.count = l.count
      /\ l'.blocked = l.blocked /\ l'.tty = l.tty /\ l'.result = l.result
  <2>1. l' = [l EXCEPT !.known = FALSE, !.attached = FALSE]
    BY DEF RemoveRelease
  <2> QED BY <1>1, <2>1 DEF Facts, Sound, Typed, Names
<1>8. /\ region' \in [Addrs -> {"free", "ours", "other"}]
      /\ Races = {} => \A y \in Addrs : region'[y] # "ours"
  BY <1>2, Released
<1>9. (RegionKept /\ Frozen /\ ServedInv)'
  BY <1>2, <1>7, <1>8 DEF CoreInv, RegionKept, RegionHeld, Frozen, ServedInv
<1>10. Removal'
  <2>1. Servers' = {} /\ rem.step # "idle" /\ \A p \in Files : pc'[p] # "asking"
    BY <1>2, <1>5 DEF Servers, Openers
  <2> QED BY <1>2, <1>3, <1>4, <1>6, <1>7, <2>1 DEF CoreInv, Removal
<1> QED BY <1>1, <1>2, <1>3, <1>7, <1>8, <1>9, <1>10, LineStep DEF CoreInv, TypeOK

(* uart_configure_port claims the address of what it finds.                *)
LEMMA AddStep ==
  ASSUME Races \subseteq RegionRaces, CoreInv, Add
  PROVE  CoreInv'
<1>1. Facts
  BY CoreFacts
<1>2. /\ rem.step = "gone" /\ ~asleep /\ UNCHANGED <<pc, hung, asleep, stray>>
      /\ rem' = [rem EXCEPT !.step = "idle"]
  BY DEF Add
<1>3. rem' \in [step : Steps, next : {"card", "isa"}] /\ rem'.step = "idle"
  BY <1>2 DEF CoreInv, TypeOK, Steps
<1>4. /\ ~l.init /\ ~l.susp /\ ~l.active /\ ~l.known /\ ~l.suspended
      /\ \A p \in Files : pc[p] # "ready" /\ (pc[p] \in {"open", "asking"} => hung[p])
  BY <1>2 DEF CoreInv, Removal, ForSomebody, Frozen
<1>5. /\ region \in [Addrs -> {"free", "ours", "other"}]
      /\ Races = {} => \A y \in Addrs : region[y] # "ours"
  BY <1>4 DEF CoreInv, TypeOK, RegionKept, RegionHeld
<1> DEFINE card == rem.next = "card"
<1>6. PICK x \in Addrs, fixed \in BOOLEAN, outcome \in Outcomes :
        LET fresh == [l EXCEPT !.attached = TRUE, !.dead = FALSE, !.pm = "new",
                               !.addr = IF card THEN x ELSE @, !.known = card /\ fixed]
            conf  == ConfigType(fresh, region, ~fixed, outcome)
        IN /\ (card /\ fixed /\ ~CanRequest(region, x)) => Race("config_busy")
           /\ l' = IF card /\ conf.known THEN ChangePm(conf, "off") ELSE fresh
           /\ region' = IF card THEN ConfigRegion(fresh, region, ~fixed, outcome) ELSE region
  BY Zenon DEF Add
<1> DEFINE y == IF card THEN x ELSE l.addr
           typed == card /\ fixed
           f == [l EXCEPT !.attached = TRUE, !.dead = FALSE, !.pm = "new", !.addr = y,
                          !.known = typed]
           c == ConfigType(f, region, ~fixed, outcome)
<1>7. /\ y \in Addrs /\ typed \in BOOLEAN
      /\ Races = {} /\ typed => CanRequest(region, y)
      /\ l' = IF card /\ c.known THEN ChangePm(c, "off") ELSE f
      /\ region' = IF card THEN ConfigRegion(f, region, ~fixed, outcome) ELSE region
  BY <1>1, <1>6 DEF Facts, Typed, Race, RegionRaces
<1>8. f = [l EXCEPT !.attached = TRUE, !.dead = FALSE, !.pm = "new", !.addr = y,
                    !.known = typed]
  OBVIOUS
<1>9. typed <=> card /\ fixed
  OBVIOUS
<1> HIDE DEF y, typed, f
<1>10. /\ Sound(f) /\ f.attached = TRUE /\ f.dead = FALSE /\ f.addr = y /\ f.known = typed
       /\ f.suspended = l.suspended /\ f.init = l.init /\ f.susp = l.susp
       /\ f.active = l.active /\ f.closing = l.closing /\ f.ddata = l.ddata
       /\ f.count = l.count /\ f.blocked = l.blocked /\ f.tty = l.tty
  BY <1>1, <1>7, <1>8 DEF Facts, Sound, Typed, Names
<1>11. PICK k : k = Probed(f, outcome)
  OBVIOUS
<1>12. c = f \/ (~fixed /\ CanRequest(region, y) /\ c = [f EXCEPT !.known = k])
  BY <1>10, <1>11 DEF ConfigType
<1>13. ConfigRegion(f, region, ~fixed, outcome)
         = IF c.known THEN RequestPort(region, y) ELSE region
  BY <1>10 DEF ConfigRegion
<1> HIDE DEF c
<1>14. Sound(c) /\ SameUse(f, c) /\ c.init = f.init /\ c.susp = f.susp /\ c.addr = f.addr
  BY <1>10, <1>11, <1>12, ConfigSound
<1>15. Races = {} /\ c.known => CanRequest(region, y)
  BY <1>7, <1>10, <1>12
<1>16. /\ Sound(l') /\ SameUse(f, l') /\ l'.init = f.init /\ l'.susp = f.susp
       /\ l'.addr = y
       /\ l'.known <=> card /\ c.known
  <2>1. CASE card /\ c.known
    <3>1. l' = [c EXCEPT !.pm = "off"]
      BY <1>7, <2>1 DEF ChangePm
    <3>2. /\ Sound(l') /\ SameUse(c, l') /\ l'.init = c.init /\ l'.susp = c.susp
          /\ l'.addr = c.addr /\ l'.known = c.known
      BY <1>14, <3>1 DEF Sound, Typed, Names, SameUse
    <3> QED BY <1>10, <1>14, <2>1, <3>2 DEF SameUse
  <2>2. CASE ~(card /\ c.known)
    <3>1. l' = f
      BY <1>7, <2>2
    <3>2. ~f.known
      BY <1>9, <1>10, <1>12, <2>2
    <3> QED BY <1>10, <2>2, <3>1, <3>2 DEF SameUse
  <2> QED BY <2>1, <2>2
<1>17. RegionKept' /\ region' \in [Addrs -> {"free", "ours", "other"}]
  <2>1. CASE card /\ c.known
    <3>1. region' = RequestPort(region, y)
      BY <1>7, <1>13, <2>1
    <3>2. region' \in [Addrs -> {"free", "ours", "other"}]
      BY <1>5, <3>1 DEF RequestPort
    <3>3. Races = {} => \A z \in Addrs : region'[z] = "ours" <=> z = y
      BY <1>5, <1>7, <1>15, <2>1, <3>1, Requested
    <3> QED BY <1>16, <2>1, <3>2, <3>3 DEF RegionKept, RegionHeld
  <2>2. CASE ~(card /\ c.known)
    <3>1. region' = region
      BY <1>7, <1>13, <2>2
    <3> QED BY <1>5, <1>16, <2>2, <3>1 DEF RegionKept, RegionHeld
  <2> QED BY <2>1, <2>2
<1>18. (Frozen /\ ServedInv)'
  BY <1>2, <1>3, <1>4, <1>10, <1>16 DEF CoreInv, Frozen, ServedInv, SameUse
<1>19. Removal'
  BY <1>3, <1>10, <1>16 DEF Removal, SameUse
<1> QED
  BY <1>1, <1>2, <1>3, <1>10, <1>16, <1>17, <1>18, <1>19, LineStep DEF CoreInv, TypeOK, SameUse

(* Another driver only takes free addresses and gives its own back.        *)
LEMMA OtherDriverStep ==
  ASSUME CoreInv, OtherDriver
  PROVE  CoreInv'
<1>1. Facts
  BY CoreFacts
<1>2. UNCHANGED <<pc, hung, l, rem, asleep, stray>>
  BY DEF OtherDriver
<1>3. /\ region' \in [Addrs -> {"free", "ours", "other"}]
      /\ \A y \in Addrs : region'[y] = "ours" <=> region[y] = "ours"
  BY DEF OtherDriver, CoreInv, TypeOK
<1>4. (RegionKept /\ Frozen /\ ServedInv)'
  BY <1>2, <1>3 DEF CoreInv, RegionKept, RegionHeld, Frozen, ServedInv
<1>5. Removal'
  <2>1. Servers' = Servers /\ Blocked' = Blocked
    BY <1>2 DEF Servers, Openers, Blocked
  <2> QED BY <1>2, <2>1 DEF CoreInv, Removal
<1> QED BY <1>1, <1>2, <1>3, <1>4, <1>5, LineStep DEF CoreInv, TypeOK

-----------------------------------------------------------------------------
(* Whatever the interleaving, the races among them, the line stays sound.  *)
BalancedInv ==
  Sound(l) /\ Frozen /\ asleep \in BOOLEAN /\ rem \in [step : Steps, next : {"card", "isa"}]

(* uart_open keeps the line sound, counted or not.                         *)
LEMMA OpensBalanced ==
  ASSUME BalancedInv, NEW p \in Files, OpenHungUp(p) \/ OpenStart(p)
  PROVE  Sound(l') /\ l'.suspended = l.suspended /\ l'.susp = l.susp
<1>1. Sound(l)
  BY DEF BalancedInv
<1>2. CASE OpenHungUp(p)
  <2>1. l' = [l EXCEPT !.ddata = TRUE, !.tty = "now"]
    BY <1>2 DEF OpenHungUp, OpenBound
  <2> QED BY <1>1, <2>1 DEF Sound, Typed, Names
<1>3. CASE OpenStart(p)
  <2>1. ~l.susp
    BY <1>3 DEF OpenStart, BalancedInv, Frozen
  <2> DEFINE b == [l EXCEPT !.ddata = TRUE, !.tty = "now"]
             c == [b EXCEPT !.count = @ + 1]
  <2>2. Sound(c) /\ c.suspended = l.suspended /\ c.susp = l.susp
    BY <1>1 DEF Sound, Typed, Names
  <2>3. PICK ok \in BOOLEAN :
          l' = UartStartup(IF c.count = 1 THEN ChangePm(c, "on") ELSE c, ok)
    BY <1>3 DEF OpenStart, OpenBound, Counted
  <2> HIDE DEF c
  <2> DEFINE w == IF c.count = 1 THEN ChangePm(c, "on") ELSE c
  <2>4. Sound(w) /\ w.suspended = c.suspended /\ w.susp = c.susp
    <3>1. w = c \/ w = [c EXCEPT !.pm = "on"]
      BY DEF ChangePm
    <3> HIDE DEF w
    <3> QED BY <2>2, <3>1 DEF Sound, Typed, Names
  <2> HIDE DEF w
  <2>5. l' = UartStartup(w, ok)
    BY <2>3 DEF w
  <2>6. ~w.susp
    BY <2>1, <2>2, <2>4
  <2>7. Sound(l') /\ SameUse(w, l') /\ ~l'.susp
    BY <2>4, <2>5, <2>6, StartupSound
  <2>8. {l.susp, l'.susp} \subseteq BOOLEAN
    BY <1>1, <2>7 DEF Sound, Typed
  <2> QED BY <2>1, <2>2, <2>4, <2>7, <2>8 DEF SameUse
<1> QED BY <1>2, <1>3

(* So do the wait for the carrier and the closes that are not over.        *)
LEMMA WaitsBalanced ==
  ASSUME BalancedInv, NEW p \in Files,
         BlockTilReady(p) \/ BlockedOver(p) \/ CloseNotLast(p) \/ CloseLast(p)
  PROVE  Sound(l') /\ l'.suspended = l.suspended /\ l'.susp = l.susp
<1>1. Sound(l)
  BY DEF BalancedInv
<1>2. ASSUME NEW t, NEW n, t = [l EXCEPT !.count = n]
      PROVE  Sound(t) /\ t.suspended = l.suspended /\ t.susp = l.susp
  BY <1>1, <1>2 DEF Sound, Typed, Names
<1>3. CASE BlockTilReady(p)
  <2>1. \/ l' = l
        \/ l' = [l EXCEPT !.active = TRUE]
        \/ l' = [l EXCEPT !.count = l.count - 1, !.blocked = l.blocked + 1]
    BY <1>3 DEF BlockTilReady
  <2>2. CASE l' = l
    BY <1>1, <2>2
  <2>3. CASE l' = [l EXCEPT !.active = TRUE]
    BY <1>1, <2>3 DEF Sound, Typed, Names
  <2>4. CASE l' = [l EXCEPT !.count = l.count - 1, !.blocked = l.blocked + 1]
    BY <1>1, <2>4 DEF Sound, Typed, Names
  <2> QED BY <2>1, <2>2, <2>3, <2>4
<1>4. CASE BlockedOver(p)
  <2>1. PICK ok \in BOOLEAN :
          l' = [l EXCEPT !.count = IF hung[p] THEN @ ELSE @ + 1, !.blocked = @ - 1,
                         !.active = @ \/ ok]
    BY <1>4 DEF BlockedOver
  <2> DEFINE n == IF hung[p] THEN l.count ELSE l.count + 1
             act == l.active \/ ok
  <2>2. act \in BOOLEAN
    BY <1>1 DEF Sound, Typed
  <2>3. l' = [l EXCEPT !.count = n, !.blocked = l.blocked - 1, !.active = act]
    BY <2>1
  <2> HIDE DEF n, act
  <2> QED BY <1>1, <2>2, <2>3 DEF Sound, Typed, Names
<1>5. CASE CloseNotLast(p)
  <2>1. PICK m \in {l, [l EXCEPT !.count = Mended - 1]} : l' = Leave(p, m)
    BY <1>5 DEF CloseNotLast
  <2>2. Sound(m) /\ m.suspended = l.suspended /\ m.susp = l.susp
    BY <1>1, <1>2
  <2> QED BY <2>1, <2>2, LeaveSound
<1>6. CASE CloseLast(p)
  <2>1. l' = [l EXCEPT !.count = 0, !.closing = TRUE]
    BY <1>6 DEF CloseLast
  <2> QED BY <1>1, <2>1 DEF Sound, Typed, Names
<1> QED BY <1>3, <1>4, <1>5, <1>6

(* So do the end of a close and a hang-up, which shut the port down.       *)
LEMMA DownsBalanced ==
  ASSUME BalancedInv, \/ \E p \in Files : CloseFinish(p)
                      \/ Vhangup
  PROVE  Sound(l') /\ l'.suspended = l.suspended /\ (l'.susp => l.susp)
<1> DEFINE d == UartShutdown(l, TRUE)
<1>1. Sound(l)
  BY DEF BalancedInv
<1>2. Sound(d) /\ d.suspended = l.suspended /\ ~d.init /\ ~d.susp
  <2>1. Sound(d) /\ SameUse(l, d) /\ ~d.init /\ ~d.susp
    BY <1>1, ShutdownSound
  <2> QED BY <2>1 DEF SameUse
<1>3. CASE \E p \in Files : CloseFinish(p)
  <2>1. PICK p \in Files : l' = Leave(p, CloseDone(l))
    BY <1>3 DEF CloseFinish
  <2> DEFINE e == [d EXCEPT !.tty = "none"]
             w == IF l.blocked = 0 THEN ChangePm(e, "off") ELSE e
             c == [w EXCEPT !.active = FALSE, !.closing = FALSE]
  <2>2. CloseDone(l) = c
    BY Zenon DEF CloseDone
  <2> HIDE DEF d
  <2>3. Sound(e) /\ e.suspended = d.suspended /\ e.susp = d.susp
    BY <1>2 DEF Sound, Typed, Names
  <2>4. w = e \/ w = [e EXCEPT !.pm = "off"]
    BY DEF ChangePm
  <2> HIDE DEF e, w
  <2>5. Sound(w) /\ w.suspended = e.suspended /\ w.susp = e.susp
    BY <2>3, <2>4 DEF Sound, Typed, Names
  <2>6. Sound(c) /\ c.suspended = w.suspended /\ c.susp = w.susp
    BY <2>5 DEF Sound, Typed, Names
  <2> HIDE DEF c
  <2>7. Sound(l') /\ l'.suspended = c.suspended /\ l'.susp = c.susp
    BY <2>1, <2>2, <2>6, LeaveSound
  <2> QED BY <1>2, <2>3, <2>5, <2>6, <2>7
<1>4. CASE Vhangup
  <2>1. l' = UartHangup(l)
    BY <1>4 DEF Vhangup
  <2>2. l' = l \/ l' = [d EXCEPT !.count = 0, !.active = FALSE, !.tty = "none"]
    BY <2>1 DEF UartHangup
  <2> HIDE DEF d
  <2>3. CASE l' = l
    BY <1>1, <2>3
  <2>4. CASE l' = [d EXCEPT !.count = 0, !.active = FALSE, !.tty = "none"]
    BY <1>2, <2>4 DEF Sound, Typed, Names
  <2> QED BY <2>2, <2>3, <2>4
<1> QED BY <1>3, <1>4

(* So do TIOCSSERIAL and TIOCSERCONFIG, which find nobody suspended.       *)
LEMMA IoctlBalanced ==
  ASSUME BalancedInv, NEW p \in Files,
         SetFlags(p) \/ SetIrq(p) \/ SetPort(p) \/ Autoconfig(p)
  PROVE  Sound(l') /\ l'.suspended = l.suspended /\ ~l'.susp
<1>1. Sound(l)
  BY DEF BalancedInv
<1>2. ~l.susp
  BY DEF SetFlags, SetIrq, SetPort, Autoconfig, Asking, BalancedInv, Frozen
<1> DEFINE d == UartShutdown(l, TRUE)
<1>3. Sound(d) /\ d.suspended = l.suspended /\ ~d.susp
  <2>1. Sound(d) /\ SameUse(l, d) /\ ~d.init /\ ~d.susp
    BY <1>1, ShutdownSound
  <2> QED BY <2>1 DEF SameUse
<1>4. CASE SetFlags(p) \/ SetIrq(p)
  <2>1. PICK ok \in BOOLEAN, s \in {l, d} : l' = CheckAndExit(s, ok)
    BY <1>4 DEF SetFlags, SetIrq, Answered
  <2>2. Sound(s) /\ s.suspended = l.suspended /\ ~s.susp
    BY <1>1, <1>2, <1>3
  <2> HIDE DEF d
  <2>3. Sound(l') /\ SameUse(s, l') /\ ~l'.susp
    BY <2>1, <2>2, CheckSound
  <2> QED BY <2>2, <2>3 DEF SameUse
<1>5. CASE SetPort(p)
  <2>1. PICK x \in Addrs, known \in BOOLEAN, ok \in BOOLEAN,
             r \in Regrab(ReleaseOld(l, region), l.addr) :
          \/ Answered(p, CheckAndExit([d EXCEPT !.addr = x, !.known = known], ok), known)
          \/ Answered(p, Restored(d, r), FALSE)
    BY <1>5 DEF SetPort
  <2> HIDE DEF d
  <2>4. \/ l' = CheckAndExit([d EXCEPT !.addr = x, !.known = known], ok)
        \/ l' = Restored(d, r)
    BY ONLY <2>1 DEF Answered
  <2>2. CASE l' = CheckAndExit([d EXCEPT !.addr = x, !.known = known], ok)
    <3> DEFINE e == [d EXCEPT !.addr = x, !.known = known]
    <3>1. Sound(e) /\ e.suspended = d.suspended /\ e.susp = d.susp
      BY <1>3 DEF Sound, Typed, Names
    <3> HIDE DEF e
    <3>2. l' = CheckAndExit(e, ok) /\ ~e.susp
      BY <1>3, <2>2, <3>1 DEF e
    <3>3. Sound(l') /\ SameUse(e, l') /\ ~l'.susp
      BY <3>1, <3>2, CheckSound
    <3> QED BY <1>3, <3>1, <3>3 DEF SameUse
  <2>3. CASE l' = Restored(d, r)
    <3>1. PICK k \in BOOLEAN : l' = [d EXCEPT !.known = k, !.result = "refused"]
      BY <2>3 DEF Restored, CanRequest
    <3> QED BY <1>3, <3>1 DEF Sound, Typed, Names
  <2> QED BY <2>2, <2>3, <2>4
<1>6. CASE Autoconfig(p)
  <2>1. PICK ok \in BOOLEAN, outcome \in Outcomes,
             r \in Regrab(ReleaseOld(l, region), l.addr) :
          l' = UartStartup(ConfigType(d, r, TRUE, outcome), ok)
    BY <1>6 DEF Autoconfig, Answered
  <2> HIDE DEF d
  <2> DEFINE c == ConfigType(d, r, TRUE, outcome)
  <2>2. PICK k : k = Probed(d, outcome)
    OBVIOUS
  <2>3. c = d \/ c = [d EXCEPT !.known = k]
    BY <2>2 DEF ConfigType
  <2> HIDE DEF c
  <2>4. Sound(c) /\ SameUse(d, c) /\ c.susp = d.susp
    BY <1>3, <2>2, <2>3, ConfigSound
  <2>5. l' = UartStartup(c, ok) /\ ~c.susp
    BY <1>3, <2>1, <2>4 DEF c
  <2>6. Sound(l') /\ SameUse(c, l') /\ ~l'.susp
    BY <2>4, <2>5, StartupSound
  <2> QED BY <1>3, <2>4, <2>6 DEF SameUse
<1> QED BY <1>4, <1>5, <1>6

(* Suspend and resume pass ASYNC_INITIALIZED to ASYNC_SUSPENDED and back.  *)
LEMMA SleepBalanced ==
  ASSUME BalancedInv, Suspend \/ Resume
  PROVE  Sound(l') /\ Frozen'
<1>1. Sound(l)
  BY DEF BalancedInv
<1>2. CASE Suspend
  <2>1. ~asleep /\ asleep' = TRUE /\ rem' = rem /\ rem.step = "idle" /\ ~l.susp
    BY <1>2 DEF Suspend, BalancedInv, Frozen
  <2>2. l' = l \/ l' = Suspended(l)
    BY <1>2 DEF Suspend
  <2>3. Sound(l') /\ (l'.susp => l'.suspended)
    BY <1>1, <2>1, <2>2, SuspendedSound
  <2> QED BY <2>1, <2>3 DEF Frozen
<1>3. CASE Resume
  <2>1. PICK ok \in BOOLEAN : l' = IF l.suspended THEN Resumed(l, ok) ELSE l
    BY <1>3 DEF Resume
  <2>2. CASE l.suspended
    <3>1. Sound(l') /\ ~l'.suspended /\ ~l'.susp
      BY <1>1, <2>1, <2>2, ResumedSound
    <3> QED BY <1>3, <3>1 DEF Resume, Frozen
  <2>3. CASE ~l.suspended
    <3>1. l' = l
      BY <2>1, <2>3
    <3> QED BY <1>1, <1>3, <2>3, <3>1 DEF Resume, BalancedInv, Frozen
  <2> QED BY <2>2, <2>3
<1> QED BY <1>2, <1>3

(* A removal and an attachment leave the flags of the port alone.          *)
LEMMA RemovalBalanced ==
  ASSUME BalancedInv, RemoveBegin \/ RemoveRelease \/ Add
  PROVE  Sound(l') /\ l'.suspended = l.suspended /\ l'.susp = l.susp
<1>1. Sound(l)
  BY DEF BalancedInv
<1>2. CASE RemoveBegin
  <2>1. l' = [l EXCEPT !.dead = TRUE]
    BY <1>2 DEF RemoveBegin
  <2> QED BY <1>1, <2>1 DEF Sound, Typed, Names
<1>3. CASE RemoveRelease
  <2>1. l' = [l EXCEPT !.known = FALSE, !.attached = FALSE]
    BY <1>3 DEF RemoveRelease
  <2> QED BY <1>1, <2>1 DEF Sound, Typed, Names
<1>4. CASE Add
  <2> DEFINE card == rem.next = "card"
  <2>1. PICK x \in Addrs, fixed \in BOOLEAN, outcome \in Outcomes :
          LET fresh == [l EXCEPT !.attached = TRUE, !.dead = FALSE, !.pm = "new",
                                 !.addr = IF card THEN x ELSE @, !.known = card /\ fixed]
              conf  == ConfigType(fresh, region, ~fixed, outcome)
          IN l' = IF card /\ conf.known THEN ChangePm(conf, "off") ELSE fresh
    BY <1>4, ZenonT(60) DEF Add
  <2> DEFINE y == IF card THEN x ELSE l.addr
             typed == card /\ fixed
             f == [l EXCEPT !.attached = TRUE, !.dead = FALSE, !.pm = "new", !.addr = y,
                            !.known = typed]
             c == ConfigType(f, region, ~fixed, outcome)
  <2>2. /\ y \in Addrs /\ typed \in BOOLEAN
        /\ l' = IF card /\ c.known THEN ChangePm(c, "off") ELSE f
    BY <1>1, <2>1 DEF Sound, Typed
  <2>3. f = [l EXCEPT !.attached = TRUE, !.dead = FALSE, !.pm = "new", !.addr = y,
                      !.known = typed]
    OBVIOUS
  <2> HIDE DEF y, typed, f
  <2>4. Sound(f) /\ f.suspended = l.suspended /\ f.susp = l.susp
    BY <1>1, <2>2, <2>3 DEF Sound, Typed, Names
  <2>5. PICK k : k = Probed(f, outcome)
    OBVIOUS
  <2>6. c = f \/ c = [f EXCEPT !.known = k]
    BY <2>5 DEF ConfigType
  <2>7. l' = f \/ l' = [c EXCEPT !.pm = "off"]
    BY <2>2 DEF ChangePm
  <2> HIDE DEF c
  <2>8. Sound(c) /\ SameUse(f, c) /\ c.susp = f.susp
    BY <2>4, <2>5, <2>6, ConfigSound
  <2>9. CASE l' = f
    BY <2>4, <2>9
  <2>10. CASE l' = [c EXCEPT !.pm = "off"]
    <3>1. Sound(l') /\ l'.suspended = c.suspended /\ l'.susp = c.susp
      BY <2>8, <2>10 DEF Sound, Typed, Names
    <3> QED BY <2>4, <2>8, <3>1 DEF SameUse
  <2> QED BY <2>7, <2>9, <2>10
<1> QED BY <1>2, <1>3, <1>4

(* Every step keeps the line sound.                                        *)
LEMMA BalancedStep == BalancedInv /\ [Next]_vars => BalancedInv'
<1> SUFFICES ASSUME BalancedInv, [Next]_vars PROVE BalancedInv'
  OBVIOUS
<1>1. ASSUME Sound(l'), l'.suspended = l.suspended, l'.susp => l.susp,
             asleep' = asleep, rem' \in [step : Steps, next : {"card", "isa"}],
             rem' = rem \/ ~asleep
      PROVE  BalancedInv'
  BY <1>1 DEF BalancedInv, Frozen
<1>2. ASSUME UNCHANGED <<l, asleep>>, rem' \in [step : Steps, next : {"card", "isa"}],
             rem' = rem \/ ~asleep
      PROVE  BalancedInv'
  BY <1>2 DEF BalancedInv, Frozen
<1>3. CASE UNCHANGED vars \/ OtherDriver
  BY <1>2, <1>3 DEF vars, OtherDriver, BalancedInv
<1>4. ASSUME NEW p \in Files,
             \/ TtyOpen(p) \/ OpenInterrupted(p) \/ OpenOn(p) \/ BlockedOver(p)
             \/ Closing(p) \/ Ioctl(p)
      PROVE  BalancedInv'
  <2>1. CASE TtyOpen(p) \/ OpenInterrupted(p) \/ OpenNoPort(p) \/ CloseWake(p)
             \/ CloseWaitOver(p) \/ Ask(p) \/ AskRefused(p)
    <3>1. UNCHANGED <<l, asleep, rem>>
      BY <2>1 DEF TtyOpen, OpenInterrupted, OpenNoPort, CloseWake, CloseWaitOver, Ask, AskRefused
    <3> QED BY <1>2, <3>1 DEF BalancedInv
  <2>2. CASE OpenHungUp(p) \/ OpenStart(p)
    <3>1. UNCHANGED <<asleep, rem>>
      BY <2>2 DEF OpenHungUp, OpenStart
    <3> QED BY <1>1, <2>2, <3>1, OpensBalanced DEF BalancedInv
  <2>3. CASE BlockTilReady(p) \/ BlockedOver(p) \/ CloseNotLast(p) \/ CloseLast(p)
    <3>1. UNCHANGED <<asleep, rem>>
      BY <2>3 DEF BlockTilReady, BlockedOver, CloseNotLast, CloseLast
    <3> QED BY <1>1, <2>3, <3>1, WaitsBalanced DEF BalancedInv
  <2>4. CASE CloseFinish(p)
    <3>1. UNCHANGED <<asleep, rem>>
      BY <2>4 DEF CloseFinish
    <3> QED BY <1>1, <2>4, <3>1, DownsBalanced DEF BalancedInv
  <2>5. CASE SetFlags(p) \/ SetIrq(p) \/ SetPort(p) \/ Autoconfig(p)
    <3>1. UNCHANGED <<asleep, rem>>
      BY <2>5 DEF SetFlags, SetIrq, SetPort, Autoconfig, Answered
    <3> QED BY <1>1, <2>5, <3>1, IoctlBalanced DEF BalancedInv
  <2> QED BY <1>4, <2>1, <2>2, <2>3, <2>4, <2>5 DEF OpenOn, Closing, Ioctl
<1>5. CASE HangUp
  <2>1. UNCHANGED <<asleep, rem>> /\ Vhangup
    BY <1>5 DEF HangUp
  <2> QED BY <1>1, <2>1, DownsBalanced DEF BalancedInv
<1>6. CASE Suspend \/ Resume
  <2>1. Sound(l') /\ Frozen'
    BY <1>6, SleepBalanced
  <2>2. asleep' \in BOOLEAN /\ rem' = rem
    BY <1>6 DEF Suspend, Resume
  <2> QED BY <2>1, <2>2 DEF BalancedInv
<1>7. CASE RemoveHangUp
  <2>1. /\ asleep' = asleep /\ ~asleep
        /\ rem' \in [step : Steps, next : {"card", "isa"}]
    BY <1>7 DEF RemoveHangUp, BalancedInv, Steps
  <2>2. CASE Vhangup
    BY <1>1, <2>1, <2>2, DownsBalanced
  <2>3. CASE UNCHANGED l
    BY <1>2, <2>1, <2>3
  <2> QED BY <1>7, <2>2, <2>3 DEF RemoveHangUp
<1>8. CASE RemoveBegin \/ RemoveRelease \/ Add
  <2>1. /\ asleep' = asleep /\ ~asleep
        /\ rem' \in [step : Steps, next : {"card", "isa"}]
    <3>1. CASE RemoveBegin
      BY <3>1 DEF RemoveBegin, Steps
    <3>2. CASE RemoveRelease
      BY <3>2 DEF RemoveRelease, BalancedInv, Steps
    <3>3. CASE Add
      BY <3>3 DEF Add, BalancedInv, Steps
    <3> QED BY <1>8, <3>1, <3>2, <3>3
  <2>2. Sound(l') /\ l'.suspended = l.suspended /\ l'.susp = l.susp
    BY <1>8, RemovalBalanced
  <2> QED BY <1>1, <2>1, <2>2
<1> QED BY <1>3, <1>4, <1>5, <1>6, <1>7, <1>8 DEF Next, Removing

-----------------------------------------------------------------------------
(* A line as uart_add_one_port has just attached it.                       *)
LEMMA CoreStart == Init => CoreInv
<1> SUFFICES ASSUME Init PROVE CoreInv
  OBVIOUS
<1>1. PICK a \in Addrs : a = CHOOSE x \in Addrs : TRUE
  BY CoreAssumption
<1>2. l = [attached |-> TRUE, dead |-> FALSE, known |-> FALSE, addr |-> a,
           fixed |-> FALSE, suspended |-> FALSE, started |-> 0,
           init |-> FALSE, susp |-> FALSE, active |-> FALSE, closing |-> FALSE,
           count |-> 0, blocked |-> 0, tty |-> "none", pm |-> "new", xmit |-> FALSE,
           ddata |-> FALSE, ioerr |-> FALSE, result |-> "none"]
  BY <1>1 DEF Init, Attached
<1>3. /\ Sound(l) /\ l.attached = TRUE /\ l.dead = FALSE /\ l.known = FALSE
      /\ l.suspended = FALSE /\ l.init = FALSE /\ l.susp = FALSE /\ l.active = FALSE
      /\ l.closing = FALSE /\ l.count = 0 /\ l.blocked = 0 /\ l.ddata = FALSE
  BY <1>1, <1>2 DEF Sound, Typed, Names
<1>4. /\ pc \in [Files -> PCs] /\ \A p \in Files : pc[p] = "out"
      /\ hung \in [Files -> BOOLEAN] /\ region \in [Addrs -> {"free", "ours", "other"}]
      /\ \A x \in Addrs : region[x] # "ours"
      /\ rem \in [step : Steps, next : {"card", "isa"}] /\ rem.step = "idle"
      /\ asleep = FALSE /\ stray = FALSE
  BY DEF Init, PCs, Steps
<1>5. Openers = {} /\ Blocked = {} /\ Cardinality({}) = 0
  BY <1>4, FS_EmptySet DEF Openers, Blocked, CountedPCs
<1>6. CountIsOpeners /\ BlockedCounted
  BY <1>3, <1>5 DEF CountIsOpeners, BlockedCounted, Openers, CountedPCs
<1>7. TypeOK
  <2>1. l.blocked \in 0 .. Cardinality(Files)
    BY <1>3, CoreAssumption, FS_CardinalityType
  <2>2. /\ l.count \in Nat /\ l.started \in 0 .. 1 /\ l.addr \in Addrs
        /\ l.tty \in {"none", "now", "old"} /\ l.pm \in {"new", "on", "off"}
    BY <1>3 DEF Sound, Typed
  <2> QED BY <1>4, <2>1, <2>2 DEF TypeOK
<1>8. Frozen /\ Bound /\ ForSomebody /\ TtyKept /\ ClosingAlone
  BY <1>3, <1>4 DEF Frozen, Bound, ForSomebody, TtyKept, ClosingAlone
<1>9. ServedInv /\ RegionKept /\ Removal
  BY <1>3, <1>4 DEF ServedInv, RegionKept, RegionHeld, Removal
<1> QED BY <1>3, <1>4, <1>6, <1>7, <1>8, <1>9 DEF CoreInv

(* A step that changes nothing.                                            *)
LEMMA CoreStutter ==
  ASSUME CoreInv, UNCHANGED vars
  PROVE  CoreInv'
<1>1. Facts
  BY CoreFacts
<1>2. Servers' = Servers /\ Blocked' = Blocked
  BY DEF Servers, Openers, Blocked, vars
<1>3. (RegionKept /\ Frozen /\ ServedInv /\ Removal)'
  BY <1>2 DEF vars, CoreInv, RegionKept, RegionHeld, Frozen, ServedInv, Removal
<1> QED BY <1>1, <1>3, LineStep DEF vars, Facts, CoreInv, TypeOK

(* The steps of one file.                                                  *)
LEMMA FileStep ==
  ASSUME Races \subseteq RegionRaces, CoreInv, NEW p \in Files,
         \/ TtyOpen(p) \/ OpenInterrupted(p) \/ OpenOn(p) \/ BlockedOver(p)
         \/ Closing(p) \/ Ioctl(p)
  PROVE  CoreInv'
<1>1. CASE TtyOpen(p)
  BY <1>1, MoveStep DEF TtyOpen, PCs
<1>2. CASE OpenInterrupted(p) \/ OpenNoPort(p)
  <2>1. ~l.ddata
    <3>1. l.ddata => FALSE
      BY <1>2 DEF OpenInterrupted, OpenNoPort, Race, RegionRaces
    <3> QED BY <3>1
  <2> QED BY <1>2, <2>1, MoveStep DEF OpenInterrupted, OpenNoPort, PCs
<1>3. CASE OpenHungUp(p) \/ OpenStart(p)
  BY <1>3, HungUpStep, StartStep
<1>4. CASE BlockTilReady(p)
  BY <1>4, ReadyStep
<1>5. CASE CloseWake(p) \/ CloseWaitOver(p)
  BY <1>5, MoveStep DEF CloseWake, CloseWaitOver, PCs
<1>6. CASE BlockedOver(p)
  BY <1>6, BlockedStep
<1>7. CASE Closing(p)
  BY <1>7, NotLastStep, LastStep, FinishStep DEF Closing
<1>8. CASE SetFlags(p) \/ SetIrq(p)
  BY <1>8, SetFlagsStep
<1>9. CASE SetPort(p) \/ Autoconfig(p)
  BY <1>9, SetPortStep, AutoconfigStep
<1>10. CASE Ask(p)
  <2>1. l.attached
    BY <1>10 DEF Ask, CoreInv, Removal
  <2>2. stray' = stray
    BY <1>10, <2>1 DEF Ask, CoreInv, TypeOK
  <2> QED BY <1>10, <2>2, MoveStep DEF Ask, PCs
<1>11. CASE AskRefused(p)
  BY <1>11, MoveStep DEF AskRefused, Asking, PCs
<1> QED
  BY <1>1, <1>2, <1>3, <1>4, <1>5, <1>6, <1>7, <1>8, <1>9, <1>10, <1>11 DEF OpenOn, Ioctl

(* CoreInv is inductive unless one of the other races happens.             *)
LEMMA CoreStep ==
  ASSUME Races \subseteq RegionRaces
  PROVE  CoreInv /\ [Next]_vars => CoreInv'
<1> SUFFICES ASSUME CoreInv, [Next]_vars PROVE CoreInv'
  OBVIOUS
<1>1. CASE UNCHANGED vars
  BY <1>1, CoreStutter
<1>2. ASSUME NEW p \in Files,
             \/ TtyOpen(p) \/ OpenInterrupted(p) \/ OpenOn(p) \/ BlockedOver(p)
             \/ Closing(p) \/ Ioctl(p)
      PROVE  CoreInv'
  BY <1>2, FileStep
<1>3. CASE HangUp
  BY <1>3, VhangupStep DEF HangUp, CoreInv, TypeOK
<1>4. CASE Suspend \/ Resume
  BY <1>4, SuspendStep, ResumeStep
<1>5. CASE RemoveBegin
  BY <1>5, RemoveBeginStep
<1>6. CASE Removing
  BY <1>6, RemoveHangUpStep, RemoveReleaseStep, AddStep DEF Removing
<1>7. CASE OtherDriver
  BY <1>7, OtherDriverStep
<1> QED BY <1>1, <1>2, <1>3, <1>4, <1>5, <1>6, <1>7 DEF Next

(* The port is started at most once, not while it is suspended, and never  *)
(* shut down twice, even in the interleavings named at Race.               *)
THEOREM NeverTwice == Spec => []Balanced
<1>1. BalancedInv => Balanced
  BY DEF BalancedInv, Sound, Balanced
<1>2. Init => BalancedInv
  <2>1. CoreInv => BalancedInv
    BY DEF CoreInv, TypeOK, BalancedInv
  <2> QED BY <2>1, CoreStart
<1>3. BalancedInv /\ [Next]_vars => BalancedInv'
  BY BalancedStep
<1> QED BY <1>1, <1>2, <1>3, PTL DEF Spec

(* The handlers never start or shut down a port twice, and it runs only    *)
(* for a file that is there and was not hung up: uart_startup and          *)
(* uart_shutdown, whatever set_info, suspend, resume, hang-up and removal  *)
(* do in between, for any number of files and addresses.  The hypothesis   *)
(* excludes the races that are not about a busy region; of the ioctls that *)
(* wait across a hang-up, one that starts a port that is down              *)
(* (hungup_start) and no other.                                            *)
THEOREM StartsCorrect == ASSUME Races \subseteq RegionRaces PROVE Spec => []StartsBalanced
<1>1. CoreInv => StartsBalanced
  <2> SUFFICES ASSUME CoreInv PROVE StartsBalanced
    OBVIOUS
  <2>1. TypeOK /\ Balanced
    BY DEF CoreInv, Sound, Balanced
  <2>2. StartedForSomebody
    BY DEF CoreInv, ForSomebody, Servers, Openers, CountedPCs, StartedForSomebody
  <2> QED BY <2>1, <2>2 DEF StartsBalanced
<1>2. CoreInv /\ [Next]_vars => CoreInv'
  BY CoreStep
<1> QED BY <1>1, <1>2, CoreStart, PTL DEF Spec

(* port->count is the number of the files that uart_open counted.          *)
THEOREM CountCorrect == ASSUME Races \subseteq RegionRaces PROVE Spec => []CountIsOpeners
<1>1. CoreInv => CountIsOpeners
  BY DEF CoreInv
<1>2. CoreInv /\ [Next]_vars => CoreInv'
  BY CoreStep
<1> QED BY <1>1, <1>2, CoreStart, PTL DEF Spec

(* No close, hang-up or failed open of one file takes a typed port from    *)
(* under another file that has it open.                                    *)
THEOREM ServedCorrect == ASSUME Races \subseteq RegionRaces PROVE Spec => []OpenPortServed
<1>1. CoreInv => OpenPortServed
  BY DEF CoreInv, ServedInv, OpenPortServed
<1>2. CoreInv /\ [Next]_vars => CoreInv'
  BY CoreStep
<1> QED BY <1>1, <1>2, CoreStart, PTL DEF Spec

(* A typed port holds its address and no other, however other drivers come *)
(* and go: set_info, autoconfig, removal and attachment pass it on.        *)
THEOREM RegionCorrect == ASSUME Races = {} PROVE Spec => []RegionHeld
<1>1. CoreInv => RegionHeld
  BY DEF CoreInv, RegionKept
<1>2. CoreInv /\ [Next]_vars => CoreInv'
  <2>1. Races \subseteq RegionRaces
    OBVIOUS
  <2> QED BY <2>1, CoreStep
<1> QED BY <1>1, <1>2, CoreStart, PTL DEF Spec

(* Once uart_remove_one_port has released the regions the hardware is down *)
(* and nobody looks at the port any more, if no close is owed and no ioctl *)
(* waits at that moment (drain_remove, ask_remove) and none of the races   *)
(* before it happened.                                                     *)
THEOREM RemovalCorrect == ASSUME Races \subseteq RegionRaces PROVE Spec => []RemovedIsQuiet
<1>1. CoreInv => RemovedIsQuiet
  <2> SUFFICES ASSUME CoreInv PROVE RemovedIsQuiet
    OBVIOUS
  <2>1. ~l.attached => Servers = {} /\ ~l.init
    BY DEF CoreInv, Removal, ForSomebody
  <2>2. ~l.attached => \A p \in Files : pc[p] \in {"open", "asking"} => hung[p]
    BY <2>1 DEF Servers, Openers, CountedPCs
  <2>3. ~l.init => l.started = 0
    BY DEF CoreInv, Sound
  <2> QED BY <2>1, <2>2, <2>3 DEF CoreInv, RemovedIsQuiet
<1>2. CoreInv /\ [Next]_vars => CoreInv'
  BY CoreStep
<1> QED BY <1>1, <1>2, CoreStart, PTL DEF Spec
=============================================================================
