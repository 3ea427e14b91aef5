----------------------------- MODULE SerialCore -----------------------------
(***************************************************************************)
(* The life cycle of one serial line: serial_core.c's open, close, hang-up, *)
(* TIOCSSERIAL and TIOCSERCONFIG, suspend and resume, and the attaching and *)
(* detaching of a port, with the resource and port-table handlers of        *)
(* 8250.c they call.                                                        *)
(*                                                                          *)
(* Everything done under port->mutex is one step.  What runs outside of it  *)
(* keeps its gaps: an open waits for the mutex, then, with the mutex        *)
(* released, for a closing port and for the carrier; a close gives up the   *)
(* tty lock while output drains; an ioctl waits for its arguments and for   *)
(* the mutex, and the file may be hung up or the port removed before it     *)
(* gets them; a removal marks the port dead, hangs the line up, releases    *)
(* the regions and only then forgets the port.  The tty                     *)
(* layer (tty_port_block_til_ready, tty_port_close_start, tty_vhangup) is   *)
(* not in this repository: it is modelled from how serial_core.c uses it.   *)
(***************************************************************************)
EXTENDS Naturals, FiniteSets

CONSTANTS
  Files,    \* the files that are opened on the line
  Addrs,    \* the addresses the port may be configured at
  Others,   \* whether another driver may claim an address that is free
  Races     \* which of the interleavings named at Race below may happen

RaceNames == {"late_hangup", "refused_close", "drain_remove", "two_closes",
              "config_busy", "info_busy", "hungup_start", "ask_remove"}

ASSUME CoreAssumption ==
  /\ IsFiniteSet(Files)
  /\ Addrs # {}
  /\ Others \in BOOLEAN
  /\ Races \subseteq RaceNames

VARIABLES
  pc,      \* Files -> "out", "opening", "ready", "closewait", "woken", "blocked", "open", "asking" (open,
           \* with an ioctl under way), "failed" (an open that failed, counted), "refused" (one that
           \* did not count) or "draining"
  hung,    \* Files -> tty_hung_up_p
  l,       \* the line: uart_state, tty_port, tty flags and uart_port
  region,  \* Addrs -> who holds the address: "free", "ours" or "other"
  rem,     \* how far uart_remove_one_port is, and who gets the line after it
  asleep,  \* the system is suspended and user processes are frozen
  stray    \* uart_port was dereferenced, or read to be used later, while it was NULL, a history variable

vars == <<pc, hung, l, region, rem, asleep, stray>>

-----------------------------------------------------------------------------
(* One line.  started counts low-level startups less shutdowns; result is   *)
(* what the last uart_startup came to, a history variable.                  *)

Attached == [attached |-> TRUE, dead |-> FALSE, known |-> FALSE, addr |-> CHOOSE x \in Addrs : TRUE,
             fixed |-> FALSE, suspended |-> FALSE, started |-> 0,
             init |-> FALSE, susp |-> FALSE, active |-> FALSE, closing |-> FALSE,
             count |-> 0, blocked |-> 0, tty |-> "none", pm |-> "new", xmit |-> FALSE,
             ddata |-> FALSE, ioerr |-> FALSE, result |-> "none"]

Present == {p \in Files : pc[p] # "out"}      \* tty->count files
Users   == l.count + l.blocked                \* tty_port_users

(* The tty layer runs opens, closes and hang-ups one at a time; its lock is *)
(* dropped when they sleep.  uart_open keeps it from uart_startup to        *)
(* tty_port_block_til_ready, though not port->mutex.                        *)
TtyLockFree == \A p \in Files : pc[p] # "ready"

(* uart_startup: nothing for an initialised port; a port without a type    *)
(* opens with TTY_IO_ERROR set, and so does one the low level fails, for an *)
(* administrator.                                                           *)
UartStartup(s, ok) ==
  IF s.init THEN s
  ELSE IF ~s.known THEN [s EXCEPT !.ioerr = TRUE, !.result = "unknown"]
  ELSE IF ok THEN [s EXCEPT !.xmit = TRUE, !.started = @ + 1, !.init = TRUE, !.ioerr = FALSE,
                            !.result = "ok"]
  ELSE [s EXCEPT !.xmit = TRUE, !.ioerr = TRUE, !.result = "failed"]

(* A defect: uart_shutdown leaves ASYNC_SUSPENDED set.                      *)
UartShutdownKeepsSuspended(s, withTty) ==
  [s EXCEPT !.ioerr = @ \/ withTty, !.started = IF s.init THEN @ - 1 ELSE @,
            !.init = FALSE, !.xmit = FALSE]

(* uart_shutdown; withTty when it was given a tty.                          *)
UartShutdown(s, withTty) ==
  [s EXCEPT !.ioerr = @ \/ withTty, !.started = IF s.init THEN @ - 1 ELSE @,
            !.init = FALSE, !.susp = FALSE, !.xmit = FALSE]

(* uart_change_pm.                                                          *)
ChangePm(s, state) == [s EXCEPT !.pm = state]

(* serial8250_request_port and serial8250_release_port.  Releasing an       *)
(* address somebody else holds frees it all the same.                       *)
CanRequest(r, x)    == r[x] = "free"
RequestPort(r, x)   == IF CanRequest(r, x) THEN [r EXCEPT ![x] = "ours"] ELSE r
ReleasePort(r, x)   == [r EXCEPT ![x] = "free"]
ReleaseOld(s, r)    == IF s.known THEN ReleasePort(r, s.addr) ELSE r

(* serial8250_config_port: claim the region and probe it.  The probe finds  *)
(* a type, finds that there is none, or fails its existence test, which     *)
(* leaves the type as it was.                                               *)
Probed(s, outcome) ==
  CASE outcome = "found"   -> TRUE
    [] outcome = "nothing" -> FALSE
    [] outcome = "absent"  -> s.known
ConfigType(s, r, withType, outcome) ==
  IF CanRequest(r, s.addr) /\ withType THEN [s EXCEPT !.known = Probed(s, outcome)] ELSE s
ConfigRegion(s, r, withType, outcome) ==
  IF ConfigType(s, r, withType, outcome).known THEN RequestPort(r, s.addr) ELSE r

Outcomes == {"found", "nothing", "absent"}

(* Interleavings that the code gets wrong; a run names the ones it allows.  *)
(*   late_hangup   a hang-up meets an open that has not finished, on a port *)
(*                 no other open has made active                            *)
(*   refused_close the file of an open that was refused, not counted, is    *)
(*                 closed while another file has the port open              *)
(*   drain_remove  a port is removed while a close waits for output or an   *)
(*                 open that failed is still to be closed                   *)
(*   two_closes    an open that failed during a close is closed too before  *)
(*                 that close is over                                       *)
(*   config_busy   config_port finds the address of a typed port taken      *)
(*   info_busy     TIOCSSERIAL gives a port that had no type one whose      *)
(*                 address is taken                                         *)
(*   hungup_start  an ioctl that waited while its file was hung up starts a *)
(*                 port that is down, with no file left to shut it down     *)
(*   ask_remove    the regions of a port are released and uart_port is      *)
(*                 cleared while an ioctl waits that will use them          *)
Race(name) == name \in Races

-----------------------------------------------------------------------------
(* uart_open.                                                               *)

(* tty_open: the file is on the tty's list before the driver's open runs.   *)
TtyOpen(p) ==
  /\ pc[p] = "out" /\ TtyLockFree /\ ~asleep
  /\ pc' = [pc EXCEPT ![p] = "opening"]
  /\ hung' = [hung EXCEPT ![p] = FALSE]
  /\ UNCHANGED <<l, region, rem, asleep, stray>>

(* mutex_lock_interruptible fails.                                          *)
OpenInterrupted(p) ==
  /\ pc[p] = "opening" /\ TtyLockFree /\ ~asleep
  /\ l.ddata => Race("refused_close")
  /\ pc' = [pc EXCEPT ![p] = "refused"]
  /\ UNCHANGED <<hung, l, region, rem, asleep, stray>>

(* No port, or a dead one: count is taken back and driver_data stays unset. *)
OpenNoPort(p) ==
  /\ pc[p] = "opening" /\ TtyLockFree /\ ~asleep
  /\ ~l.attached \/ l.dead
  /\ l.ddata => Race("refused_close")
  /\ pc' = [pc EXCEPT ![p] = "refused"]
  /\ UNCHANGED <<hung, l, region, rem, asleep, stray>>

NoneRefused == \A q \in Files : pc[q] = "refused" => hung[q]

OpenBound == [l EXCEPT !.ddata = TRUE, !.tty = "now"]

(* A defect: an open of a running port is not counted.                      *)
CountedWhenDown(s) == [s EXCEPT !.count = IF s.init THEN @ ELSE @ + 1]

Counted(s) == [s EXCEPT !.count = @ + 1]

(* The file was hung up while it waited for the mutex.                      *)
OpenHungUp(p) ==
  /\ pc[p] = "opening" /\ TtyLockFree /\ ~asleep /\ hung[p]
  /\ l.attached /\ ~l.dead
  /\ NoneRefused \/ Race("refused_close")
  /\ l' = OpenBound
  /\ pc' = [pc EXCEPT ![p] = "refused"]
  /\ UNCHANGED <<hung, region, rem, asleep, stray>>

(* The first user powers the port up; then the port is started.  A startup  *)
(* that fails is an error for all but an administrator.                     *)
OpenStart(p) ==
  /\ pc[p] = "opening" /\ TtyLockFree /\ ~asleep /\ ~hung[p]
  /\ l.attached /\ ~l.dead
  /\ NoneRefused \/ Race("refused_close")
  /\ \E ok, admin \in BOOLEAN :
       LET counted == Counted(OpenBound)
           powered == IF counted.count = 1 THEN ChangePm(counted, "on") ELSE counted
           started == UartStartup(powered, ok)
       IN /\ l' = started
          /\ pc' = [pc EXCEPT ![p] = IF started.result = "failed" /\ ~started.init /\ ~admin
                                     THEN "failed" ELSE "ready"]
  /\ UNCHANGED <<hung, region, rem, asleep, stray>>

-----------------------------------------------------------------------------
(* tty_port_block_til_ready, from its use in uart_open.  A port that is     *)
(* closing refuses the open, after the close; without blocking, or with     *)
(* TTY_IO_ERROR set, the open is over; otherwise the file is not counted    *)
(* while it waits for the carrier.                                          *)
BlockTilReady(p) ==
  /\ pc[p] = "ready" /\ ~asleep
  /\ \/ /\ l.closing
        /\ pc' = [pc EXCEPT ![p] = "closewait"]
        /\ UNCHANGED l
     \/ /\ ~l.closing
        /\ pc' = [pc EXCEPT ![p] = "open"]
        /\ l' = [l EXCEPT !.active = TRUE]
     \/ /\ ~l.closing /\ ~l.ioerr
        /\ pc' = [pc EXCEPT ![p] = "blocked"]
        /\ l' = [l EXCEPT !.count = @ - 1, !.blocked = @ + 1]
  /\ UNCHANGED <<hung, region, rem, asleep, stray>>

(* The close wakes the waiter, which looks again once it has the tty lock.  *)
CloseWake(p) ==
  /\ pc[p] = "closewait" /\ ~asleep /\ ~l.closing
  /\ pc' = [pc EXCEPT ![p] = "woken"]
  /\ UNCHANGED <<hung, l, region, rem, asleep, stray>>

CloseWaitOver(p) ==
  /\ pc[p] = "woken" /\ TtyLockFree /\ ~asleep
  /\ pc' = [pc EXCEPT ![p] = IF l.closing THEN "closewait" ELSE "failed"]
  /\ UNCHANGED <<hung, l, region, rem, asleep, stray>>

(* The waiting file sees the carrier, a signal, a hang-up or a port that is *)
(* no longer initialised; it is counted again unless it was hung up.        *)
BlockedOver(p) ==
  /\ pc[p] = "blocked" /\ TtyLockFree /\ ~asleep
  /\ \E ok \in BOOLEAN :
       /\ ok => ~hung[p] /\ l.init /\ ~l.closing
       /\ pc' = [pc EXCEPT ![p] = IF ok THEN "open" ELSE "failed"]
       /\ l' = [l EXCEPT !.count = IF hung[p] THEN @ ELSE @ + 1, !.blocked = @ - 1,
                         !.active = @ \/ ok]
  /\ UNCHANGED <<hung, region, rem, asleep, stray>>

-----------------------------------------------------------------------------
(* uart_close.                                                              *)

(* The last file takes the tty with it; the port keeps a pointer to it.     *)
Leave(p, s) ==
  IF Present = {p}
  THEN [s EXCEPT !.ddata = FALSE, !.ioerr = FALSE, !.tty = IF @ = "now" THEN "old" ELSE @]
  ELSE s

(* tty_port_close_start: a count that disagrees with the tty's is mended.   *)
Mended == IF Cardinality(Present) = 1 THEN 1 ELSE l.count

(* A file without driver_data, a file that was hung up and every file but   *)
(* the last have nothing to close.                                          *)
CloseNotLast(p) ==
  /\ pc[p] \in {"open", "failed", "refused"} /\ TtyLockFree /\ ~asleep
  /\ ~l.ddata \/ hung[p] \/ Mended > 1
  /\ l' = Leave(p, IF l.ddata /\ ~hung[p] THEN [l EXCEPT !.count = Mended - 1] ELSE l)
  /\ pc' = [pc EXCEPT ![p] = "out"]
  /\ UNCHANGED <<hung, region, rem, asleep, stray>>

(* The last one waits for the output to drain, without the tty lock.        *)
CloseLast(p) ==
  /\ pc[p] \in {"open", "failed", "refused"} /\ TtyLockFree /\ ~asleep
  /\ l.ddata /\ ~hung[p] /\ Mended <= 1
  /\ l.closing => Race("two_closes")
  /\ l' = [l EXCEPT !.count = 0, !.closing = TRUE]
  /\ pc' = [pc EXCEPT ![p] = "draining"]
  /\ UNCHANGED <<hung, region, rem, asleep, stray>>

(* A defect: ASYNC_CLOSING stays set.                                       *)
CloseDoneKeepsClosing(s) == [UartShutdown(s, TRUE) EXCEPT !.tty = "none", !.active = FALSE]

(* Then it shuts the port down, powers it down unless an open is blocked,   *)
(* and lets the waiting opens go on.  uart_flush_buffer looks uart_port up. *)
CloseDone(s) ==
  LET down  == [UartShutdown(s, TRUE) EXCEPT !.tty = "none"]
      power == IF s.blocked = 0 THEN ChangePm(down, "off") ELSE down
  IN [power EXCEPT !.active = FALSE, !.closing = FALSE]

CloseFinish(p) ==
  /\ pc[p] = "draining" /\ TtyLockFree /\ ~asleep
  /\ l' = Leave(p, CloseDone(l))
  /\ pc' = [pc EXCEPT ![p] = "out"]
  /\ stray' = (stray \/ ~l.attached)
  /\ UNCHANGED <<hung, region, rem, asleep>>

-----------------------------------------------------------------------------
(* A defect: a hang-up keeps the count.                                     *)
UartHangupKeepsCount(s) ==
  IF s.active THEN [UartShutdown(s, TRUE) EXCEPT !.active = FALSE, !.tty = "none"] ELSE s

(* tty_vhangup: every file of the tty is hung up, then uart_hangup shuts    *)
(* an active port down and forgets the files it counted.                    *)
UartHangup(s) ==
  IF s.active
  THEN [UartShutdown(s, TRUE) EXCEPT !.count = 0, !.active = FALSE, !.tty = "none"]
  ELSE s

Vhangup ==
  /\ TtyLockFree
  /\ (~l.active /\ Users > 0) => Race("late_hangup")
  /\ l' = UartHangup(l)
  /\ hung' = [p \in Files |-> hung[p] \/ (l.tty = "now" /\ pc[p] # "out")]
  /\ stray' = (stray \/ (l.active /\ ~l.attached))

(* The carrier is lost, or a session ends.                                  *)
HangUp ==
  /\ l.tty = "now"
  /\ Vhangup
  /\ UNCHANGED <<pc, region, rem, asleep>>

-----------------------------------------------------------------------------
(* uart_set_info and uart_do_autoconfig.  The tty layer lets the ioctl of   *)
(* a file that was not hung up in; it reads uart_port, copies its arguments *)
(* and waits for port->mutex, and under the mutex neither asks again.       *)

Ask(p) ==
  /\ pc[p] = "open" /\ ~hung[p] /\ ~asleep
  /\ pc' = [pc EXCEPT ![p] = "asking"]
  /\ stray' = (stray \/ ~l.attached)
  /\ UNCHANGED <<hung, l, region, rem, asleep>>

Asking(p) == pc[p] = "asking" /\ ~asleep

(* -EFAULT, -EPERM, -EINVAL, -EBUSY or a signal: nothing is done.           *)
AskRefused(p) ==
  /\ Asking(p)
  /\ pc' = [pc EXCEPT ![p] = "open"]
  /\ UNCHANGED <<hung, l, region, rem, asleep, stray>>

(* The ioctl leaves the line as s; starts when it came to uart_startup,     *)
(* which looks uart_port up, as uart_shutdown does for a running port.      *)
Answered(p, s, starts) ==
  /\ pc' = [pc EXCEPT ![p] = "open"]
  /\ (hung[p] /\ ~l.init /\ s.init) => Race("hungup_start")
  /\ l' = s
  /\ stray' = (stray \/ (~l.attached /\ (l.init \/ starts)))
  /\ UNCHANGED <<hung, rem, asleep>>

(* check_and_exit: start a typed port that is down.                         *)
CheckAndExit(s, ok) == IF s.known /\ ~s.init THEN UartStartup(s, ok) ELSE s

SetFlags(p) ==
  /\ Asking(p)
  /\ \E ok \in BOOLEAN : Answered(p, CheckAndExit(l, ok), l.known)
  /\ UNCHANGED region

(* The irq changes: only for the sole user.                                 *)
SetIrq(p) ==
  /\ Asking(p) /\ Users <= 1
  /\ \E ok \in BOOLEAN : Answered(p, CheckAndExit(UartShutdown(l, TRUE), ok), l.known)
  /\ UNCHANGED region

(* Another driver may take the address a port has just released.            *)
Regrab(r, x) == {r} \cup (IF Others /\ r[x] = "free" THEN {[r EXCEPT ![x] = "other"]} ELSE {})

(* A defect: a port that lost its address keeps its type.                   *)
RestoredKeepsType(s, r) == [s EXCEPT !.result = "refused"]

(* The old address cannot be had back: the port has no type any more.       *)
Restored(s, r) ==
  [s EXCEPT !.known = CanRequest(r, s.addr), !.result = "refused"]

(* The address or the type changes: release the old region, claim the new;  *)
(* failing that, go back to the old one and leave the port down.            *)
SetPort(p) ==
  /\ Asking(p) /\ Users <= 1
  /\ \E x \in Addrs, known, ok \in BOOLEAN :
     \E r \in Regrab(ReleaseOld(l, region), l.addr) :
       LET down  == UartShutdown(l, TRUE)
           moved == [down EXCEPT !.addr = x, !.known = known]
       IN \/ /\ known => CanRequest(r, x) \/ (~l.known /\ Race("info_busy"))
             /\ Answered(p, CheckAndExit(moved, ok), known)
             /\ region' = IF known THEN RequestPort(r, x) ELSE r
          \/ /\ known /\ ~CanRequest(r, x) /\ l.known
             /\ Answered(p, Restored(down, r), FALSE)
             /\ region' = RequestPort(r, l.addr)

Autoconfig(p) ==
  /\ Asking(p) /\ Users = 1
  /\ \E ok \in BOOLEAN, outcome \in Outcomes :
     \E r \in Regrab(ReleaseOld(l, region), l.addr) :
       LET down == UartShutdown(l, TRUE)
       IN /\ (l.known /\ ~CanRequest(r, l.addr)) => Race("config_busy")
          /\ Answered(p, UartStartup(ConfigType(down, r, TRUE, outcome), ok), TRUE)
          /\ region' = ConfigRegion(down, r, TRUE, outcome)

-----------------------------------------------------------------------------
(* uart_suspend_port and uart_resume_port, with the processes frozen.       *)

Suspended(s) ==
  LET marked == [s EXCEPT !.suspended = TRUE]
      downed == IF s.init THEN [marked EXCEPT !.susp = TRUE, !.init = FALSE, !.started = @ - 1]
                ELSE marked
  IN ChangePm(downed, "off")

(* A device that may wake the system up is left running.                    *)
Suspend ==
  /\ ~asleep /\ l.attached /\ l.known /\ rem.step = "idle"
  /\ asleep' = TRUE
  /\ l' \in {l, Suspended(l)}
  /\ UNCHANGED <<pc, hung, region, rem, stray>>

Resumed(s, ok) ==
  LET woken == [s EXCEPT !.suspended = FALSE]
      up    == ChangePm(woken, "on")
  IN IF ~s.susp THEN woken
     ELSE IF ok THEN [up EXCEPT !.started = @ + 1, !.init = TRUE, !.susp = FALSE]
     ELSE [UartShutdown(up, s.tty # "none") EXCEPT !.result = "failed"]

Resume ==
  /\ asleep
  /\ asleep' = FALSE
  /\ \E ok \in BOOLEAN : l' = IF l.suspended THEN Resumed(l, ok) ELSE l
  /\ UNCHANGED <<pc, hung, region, rem, stray>>

-----------------------------------------------------------------------------
(* uart_remove_one_port, uart_add_one_port and, around them,                *)
(* serial8250_register_port (next = "card") and serial8250_unregister_port, *)
(* which gives the line back to the ISA devices (next = "isa").             *)

RemoveBegin ==
  /\ rem.step = "idle" /\ ~asleep
  /\ rem' = [step |-> "dead", next |-> IF rem.next = "isa" THEN "card" ELSE "isa"]
  /\ l' = [l EXCEPT !.dead = TRUE]
  /\ UNCHANGED <<pc, hung, region, asleep, stray>>

(* A defect: a removal does not hang the line up.                           *)
RemoveHangUpNobody ==
  /\ rem.step = "dead" /\ ~asleep
  /\ rem' = [rem EXCEPT !.step = "hungup"]
  /\ UNCHANGED <<pc, hung, l, region, asleep, stray>>

RemoveHangUp ==
  /\ rem.step = "dead" /\ ~asleep
  /\ rem' = [rem EXCEPT !.step = "hungup"]
  /\ IF l.tty = "none" THEN UNCHANGED <<l, hung, stray>> ELSE Vhangup
  /\ UNCHANGED <<pc, region, asleep>>

CloseOwed(p) == pc[p] = "draining" \/ (pc[p] \in {"closewait", "woken", "blocked", "failed"} /\ ~hung[p])

RemoveRelease ==
  /\ rem.step = "hungup" /\ ~asleep
  /\ (\E p \in Files : CloseOwed(p)) => Race("drain_remove")
  /\ (\E p \in Files : pc[p] = "asking") => Race("ask_remove")
  /\ rem' = [rem EXCEPT !.step = "gone"]
  /\ region' = ReleaseOld(l, region)
  /\ l' = [l EXCEPT !.known = FALSE, !.attached = FALSE]
  /\ UNCHANGED <<pc, hung, asleep, stray>>

(* uart_configure_port probes what register_port added, for its type too    *)
(* unless that is fixed, and powers a port it knows down.                   *)
Add ==
  /\ rem.step = "gone" /\ ~asleep
  /\ rem' = [rem EXCEPT !.step = "idle"]
  /\ \E x \in Addrs, fixed \in BOOLEAN, outcome \in Outcomes :
       LET card  == rem.next = "card"
           fresh == [l EXCEPT !.attached = TRUE, !.dead = FALSE, !.pm = "new",
                              !.addr = IF card THEN x ELSE @, !.known = card /\ fixed]
           conf  == ConfigType(fresh, region, ~fixed, outcome)
       IN /\ (card /\ fixed /\ ~CanRequest(region, x)) => Race("config_busy")
          /\ l' = IF card /\ conf.known THEN ChangePm(conf, "off") ELSE fresh
          /\ region' = IF card THEN ConfigRegion(fresh, region, ~fixed, outcome) ELSE region
  /\ UNCHANGED <<pc, hung, asleep, stray>>

(* Another driver claims and gives back an address.                         *)
OtherDriver ==
  /\ Others /\ ~asleep
  /\ \E x \in Addrs : \/ region[x] = "free"  /\ region' = [region EXCEPT ![x] = "other"]
                      \/ region[x] = "other" /\ region' = [region EXCEPT ![x] = "free"]
  /\ UNCHANGED <<pc, hung, l, rem, asleep, stray>>

-----------------------------------------------------------------------------
Init ==
  /\ pc = [p \in Files |-> "out"]
  /\ hung = [p \in Files |-> FALSE]
  /\ l = Attached
  /\ region = [x \in Addrs |-> "free"]
  /\ rem = [step |-> "idle", next |-> "isa"]
  /\ asleep = FALSE
  /\ stray = FALSE

OpenOn(p)  == \/ OpenNoPort(p) \/ OpenHungUp(p) \/ OpenStart(p)
              \/ BlockTilReady(p) \/ CloseWake(p) \/ CloseWaitOver(p)
Closing(p) == CloseNotLast(p) \/ CloseLast(p) \/ CloseFinish(p)
Removing   == RemoveHangUp \/ RemoveRelease \/ Add

Ioctl(p)   == Ask(p) \/ AskRefused(p) \/ SetFlags(p) \/ SetIrq(p) \/ SetPort(p) \/ Autoconfig(p)

Next ==
  \/ \E p \in Files : \/ TtyOpen(p) \/ OpenInterrupted(p) \/ OpenOn(p) \/ BlockedOver(p)
                      \/ Closing(p) \/ Ioctl(p)
  \/ HangUp \/ Suspend \/ Resume
  \/ RemoveBegin \/ Removing \/ OtherDriver

Spec == Init /\ [][Next]_vars

(* Opens, closes and removals under way go on, the tty lock is not withheld *)
(* from one for ever, and some time the system sleeps no more; nobody has   *)
(* to open, close or see the carrier.                                       *)
FairSpec ==
  /\ Spec
  /\ \A p \in Files : /\ WF_vars(BlockTilReady(p)) /\ WF_vars(CloseWake(p))
                      /\ SF_vars(CloseWaitOver(p)) /\ SF_vars(CloseFinish(p))
  /\ WF_vars(Removing) /\ <>[]~asleep

-----------------------------------------------------------------------------
PCs   == {"out", "opening", "ready", "closewait", "woken", "blocked", "open", "asking", "failed",
           "refused", "draining"}
Steps == {"idle", "dead", "hungup", "gone"}

(* The state has the shape the handlers expect.                             *)
TypeOK ==
  /\ pc \in [Files -> PCs]
  /\ hung \in [Files -> BOOLEAN]
  /\ region \in [Addrs -> {"free", "ours", "other"}]
  /\ rem \in [step : Steps, next : {"card", "isa"}]
  /\ asleep \in BOOLEAN /\ stray \in BOOLEAN
  /\ l.count \in Nat /\ l.started \in 0 .. 1 /\ l.blocked \in 0 .. Cardinality(Files)
  /\ l.addr \in Addrs /\ l.tty \in {"none", "now", "old"} /\ l.pm \in {"new", "on", "off"}

(* uart_startup and uart_shutdown keep the low level in step with           *)
(* ASYNC_INITIALIZED: never started twice, never shut down twice, and with  *)
(* a transmit buffer while it runs - whatever set_info, suspend, resume and *)
(* hang-ups do in between.                                                  *)
Balanced ==
  /\ l.started = IF l.init THEN 1 ELSE 0
  /\ ~(l.init /\ l.susp)
  /\ l.init \/ l.susp => l.xmit

(* The hardware runs only for somebody: a file that is being opened, open   *)
(* or closing, and that was not hung up.  A port hung up in its sleep stays *)
(* down when the system resumes.                                            *)
StartedForSomebody == l.init => \E p \in Files : pc[p] # "out" /\ (pc[p] = "draining" \/ ~hung[p])

(* The low level is started when and only when it is to run, in every order *)
(* of opens, closes, hang-ups, reconfigurations and sleep.                  *)
StartsBalanced == TypeOK /\ Balanced /\ StartedForSomebody

(* port->count counts the files that uart_open counted and that neither     *)
(* closed, waited for the carrier nor were hung up.                         *)
CountIsOpeners ==
  l.count = Cardinality({p \in Files : ~hung[p] /\ pc[p] \in {"ready", "closewait", "woken", "open", "asking", "failed"}})

(* No close or failed open of one file takes the port from under another    *)
(* that has it open: a typed port stays initialised, or suspended, unless   *)
(* its last start failed.                                                   *)
OpenPortServed ==
  (\E p \in Files : pc[p] \in {"open", "asking"} /\ ~hung[p]) /\ l.known /\ l.result = "ok" => l.init \/ l.susp

(* uart_open powers the port up before it starts it; no close, resume or    *)
(* wait leaves a running port powered down.                                 *)
RunsPowered == l.init => l.pm = "on"

(* A typed port holds its address: it never drives or, later, releases one  *)
(* of another driver, and an untyped one holds none.                        *)
RegionHeld == \A x \in Addrs : region[x] = "ours" <=> (l.known /\ l.addr = x)

(* uart_remove_one_port: "No further calls will be made to the low-level    *)
(* code for this port".  Once the regions are released the hardware is      *)
(* down, every file that is open was hung up, and nothing looks at the port *)
(* that is not there.                                                       *)
RemovedIsQuiet ==
  /\ ~l.attached => ~l.init /\ l.started = 0 /\ \A p \in Files : pc[p] \in {"open", "asking"} => hung[p]
  /\ ~stray

(* An open that meets a close comes back: it does not wait on close_wait    *)
(* for ever, though others may open and close the port again and again      *)
(* meanwhile, because its count keeps their closes from being the last.     *)
(* (A hang-up takes that count away.)                                       *)
Waiting(p)  == pc[p] \in {"ready", "closewait", "woken"} /\ ~hung[p]
OpenReturns == \A p \in Files : Waiting(p) ~> ~Waiting(p)
=============================================================================
