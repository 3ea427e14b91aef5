------------------------------ MODULE IrqChain ------------------------------
(***************************************************************************)
(* Several ports on one interrupt: the chain of ports of 8250.c            *)
(* (serial_link_irq_chain, serial_unlink_irq_chain, serial_do_unlink), the  *)
(* handler that goes round it (serial8250_interrupt), and below them the    *)
(* multi-port card of serial-pci.c, which ORs the ports' interrupts into    *)
(* one line (multi_serial_irq_mux).                                         *)
(*                                                                          *)
(* The ports are started and stopped concurrently, each under its own       *)
(* port->mutex.  hash_mutex covers the whole of an unlinking but only the   *)
(* look-up of a linking; i->lock is held while the list changes and while   *)
(* the handler runs, and not in between.  The handler's visits to the ports *)
(* are steps of their own: work arrives between them.                       *)
(***************************************************************************)
EXTENDS Naturals, SequencesExt, FiniteSets

CONSTANTS
  Ports,       \* the ports that share the interrupt
  Infos,       \* the memory struct irq_info objects are allocated from
  PassLimit,   \* PASS_LIMIT
  MaxWork,     \* bound: interrupt causes a port has at once
  MaxEvents,   \* bound: interrupt causes in one behaviour
  Anchored,    \* whether a start overlaps other starts and stops only while a
               \* port stays up
  BusyStop     \* whether a port on an edge-triggered line may be stopped while it
               \* holds its interrupt up

None == "none"

ASSUME ChainAssumption ==
  /\ IsFiniteSet(Ports) /\ Ports # {}
  /\ Cardinality(Infos) > Cardinality(Ports) /\ None \notin Infos
  /\ PassLimit \in Nat /\ MaxWork \in Nat /\ MaxEvents \in Nat
  /\ Anchored \in BOOLEAN /\ BusyStop \in BOOLEAN

VARIABLES
  edge,     \* the line triggers on a rising edge (ISA) or by its level (PCI)
  pc,       \* Ports -> "down", "linking", "requesting", "up", "stopping" or "freeing"
  work,     \* Ports -> causes that hold the port's interrupt up
  latched,  \* the interrupt controller has seen an edge that no handler has taken
  info,     \* the irq_info in irq_lists, or None
  mine,     \* Ports -> the irq_info a linking found
  ring,     \* Infos -> the circular list, from i->head on; empty when head is NULL
  irq,      \* the irq_info objects request_irq was given
  h,        \* serial8250_interrupt: the info, the port it is at, end, pass_counter
  events,   \* causes so far
  bug       \* a BUG_ON fired or an irq_info was used after kfree, a history variable

vars == <<edge, pc, work, latched, info, mine, ring, irq, h, events, bug>>

-----------------------------------------------------------------------------
(* multi_serial_irq_mux: the card's line is up while any port's is.         *)
LineUp(w) == \E p \in Ports : w[p] > 0

(* A rising edge is latched; it matters only to an edge-triggered line.     *)
Latch(w) == latched \/ (LineUp(w) /\ ~LineUp(work))

(* A port raises its interrupt when something happens to it; it can only    *)
(* while its IER lets it.                                                   *)
Arrive(p) ==
  /\ pc[p] = "up"
  /\ work[p] < MaxWork /\ events < MaxEvents
  /\ work' = [work EXCEPT ![p] = @ + 1]
  /\ latched' = Latch(work')
  /\ events' = events + 1
  /\ UNCHANGED <<edge, pc, info, mine, ring, irq, h, bug>>

-----------------------------------------------------------------------------
(* serial8250_interrupt, which holds i->lock.                               *)
Idle == [info |-> None, at |-> 0, end |-> 0, passes |-> 0]

Running(i) == h.info = i

HandlerEnter ==
  /\ h = Idle
  /\ \E i \in irq :
       /\ IF edge THEN latched ELSE LineUp(work)
       /\ ring[i] # <<>>
       /\ h' = [Idle EXCEPT !.info = i, !.at = 1]
  /\ latched' = FALSE
  /\ UNCHANGED <<edge, pc, work, info, mine, ring, irq, events, bug>>

(* A defect: the mark of the first idle port outlives work found behind it. *)
HandlerNextAnyIdle(at, end, handled) ==
  LET next == IF at = Len(ring[h.info]) THEN 1 ELSE at + 1
      last == IF end = 0 /\ ~handled THEN at ELSE end
  IN IF next = last THEN Idle ELSE [h EXCEPT !.at = next, !.end = last]

(* A defect: the walk ends after one round.                                 *)
HandlerNextOneRound(at, end, handled) ==
  IF at = Len(ring[h.info]) THEN Idle ELSE [h EXCEPT !.at = at + 1]

(* The handler stops at the port it first found idle since a port was last  *)
(* serviced, or after too many rounds.                                      *)
HandlerNext(at, end, handled) ==
  LET next == IF at = Len(ring[h.info]) THEN 1 ELSE at + 1
      last == IF handled THEN 0 ELSE IF end = 0 THEN at ELSE end
      tooMany == next = 1 /\ h.passes > PassLimit
  IN IF next = last \/ tooMany THEN Idle
     ELSE [h EXCEPT !.at = next, !.end = last, !.passes = IF next = 1 THEN @ + 1 ELSE @]

(* serial8250_handle_irq on the port the handler is at: nothing when IIR    *)
(* says so, and else some of its causes are dealt with.                     *)
HandlerVisit ==
  /\ h # Idle
  /\ LET p == ring[h.info][h.at] IN
       /\ \/ work[p] = 0 /\ UNCHANGED work
          \/ \E left \in 0 .. work[p] - 1 : work' = [work EXCEPT ![p] = left]
       /\ h' = HandlerNext(h.at, h.end, work[p] > 0)
  /\ UNCHANGED <<edge, pc, latched, info, mine, ring, irq, events, bug>>

-----------------------------------------------------------------------------
(* Starting a port: serial_link_irq_chain.                                  *)

Up       == {p \in Ports : pc[p] = "up"}
Busy     == {p \in Ports : pc[p] \notin {"down", "up"}}
Joining  == {p \in Ports : pc[p] \in {"linking", "requesting"}}
HashFree == \A q \in Ports : pc[q] # "freeing"
Unused(i) == i # info /\ ring[i] = <<>> /\ i \notin irq /\ \A q \in Ports : mine[q] # i

(* What Anchored excludes: a start that looks the irq_info up while its     *)
(* first user is still requesting the interrupt or its last one gives it    *)
(* back.  Nothing in the code prevents either.                              *)
MayStart(p) == Anchored => Up # {} \/ Busy \subseteq {p}
MayStop(p)  == Anchored => Up # {p} \/ Joining \subseteq {p}

(* Under hash_mutex the irq_info is looked up, or allocated.                *)
LinkFind(p) ==
  /\ pc[p] = "down" /\ MayStart(p) /\ HashFree
  /\ pc' = [pc EXCEPT ![p] = "linking"]
  /\ \/ /\ info # None
        /\ mine' = [mine EXCEPT ![p] = info]
        /\ UNCHANGED info
     \/ /\ info = None
        /\ \E i \in Infos : /\ Unused(i)
                            /\ info' = i
                            /\ mine' = [mine EXCEPT ![p] = i]
  /\ UNCHANGED <<edge, work, latched, ring, irq, h, events, bug>>

(* list_add puts the port behind the head; the first port is the head, and  *)
(* has the irq still to request.                                            *)
Linked(list, p) == IF list = <<>> THEN <<p>> ELSE <<Head(list), p>> \o Tail(list)

LinkAdd(p) ==
  /\ pc[p] = "linking" /\ ~Running(mine[p])
  /\ ring' = [ring EXCEPT ![mine[p]] = Linked(@, p)]
  /\ pc' = [pc EXCEPT ![p] = IF ring[mine[p]] = <<>> THEN "requesting" ELSE "up"]
  /\ bug' = (bug \/ info # mine[p])
  /\ UNCHANGED <<edge, work, latched, info, mine, irq, h, events>>

LinkRequest(p) ==
  /\ pc[p] = "requesting"
  /\ irq' = irq \cup {mine[p]}
  /\ pc' = [pc EXCEPT ![p] = "up"]
  /\ UNCHANGED <<edge, work, latched, info, mine, ring, h, events, bug>>

(* serial_do_unlink: the last port takes the irq_info with it.              *)
Unlinked(p) ==
  /\ ring' = [ring EXCEPT ![mine[p]] = RemoveFirst(@, p)]
  /\ info' = IF ring'[mine[p]] = <<>> /\ info = mine[p] THEN None ELSE info

LinkRequestFails(p) ==
  /\ pc[p] = "requesting" /\ ~Running(mine[p])
  /\ Unlinked(p)
  /\ pc' = [pc EXCEPT ![p] = "down"]
  /\ mine' = [mine EXCEPT ![p] = None]
  /\ UNCHANGED <<edge, work, latched, irq, h, events, bug>>

-----------------------------------------------------------------------------
(* Stopping a port: serial8250_shutdown clears its IER, and then            *)
(* serial_unlink_irq_chain takes it off the chain.                          *)
Silence(p) ==
  /\ pc[p] = "up" /\ MayStop(p)
  /\ edge /\ work[p] > 0 => BusyStop
  /\ pc' = [pc EXCEPT ![p] = "stopping"]
  /\ work' = [work EXCEPT ![p] = 0]
  /\ UNCHANGED <<edge, latched, info, mine, ring, irq, h, events, bug>>

(* A defect: whoever stops frees the interrupt.                             *)
UnlinkFreeAlways(p) ==
  /\ pc[p] = "stopping" /\ HashFree
  /\ pc' = [pc EXCEPT ![p] = "freeing"]
  /\ h = Idle
  /\ irq' = irq \ {mine[p]}
  /\ bug' = (bug \/ info # mine[p] \/ ring[mine[p]] = <<>>)
  /\ UNCHANGED <<edge, work, latched, info, mine, ring, h, events>>

(* A port alone on the list gives the irq back: free_irq waits for the      *)
(* handler.  The BUG_ONs are those of a chain that is not there.            *)
UnlinkFree(p) ==
  /\ pc[p] = "stopping" /\ HashFree
  /\ pc' = [pc EXCEPT ![p] = "freeing"]
  /\ IF Len(ring[mine[p]]) > 1 THEN UNCHANGED irq
                               ELSE ~Running(mine[p]) /\ irq' = irq \ {mine[p]}
  /\ bug' = (bug \/ info # mine[p] \/ ring[mine[p]] = <<>>)
  /\ UNCHANGED <<edge, work, latched, info, mine, ring, h, events>>

UnlinkDel(p) ==
  /\ pc[p] = "freeing" /\ ~Running(mine[p])
  /\ Unlinked(p)
  /\ pc' = [pc EXCEPT ![p] = "down"]
  /\ mine' = [mine EXCEPT ![p] = None]
  /\ UNCHANGED <<edge, work, latched, irq, h, events, bug>>

-----------------------------------------------------------------------------
Init ==
  /\ edge \in BOOLEAN
  /\ pc = [p \in Ports |-> "down"]
  /\ work = [p \in Ports |-> 0]
  /\ latched = FALSE
  /\ info = None
  /\ mine = [p \in Ports |-> None]
  /\ ring = [i \in Infos |-> <<>>]
  /\ irq = {}
  /\ h = Idle
  /\ events = 0
  /\ bug = FALSE

Handler  == HandlerEnter \/ HandlerVisit
Start(p) == LinkFind(p) \/ LinkAdd(p) \/ LinkRequest(p) \/ LinkRequestFails(p)
Stop(p)  == Silence(p) \/ UnlinkFree(p) \/ UnlinkDel(p)

Next == Handler \/ \E p \in Ports : Arrive(p) \/ Start(p) \/ Stop(p)

Spec == Init /\ [][Next]_vars

(* The handler is run when the interrupt controller asks for it, and runs   *)
(* to its end.                                                              *)
FairSpec == Spec /\ WF_vars(Handler)

-----------------------------------------------------------------------------
(* The state has the shape the chain expects: the list of an irq_info that  *)
(* is not in irq_lists is empty, and no port is on it twice.                *)
TypeOK ==
  /\ pc \in [Ports -> {"down", "linking", "requesting", "up", "stopping", "freeing"}]
  /\ work \in [Ports -> 0 .. MaxWork]
  /\ info \in Infos \cup {None} /\ mine \in [Ports -> Infos \cup {None}]
  /\ irq \subseteq Infos
  /\ \A i \in Infos : IsInjective(ring[i]) /\ (ring[i] # <<>> => info = i)

(* A port that has been started is on the chain of the irq_info that is in  *)
(* irq_lists, and the interrupt of that chain has been requested; no port   *)
(* that was stopped is left on it.                                          *)
UpIsHeard ==
  /\ \A p \in Ports : pc[p] = "up" =>
       info # None /\ p \in ToSet(ring[info]) /\ info \in irq
  /\ \A i \in Infos : \A p \in ToSet(ring[i]) : pc[p] # "down"

(* serial_unlink_irq_chain's BUG_ON(n == NULL) and BUG_ON(i->head == NULL)  *)
(* never fire, and nobody adds to an irq_info that was freed.               *)
NoBug == ~bug

(* The interrupt belongs to a chain with ports on it: neither a handler     *)
(* that runs with no port to visit nor an irq that nobody gives back.       *)
IrqHasPorts ==
  /\ \A i \in irq : ring[i] # <<>>
  /\ h # Idle => h.info \in irq /\ h.at \in DOMAIN ring[h.info]

(* The list, the irq_info in irq_lists and the requested interrupt agree at *)
(* every step of ports that join and leave the chain at the same time while *)
(* the handler walks it; with Anchored, while some port stays up when one   *)
(* joins and another joins or leaves.                                       *)
ChainSound == TypeOK /\ UpIsHeard /\ NoBug /\ IrqHasPorts

(* "we need to check that all ports have been serviced, and therefore the   *)
(* ISA interrupt line has been de-asserted": once the handler is done, a    *)
(* line that is still up has had a new edge, which will run it again.       *)
EdgeNotLost == edge /\ h = Idle /\ LineUp(work) => latched

(* Work of a port is dealt with, unless the port is stopped, on an edge-    *)
(* triggered line too.                                                      *)
WorkIsDone == \A p \in Ports : work[p] > 0 ~> work[p] = 0
=============================================================================
