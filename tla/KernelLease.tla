----------------------------- MODULE KernelLease -----------------------------
(***************************************************************************)
(* What the kernel promises about physical leases, whatever tickets, calls *)
(* and cancellations happen inside: one admitted root at a time; a provider*)
(* is leased to at most one call; leases are only taken for a root that is *)
(* held; and a root is retired, letting the next one in, only after it was *)
(* dropped and every lease taken under it has physically ended.            *)
(***************************************************************************)
EXTENDS Naturals

CONSTANT Providers

VARIABLES root,   \* the admitted root, 0 for none
          held,   \* the Root handle is alive
          last,   \* the last root identity issued
          busy    \* providers whose native work may still run

vars == <<root, held, last, busy>>

Init == root = 0 /\ held = FALSE /\ last = 0 /\ busy = {}

Admit ==
    /\ root = 0 /\ busy = {}
    /\ last' = last + 1 /\ root' = last' /\ held' = TRUE
    /\ UNCHANGED busy

Acquire(p) ==
    /\ root # 0 /\ held /\ p \notin busy
    /\ busy' = busy \cup {p}
    /\ UNCHANGED <<root, held, last>>

(* One reply may end a whole tree of calls. *)
End(S) ==
    /\ S # {}
    /\ busy' = busy \ S
    /\ UNCHANGED <<root, held, last>>

Drop ==
    /\ root # 0 /\ held
    /\ held' = FALSE
    /\ UNCHANGED <<root, last, busy>>

Retire ==
    /\ root # 0 /\ ~held /\ busy = {}
    /\ root' = 0
    /\ UNCHANGED <<held, last, busy>>

Next ==
    \/ Admit \/ Drop \/ Retire
    \/ \E p \in Providers : Acquire(p)
    \/ \E S \in SUBSET busy : End(S)

Spec == Init /\ [][Next]_vars
=============================================================================
