----------------------------- MODULE TCPDialer -----------------------------
(***************************************************************************)
(* TCPDialer of src/fasthttp/tcpdialer.go: the DNS cache with its cleaner, *)
(* re-resolution by one goroutine at a time, and the limit on concurrent   *)
(* dials.  One address is dialled; its entry in tcpAddrsMap is an object   *)
(* that is replaced when the name is resolved again.                       *)
(***************************************************************************)
EXTENDS Integers, FiniteSets

CONSTANTS Dialers,      \* goroutines calling Dial*
          Concurrency,  \* d.Concurrency, 0 when it is not limited
          MaxAddrs,     \* bound: addresses a name resolves to
          MaxDials,     \* bound: dials one goroutine makes
          NoEntry

ASSUME DialerAssumption ==
  /\ Concurrency \in Nat /\ MaxAddrs \in Nat \ {0} /\ MaxDials \in Nat
  /\ IsFiniteSet(Dialers)

VARIABLES entry,  \* tcpAddrEntry of the address: [n, idx, age, pending], or NoEntry
          slots,  \* elements of d.concurrencyCh
          dial    \* [Dialers -> [pc, n, idx, late, calls]]

dialerVars == <<entry, slots, dial>>

NewEntry(n) == [n |-> n, idx |-> 0, age |-> "fresh", pending |-> FALSE]

DialerInit ==
  /\ entry = NoEntry /\ slots = 0
  /\ dial = [d \in Dialers |-> [pc |-> "idle", n |-> 0, idx |-> 0,
                                late |-> FALSE, calls |-> 0]]

Ends(d) == dial' = [dial EXCEPT ![d] = [@ EXCEPT !.pc = "idle", !.n = 0, !.idx = 0,
                                                 !.late = FALSE]]

\* getTCPAddrs, cached: e.addrs and the next index are taken.  An entry older
\* than DNSCacheDuration is used while another goroutine resolves it.
Usable == IF entry = NoEntry THEN FALSE ELSE entry.age = "fresh" \/ entry.pending
UseEntry(d) ==
  /\ dial[d].pc = "idle" /\ dial[d].calls < MaxDials
  /\ Usable
  /\ entry' = [entry EXCEPT !.idx = (@ + 1) % MaxAddrs]
  /\ dial' = [dial EXCEPT ![d] = [@ EXCEPT !.pc = "try", !.n = entry.n, !.idx = (entry.idx + 1) % MaxAddrs,
                                           !.calls = dial[d].calls + 1]]
  /\ UNCHANGED slots

\* getTCPAddrs, not cached, or stale and this goroutine swapped pending.
StartResolve(d) ==
  /\ dial[d].pc = "idle" /\ dial[d].calls < MaxDials
  /\ ~Usable
  /\ entry' = IF entry = NoEntry THEN entry ELSE [entry EXCEPT !.pending = TRUE]
  /\ dial' = [dial EXCEPT ![d] = [@ EXCEPT !.pc = "resolve", !.calls = dial[d].calls + 1]]
  /\ UNCHANGED slots

\* resolveTCPAddrs found n addresses: a new entry takes the place of the old.
Resolved(d) ==
  /\ dial[d].pc = "resolve"
  /\ \E n \in 1..MaxAddrs :
       /\ entry' = [NewEntry(n) EXCEPT !.idx = 1 % MaxAddrs]
       /\ dial' = [dial EXCEPT ![d] = [@ EXCEPT !.pc = "try", !.n = n, !.idx = 1 % MaxAddrs]]
  /\ UNCHANGED slots

\* ... or failed: pending of the entry that is there now is cleared.
ResolveFails(d) ==
  /\ dial[d].pc = "resolve"
  /\ entry' = IF entry = NoEntry THEN entry ELSE [entry EXCEPT !.pending = FALSE]
  /\ Ends(d)
  /\ UNCHANGED slots

\* tryDial takes a slot of concurrencyCh, at once or after waiting.
TakeSlot(d) ==
  /\ dial[d].pc = "try" /\ ~dial[d].late
  /\ Concurrency = 0 \/ slots < Concurrency
  /\ slots' = IF Concurrency = 0 THEN slots ELSE slots + 1
  /\ dial' = [dial EXCEPT ![d].pc = "dial"]
  /\ UNCHANGED entry

\* ErrDialTimeout before the slot was had.
SlotTimeout(d) ==
  /\ dial[d].pc = "try" /\ dial[d].late
  /\ Ends(d)
  /\ UNCHANGED <<entry, slots>>

\* Mutant: the slot is kept when another address is tried.
DialEndsKeepsSlot(d) ==
  /\ dial[d].pc = "dial"
  /\ \/ Ends(d) /\ slots' = IF Concurrency = 0 THEN slots ELSE slots - 1
     \/ /\ dial[d].n > 1 /\ slots' = slots
        /\ dial' = [dial EXCEPT ![d] = [@ EXCEPT !.pc = "try", !.n = dial[d].n - 1,
                                                 !.idx = (dial[d].idx + 1) % MaxAddrs]]
  /\ UNCHANGED entry

\* DialContext ends: connected, timed out, or refused, and then the next of
\* the n addresses is tried (addrs[idx % n] with n one less).
DialEnds(d) ==
  /\ dial[d].pc = "dial"
  /\ slots' = IF Concurrency = 0 THEN slots ELSE slots - 1
  /\ \/ Ends(d)
     \/ /\ dial[d].n > 1
        /\ dial' = [dial EXCEPT ![d] = [@ EXCEPT !.pc = "try", !.n = dial[d].n - 1,
                                                 !.idx = (dial[d].idx + 1) % MaxAddrs]]
  /\ UNCHANGED entry

\* External: the deadline of a dial passes.
DialLate(d) ==
  /\ dial[d].pc \in {"try", "dial"} /\ ~dial[d].late
  /\ dial' = [dial EXCEPT ![d].late = TRUE]
  /\ UNCHANGED <<entry, slots>>

\* External: DNSCacheDuration, and then as long again, passes.
EntryAges ==
  /\ entry # NoEntry /\ entry.age # "old"
  /\ entry' = [entry EXCEPT !.age = IF @ = "fresh" THEN "stale" ELSE "old"]
  /\ UNCHANGED <<slots, dial>>

\* tcpAddrsClean deletes an entry older than 2 * DNSCacheDuration.
tcpAddrsClean ==
  /\ entry # NoEntry /\ entry.age = "old"
  /\ entry' = NoEntry
  /\ UNCHANGED <<slots, dial>>

DialerNext ==
  \/ \E d \in Dialers :
       \/ UseEntry(d) \/ StartResolve(d) \/ Resolved(d) \/ ResolveFails(d)
       \/ TakeSlot(d) \/ SlotTimeout(d) \/ DialEnds(d) \/ DialLate(d)
  \/ EntryAges \/ tcpAddrsClean

DialerSpec == DialerInit /\ [][DialerNext]_dialerVars

-----------------------------------------------------------------------------
Connecting == {d \in Dialers : dial[d].pc = "dial"}

\* The slots of concurrencyCh are those of the dials in progress, and pending
\* is set only while a goroutine resolves the name: after a failure some later
\* Dial resolves it again, and a stale entry is not used for ever.
DialerAccounts ==
  /\ slots = IF Concurrency = 0 THEN 0 ELSE Cardinality(Connecting)
  /\ slots <= Concurrency
  /\ (IF entry = NoEntry THEN FALSE ELSE entry.pending) => \E d \in Dialers : dial[d].pc = "resolve"
=============================================================================
