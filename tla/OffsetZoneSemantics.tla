------------------------ MODULE OffsetZoneSemantics ------------------------
(***************************************************************************)
(* Offset DBMs (src/dbm/offset_dbm.cc) and the asynchronous zone semantics *)
(* (zone/offset_dbm/semantics.hh).  Each process has a reference clock R,  *)
(* which comes first, and each of its clocks x is X - R, where X is an     *)
(* offset variable.  Time elapses in one process as its R decreases: the   *)
(* processes have their own time.  refmap gives the reference of a clock.  *)
(*                                                                         *)
(* A state is an offset zone, where each process has its own time, and the *)
(* zone of its valuations where all have the same.  The latter only is     *)
(* extrapolated: AsyncZoneGraph does it, for the result has its clocks, not*)
(* the offset variables.                                                   *)
(***************************************************************************)
EXTENDS ZoneSemantics

CONSTANT RefCount   \* number of reference clocks, between 1 and Dim

References == 0 .. RefCount - 1

OffsetVariables == RefCount .. Dim - 1

\* offset_id: the offset variable of a clock.
OffsetId(x) == RefCount + x - 1

\* reference_id: the reference of a clock.
ReferenceId(x, refmap) == refmap[OffsetId(x)]

\* is_positive
IsPositiveOffset(m, refmap) == \A x \in OffsetVariables : m[refmap[x], x] <= LE_ZERO

\* is_synchronized
IsSynchronized(m) ==
  \A r \in References \ {RefCount - 1} : m[r, r + 1] = LE_ZERO /\ m[r + 1, r] = LE_ZERO

\* Mutant: paths through the first reference clock only are tightened.
SynchronizeThroughOne(m) ==
  TightenThrough(
    [p \in Clocks \X Clocks |->
       IF p[1] \in References /\ p[2] \in References \cap {p[1] - 1, p[1] + 1}
       THEN Min(m[p], LE_ZERO) ELSE m[p]], 1)

\* synchronize: the processes have the same time.  Only paths through reference clocks
\* are tightened.
Synchronize(m) ==
  TightenThrough(
    [p \in Clocks \X Clocks |->
       IF p[1] \in References /\ p[2] \in References \cap {p[1] - 1, p[1] + 1}
       THEN Min(m[p], LE_ZERO) ELSE m[p]], RefCount)

\* reset_to_refclock
ResetToReference(m, x, refmap) == IF refmap[x] = x THEN m ELSE ResetToClock(m, x, refmap[x])

\* asynchronous_open_up: time elapses in each process.
AsynchronousOpenUp(m) ==
  [p \in Clocks \X Clocks |->
     IF p[1] # p[2] /\ p[2] \in References THEN LT_INFINITY ELSE m[p]]

\* to_dbm: the zone of the clocks.
ToDbm(m, refmap) ==
  LET dim == Dim - RefCount + 1
  IN [p \in (0 .. dim - 1) \X (0 .. dim - 1) |->
       IF p[1] = p[2] THEN LE_ZERO
       ELSE IF p[1] = 0 THEN m[ReferenceId(p[2], refmap), OffsetId(p[2])]
       ELSE IF p[2] = 0 THEN m[OffsetId(p[1]), ReferenceId(p[1], refmap)]
       ELSE m[OffsetId(p[1]), OffsetId(p[2])]]

-----------------------------------------------------------------------------
(* The semantics. *)

\* details::reset: to the reference clock, else it throws.
OffsetResetAll(m, resets, refmap) ==
  LET zones[n \in 0 .. Len(resets)] ==
        IF n = 0 THEN m
        ELSE LET r == resets[n]
             IN IF r.y # refmap[r.x] \/ r.c # 0 THEN Thrown
                ELSE ResetToReference(zones[n - 1], r.x, refmap)
  IN zones[Len(resets)]

\* An open zone, in the invariant again.
AsynchronousOpen(m, invariant, allowed) ==
  IF allowed /\ ~ IsEmpty0(m) THEN ConstrainAll(AsynchronousOpenUp(m), invariant) ELSE m

\* A status, an offset zone and its synchronized zone.
OffsetResult(status, offset, sync) == [status |-> status, offset |-> offset, sync |-> sync]

Failure(status) == OffsetResult(status, Empty, Empty)

\* sync_zone_computer_t::sync_zone, from a copy of the offset zone, and what the
\* functions with both zones do of it, but for its extrapolation.
WithSyncZone(offset, refmap) ==
  LET synchronized == Synchronize(offset)
  IN IF IsEmpty0(synchronized) THEN Failure("EMPTY_ZONE")
     ELSE OffsetResult("OK", offset, ToDbm(synchronized, refmap))

-----------------------------------------------------------------------------
(* elapsed_semantics_t: time elapses after the step. *)

OffsetElapsedInitialize(delay_allowed, invariant, refmap) ==
  LET zone == AsynchronousOpen(ConstrainAll(Zero, invariant), invariant, delay_allowed)
  IN IF IsEmpty0(zone) THEN Failure("CLOCKS_SRC_INVARIANT_VIOLATED")
     ELSE WithSyncZone(zone, refmap)

OffsetElapsedNext(m, guard, resets, tgt_delay_allowed, tgt_invariant, refmap) ==
  LET guarded == ConstrainAll(m, guard)
      zone == AsynchronousOpen(
                ConstrainAll(OffsetResetAll(guarded, resets, refmap), tgt_invariant),
                tgt_invariant, tgt_delay_allowed)
  IN IF IsEmpty0(guarded) THEN Failure("CLOCKS_GUARD_VIOLATED")
     ELSE IF IsEmpty0(zone) THEN Failure("CLOCKS_TGT_INVARIANT_VIOLATED")
     ELSE WithSyncZone(zone, refmap)

-----------------------------------------------------------------------------
(* non_elapsed_semantics_t: time elapses before the step. *)

OffsetNonElapsedInitialize(invariant, refmap) ==
  LET zone == ConstrainAll(Zero, invariant)
  IN IF IsEmpty0(zone) THEN Failure("CLOCKS_SRC_INVARIANT_VIOLATED")
     ELSE WithSyncZone(zone, refmap)

OffsetNonElapsedNext(m, src_delay_allowed, src_invariant, guard, resets, tgt_inv, refmap) ==
  LET source == AsynchronousOpen(m, src_invariant, src_delay_allowed)
      guarded == ConstrainAll(source, guard)
      zone == ConstrainAll(OffsetResetAll(guarded, resets, refmap), tgt_inv)
  IN IF IsEmpty0(source) THEN Failure("CLOCKS_SRC_INVARIANT_VIOLATED")
     ELSE IF IsEmpty0(guarded) THEN Failure("CLOCKS_GUARD_VIOLATED")
     ELSE IF IsEmpty0(zone) THEN Failure("CLOCKS_TGT_INVARIANT_VIOLATED")
     ELSE WithSyncZone(zone, refmap)
=============================================================================
