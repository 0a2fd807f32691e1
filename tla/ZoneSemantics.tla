---------------------------- MODULE ZoneSemantics ----------------------------
(***************************************************************************)
(* The zone semantics (zone/dbm/semantics.hh): the zone of an initial state*)
(* and the zone of the next state, with time elapsed after the step or     *)
(* before it, and the extrapolations (zone/dbm/extrapolation.hh) with the  *)
(* bounds of the clocks that they use.                                     *)
(***************************************************************************)
EXTENDS Dbm, Sequences

\* Mutant: the constraints after one that is satisfied are not looked at.
ConstrainFirst(m, constraints) ==
  IF constraints = <<>> THEN m
  ELSE LET k == constraints[1] IN Constrain(m, k.x, k.y, k.cmp, k.c)

\* details::constrain: it stops when the zone is empty.
ConstrainAll(m, constraints) ==
  LET zones[n \in 0 .. Len(constraints)] ==
        IF n = 0 THEN m
        ELSE LET z == zones[n - 1]
                 k == constraints[n]
             IN IF IsEmpty0(z) THEN z ELSE Constrain(z, k.x, k.y, k.cmp, k.c)
  IN zones[Len(constraints)]

\* details::reset
ResetAll(m, resets) ==
  LET zones[n \in 0 .. Len(resets)] ==
        IF n = 0 THEN m
        ELSE LET r == resets[n] IN Reset(zones[n - 1], r.x, r.y, r.c)
  IN zones[Len(resets)]

\* An open zone, in the invariant again.
Open(m, invariant, allowed) ==
  IF allowed /\ ~ IsEmpty0(m) THEN ConstrainAll(OpenUp(m), invariant) ELSE m

Result(status, zone) == [status |-> status, zone |-> zone]

-----------------------------------------------------------------------------
(* Extrapolations *)

\* A class of zone semantics: its semantics, its extrapolation and the scope of the
\* clock bounds, which nothing uses without extrapolation.
Semantics == {"elapsed", "non-elapsed"}
Extrapolations == {"NOextra", "extraM", "extraM+", "extraLU", "extraLU+"}

Classes ==
  [semantics : Semantics, extra : {"NOextra"}, scope : {"global"}]
    \cup [semantics : Semantics, extra : Extrapolations \ {"NOextra"},
          scope : {"global", "local"}]

\* The maps of clock bounds that a class uses.
LowerKind(class) == IF class.extra \in {"extraM", "extraM+"} THEN "M" ELSE "L"
UpperKind(class) == IF class.extra \in {"extraM", "extraM+"} THEN "M" ELSE "U"

\* What an extrapolation is made of: its name and the bounds of the clocks.  extra_m is
\* extra_lu, and extra_m_plus is extra_lu_plus, for l = u.
ExtrapolateTo(m, e) ==
  CASE e.extra = "NOextra" -> m
    [] e.extra \in {"extraM", "extraLU"} -> ExtraLU(m, e.l, e.u)
    [] e.extra \in {"extraM+", "extraLU+"} -> ExtraLUPlus(m, e.l, e.u)

-----------------------------------------------------------------------------
(* elapsed_semantics_t: time elapses after the step. *)

ElapsedInitialize(delay_allowed, invariant, e) ==
  LET zone == Open(ConstrainAll(Zero, invariant), invariant, delay_allowed)
  IN IF IsEmpty0(zone) THEN Result("CLOCKS_SRC_INVARIANT_VIOLATED", zone)
     ELSE Result("OK", ExtrapolateTo(zone, e))

ElapsedNext(m, guard, resets, tgt_delay_allowed, tgt_invariant, e) ==
  LET guarded == ConstrainAll(m, guard)
      zone == Open(ConstrainAll(ResetAll(guarded, resets), tgt_invariant),
                   tgt_invariant, tgt_delay_allowed)
  IN IF IsEmpty0(guarded) THEN Result("CLOCKS_GUARD_VIOLATED", guarded)
     ELSE IF IsEmpty0(zone) THEN Result("CLOCKS_TGT_INVARIANT_VIOLATED", zone)
     ELSE Result("OK", ExtrapolateTo(zone, e))

-----------------------------------------------------------------------------
(* non_elapsed_semantics_t: time elapses before the step. *)

NonElapsedInitialize(invariant, e) ==
  LET zone == ConstrainAll(Zero, invariant)
  IN IF IsEmpty0(zone) THEN Result("CLOCKS_SRC_INVARIANT_VIOLATED", zone)
     ELSE Result("OK", ExtrapolateTo(zone, e))

NonElapsedNext(m, src_delay_allowed, src_invariant, guard, resets, tgt_invariant, e) ==
  LET source == Open(m, src_invariant, src_delay_allowed)
      guarded == ConstrainAll(source, guard)
      zone == ConstrainAll(ResetAll(guarded, resets), tgt_invariant)
  IN IF IsEmpty0(source) THEN Result("CLOCKS_SRC_INVARIANT_VIOLATED", source)
     ELSE IF IsEmpty0(guarded) THEN Result("CLOCKS_GUARD_VIOLATED", guarded)
     ELSE IF IsEmpty0(zone) THEN Result("CLOCKS_TGT_INVARIANT_VIOLATED", zone)
     ELSE Result("OK", ExtrapolateTo(zone, e))
=============================================================================
