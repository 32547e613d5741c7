---------------------------- MODULE ClientVersion ----------------------------
(***************************************************************************)
(* The gate on the app's build number, src/plugins/client-version.ts: pure *)
(* decisions on one header and the configuration of the process.           *)
(*                                                                         *)
(* A header is a natural (a trimmed text of one to ten digits), Missing    *)
(* (no header, or a blank one) or anything else, which is malformed.       *)
(***************************************************************************)
EXTENDS Naturals

CONSTANT Missing, None

(* BLOCKED_MONEY_BUILDS, a pair or None: written the wrong way round it is *)
(* the same range.                                                         *)
ParseBuildRange(raw) ==
  IF raw = None THEN None
  ELSE [from |-> IF raw[1] <= raw[2] THEN raw[1] ELSE raw[2],
        to |-> IF raw[1] <= raw[2] THEN raw[2] ELSE raw[1]]

(* config.client: no minimum build is no gate.                             *)
ClientGateOptions(minimum, range) ==
  [minimumBuild |-> minimum, blockedMoneyBuilds |-> ParseBuildRange(range)]

ParseBuild(header) == IF header \in Nat THEN header ELSE None

EvaluateClientBuild(header, options) ==
  LET build == ParseBuild(header)
  IN [build |-> build,
      allowed |-> options.minimumBuild # None =>
                    header # Missing /\ build # None /\ build >= options.minimumBuild]

(* mutation: a client that cannot be identified is given the benefit       *)
IsMoneyMovementBlocked_TrustsUnknown(build, options) ==
  /\ options.blockedMoneyBuilds # None /\ build # None
  /\ build >= options.blockedMoneyBuilds.from /\ build <= options.blockedMoneyBuilds.to

IsMoneyMovementBlocked(build, options) ==
  /\ options.blockedMoneyBuilds # None
  /\ \/ build = None
     \/ build >= options.blockedMoneyBuilds.from /\ build <= options.blockedMoneyBuilds.to
=============================================================================
