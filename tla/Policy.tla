--------------------------------- MODULE Policy ---------------------------------
(***************************************************************************)
(* The authorization (A&A) service of the core module                      *)
(* (src/services/auth/auth.c): the policy document, the writes it makes    *)
(* into the binding map at start-up, and the decision on one message.      *)
(*                                                                         *)
(* A JSON row is a record or NotObject, a member that is missing or is no  *)
(* string is Missing (or its default, where nothing tells them apart).  A  *)
(* message's 'ci' is the token before its first ';' and the proof that may *)
(* accompany it (see Identity).  authIdentities are loaded and never read, *)
(* so they are left out.                                                   *)
(***************************************************************************)
EXTENDS SequencesExt, Selections

CONSTANTS
  MaxClasses, MaxCredentials, MaxGroups, MaxPermissions, MaxProofs,   \* AUTH_MAX_*
  NoFile,      \* no path was given
  Unreadable,  \* the file is missing or no JSON
  NotObject,   \* an array member that is not an object
  Missing,     \* a member that is not there, or is no string
  Malformed,   \* a 256-bit value that is not 64 hex characters
  NoProof      \* nothing accompanies the token

ASSUME PolicyAssumption ==
  {MaxClasses, MaxCredentials, MaxGroups, MaxPermissions, MaxProofs} \subseteq Nat

-----------------------------------------------------------------------------
(* load_policy() *)

Objects(rows) == Where(rows, LAMBDA row : row # NotObject)

Clipped(rows, max) ==
  LET objects == Objects(rows)
  IN  SubSeq(objects, 1, IF Len(objects) < max THEN Len(objects) ELSE max)

BlankProof == [at |-> Empty, pi |-> Malformed]

(* One proofRequired row.  It is read into the next free slot, which a     *)
(* rejected row does not give back as it found it: a member the next row   *)
(* lacks keeps what the rejected one said.                                 *)
ReadProof(acc, row) ==
  LET slot == [at |-> IF row.at = Missing THEN acc.slot.at ELSE row.at,
               pi |-> IF row.pi = Missing THEN acc.slot.pi ELSE row.pi]
  IN  IF Len(acc.kept) = MaxProofs THEN acc
      ELSE IF slot.at = Empty \/ slot.pi = Malformed THEN [acc EXCEPT !.slot = slot]
      ELSE [kept |-> Append(acc.kept, slot), slot |-> BlankProof]

ReadProofs(rows) ==
  LET Upto[k \in 0 .. Len(rows)] ==
        IF k = 0 THEN [kept |-> <<>>, slot |-> BlankProof] ELSE ReadProof(Upto[k - 1], rows[k])
  IN  Upto[Len(rows)]

ProofRows(rows) == ReadProofs(Objects(rows)).kept

EmptyPolicy ==
  [loaded |-> FALSE, classes |-> <<>>, credentials |-> <<>>, groups |-> <<>>,
   permissions |-> <<>>, proofs |-> <<>>]

load_policy(file) ==
  IF file \in {NoFile, Unreadable} THEN EmptyPolicy
  ELSE [loaded      |-> TRUE,
        classes     |-> Clipped(file.classes, MaxClasses),
        credentials |-> Clipped(file.credentials, MaxCredentials),
        groups      |-> Clipped(file.groups, MaxGroups),
        permissions |-> Clipped(file.permissions, MaxPermissions),
        proofs      |-> ProofRows(file.proofs)]

-----------------------------------------------------------------------------
(* The walk class -> permissionGroup rows -> permissionService rows. *)
Applicable(p, cls) ==
  LET groups == Where(p.groups, LAMBDA g : g.pi = cls.pi /\ g.pt = "ps")
  IN  FlattenSeq([k \in 1 .. Len(groups) |->
        Where(p.permissions, LAMBDA q : q.pi = groups[k].pr /\ q.st = cls.st)])

(* auth_service_propagate(): the writes, in order. *)
Writes(p) == FlattenSeq([i \in 1 .. Len(p.classes) |-> Applicable(p, p.classes[i])])

credential_matches(stored, cred) == stored = cred.token

(* auth_service_authorize() *)
(* Mutant: the first permission that matches wins. *)
authorize_first(p, cred, un, at) ==
  LET creds   == Where(p.credentials, LAMBDA c : credential_matches(c.ci, cred))
      classes == Where(p.classes, LAMBDA c : c.cr = creds[1].id)
      perms   == Where(Applicable(p, classes[1]), LAMBDA q : q.lo = at)
  IN  /\ p.loaded /\ creds # <<>> /\ creds[1].cv = "ye"
      /\ classes # <<>> /\ un \in {Empty, classes[1].fn}
      /\ perms # <<>> /\ perms[1].vn = "fl"

authorize(p, cred, un, at) ==
  LET creds   == Where(p.credentials, LAMBDA c : credential_matches(c.ci, cred))
      classes == Where(p.classes, LAMBDA c : c.cr = creds[1].id)
      perms   == Where(Applicable(p, classes[1]), LAMBDA q : q.lo = at)
  IN  /\ p.loaded /\ (cred.token # Empty \/ cred.proof # NoProof)
      /\ creds # <<>> /\ creds[1].cv = "ye"
      /\ classes # <<>> /\ un \in {Empty, classes[1].fn}
      /\ perms # <<>> /\ Last(perms).vn = "fl"

(* auth_service_required_proof_pi(): Missing when none is. *)
required_proof_pi(p, at) ==
  LET rows == Where(p.proofs, LAMBDA row : row.at = at)
  IN  IF rows = <<>> THEN Missing ELSE rows[1].pi

(* auth_on_get(): one record per class; the fields after ci= are its value. *)
auth_on_get(p) ==
  IF p.classes = <<>> THEN << <<"no-auth-policy", Empty>> >>
  ELSE [i \in 1 .. Len(p.classes) |->
          <<"ci", <<p.classes[i].ci, p.classes[i].fn, p.classes[i].st>> >>]
=================================================================================
