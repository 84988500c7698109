---------------------------- MODULE ContentTrust ----------------------------
(***************************************************************************)
(* Who may make detection content trusted: trusted keys and keyrings       *)
(* (engine/trust.rs), signed bundles (engine/bundle.rs) and the freshness  *)
(* file of the update channel (engine/freshness.rs), as operators from     *)
(* inputs to results.  ContentUpdate calls them.                           *)
(*                                                                         *)
(* A signature is the record [by, over]: the key that made it and what it  *)
(* signs.  Ed25519 is external: a signature verifies with key k exactly    *)
(* when k made it over the data at hand.  A manifest is identified by the  *)
(* field id, which stands for the SHA-256 of its bytes.  Times are natural *)
(* numbers; an absent not_before is 0 and an absent not_after is Forever.  *)
(***************************************************************************)
EXTENDS Integers, FiniteSets, Sequences, SequencesExt

CONSTANTS
  Key,            \* minisign key identifiers
  Name,           \* bundle names
  Forever,        \* a time after every time of the model
  MaxThreshold,   \* MAX_THRESHOLD, largest signature threshold of a keyring
  MaxSignatures,  \* MAX_SIGNATURES, signature files read per manifest
  ClockSkew,      \* CLOCK_SKEW, tolerated age of a timestamp from the future
  MaxLifetime     \* MAX_TIMESTAMP_LIFETIME

ASSUME TrustConstants ==
  /\ Forever \in Nat /\ MaxThreshold \in Nat \ {0} /\ MaxSignatures \in Nat \ {0}
  /\ ClockSkew \in Nat /\ MaxLifetime \in Nat \ {0}

Role == {"content", "timestamp"}

Larger(a, b) == IF a >= b THEN a ELSE b
Smaller(a, b) == IF a <= b THEN a ELSE b

---------------------------------------------------------------------------
(* Keys and keyrings *)

TrustedKey ==
  [id: Key, roles: SUBSET Role, not_before: 0..Forever, not_after: 0..Forever, revoked: BOOLEAN]

\* A set of trusted keys, one of an identifier, with the threshold (0 until a
\* keyring sets one) and the sequence floors.
TrustSet == [keys: SUBSET TrustedKey, threshold: Nat, floor: [Name -> Nat]]
NoKeys == [keys |-> {}, threshold |-> 0, floor |-> [n \in Name |-> 0]]

Known(t, id) == \E k \in t.keys : k.id = id

Required(t) == Larger(t.threshold, 1)

ValidAt(key, now) == key.not_before <= now /\ now <= key.not_after

\* --trusted-key: a key that is already known keeps what it has.
AddKeyText(t, id) ==
  IF Known(t, id) THEN t
  ELSE [t EXCEPT !.keys = @ \cup {[id |-> id, roles |-> {"content"}, not_before |-> 0,
                                   not_after |-> Forever, revoked |-> FALSE]}]

\* One entry of a keyring: it sets the roles of a key it introduces and only
\* narrows a key that is there already.
AddEntry(t, e) ==
  LET narrowed(k) ==
        [k EXCEPT !.roles      = IF Known(t, e.id) THEN @ \cap e.roles ELSE e.roles,
                  !.not_before = Larger(@, e.not_before),
                  !.not_after  = Smaller(@, e.not_after),
                  !.revoked    = @ \/ e.revoked]
  IN  [AddKeyText(t, e.id) EXCEPT !.keys = {IF k.id = e.id THEN narrowed(k) ELSE k : k \in @}]

\* A keyring file whose JSON, format, names and sizes are accepted, and whose
\* entries and policy obey the rules that add_keyring checks.
KeyringOk(ring) ==
  /\ ring.wellformed
  /\ ring.threshold \in 0..MaxThreshold          \* 0: the keyring has no policy
  /\ \A i \in DOMAIN ring.entries :
       /\ ring.entries[i].not_before <= ring.entries[i].not_after
       /\ ring.entries[i].roles # {}

AddKeyring(t, ring) ==
  LET policy == [t EXCEPT !.threshold = Larger(@, ring.threshold),
                          !.floor = [n \in Name |-> Larger(@[n], ring.floor[n])]]
  IN  FoldLeft(AddEntry, policy, ring.entries)

\* Mutant: a revocation recorded in the state is not applied.
RevokeNothing(t, ids) == t

Revoke(t, ids) ==
  [t EXCEPT !.keys = {[k EXCEPT !.revoked = @ \/ k.id \in ids] : k \in @}]

\* Trust::from_args: the built-in keyring, then --trusted-key, then the system
\* keyring and --keyring files, so that keyrings restrict every key.
FromArgs(args) ==
  FoldLeft(AddKeyring,
           FoldLeft(AddKeyText,
                    IF args.no_builtin THEN NoKeys ELSE AddKeyring(NoKeys, args.builtin),
                    args.trusted),
           args.keyrings)

FromArgsOk(args) ==
  /\ args.no_builtin \/ KeyringOk(args.builtin)
  /\ \A i \in DOMAIN args.keyrings : KeyringOk(args.keyrings[i])

\* The first key of the role that verifies the signature decides.
VerifyRole(t, data, sig, now, role) ==
  LET hit == {k \in t.keys : k.id = sig.by /\ sig.over = data /\ role \in k.roles}
  IN  IF hit = {} THEN "untrusted"
      ELSE LET key == CHOOSE k \in hit : TRUE
           IN  IF key.revoked THEN "revoked"
               ELSE IF ~ValidAt(key, now) THEN "outside_validity" ELSE "ok"

---------------------------------------------------------------------------
(* Individually signed content files *)

\* What reading a file of bounded size gives.
ReadResult == {"ok", "missing", "io_error", "too_large"}

\* load_content: file = [read, id, sig_read, sig].
LoadContent(t, file, policy, now) ==
  IF policy = "require" /\ t.keys = {} THEN "no_trusted_keys"
  ELSE IF policy = "require" /\ Required(t) > 1 THEN "threshold_requires_bundle"
  ELSE IF file.read # "ok" THEN file.read
  ELSE IF file.sig_read = "missing"
       THEN IF policy = "allow_unsigned" THEN "unsigned_accepted" ELSE "unsigned"
  ELSE IF file.sig_read # "ok" THEN file.sig_read
  ELSE IF Required(t) > 1 THEN "threshold_requires_bundle"
  ELSE VerifyRole(t, file.id, file.sig, now, "content")

---------------------------------------------------------------------------
(* Bundles *)

\* Manifest::validate, with name, path, count and size syntax in "wellformed".
ValidManifest(m) ==
  /\ m.wellformed
  /\ m.sequence >= 1
  /\ m.expires > m.issued
  /\ DOMAIN m.files # {}

\* verify_signatures: sigs holds what each signature file gave, "missing" files
\* left out; any other read error ends the check.
Signers(t, m, sigs, now) ==
  {s.by : s \in {x \in Range(sigs) : VerifyRole(t, m.id, x, now, "content") = "ok"}}

VerifySignatures(t, m, sigs, now) ==
  IF sigs = <<>> THEN "unsigned"
  ELSE IF Cardinality(Signers(t, m, SubSeq(sigs, 1, Smaller(Len(sigs), MaxSignatures)), now))
            < Required(t)
       THEN "insufficient_signatures" ELSE "ok"

\* read_listed: the file is there, and has the size and hash the manifest pins.
ListedOk(m, content, path) ==
  path \in DOMAIN content /\ content[path] = m.files[path]

\* load_bundle on dir = [manifest, sigs, content].
LoadBundle(t, dir, now, allowExpired) ==
  LET m == dir.manifest
      signatures == VerifySignatures(t, m, dir.sigs, now)
  IN  IF t.keys = {} THEN "no_trusted_keys"
      ELSE IF signatures # "ok" THEN signatures
      ELSE IF ~ValidManifest(m) THEN "invalid_manifest"
      ELSE IF now > m.expires /\ ~allowExpired THEN "expired"
      ELSE IF \E p \in DOMAIN m.files : ~ListedOk(m, dir.content, p) THEN "file"
      ELSE "ok"

---------------------------------------------------------------------------
(* The timestamp of the update channel *)

ValidTimestamp(ts, now) ==
  /\ ts.wellformed
  /\ ts.version >= 1 /\ ts.sequence >= 1
  /\ ts.issued < ts.expires /\ ts.expires - ts.issued <= MaxLifetime
  /\ ts.issued <= now + ClockSkew

VerifyTimestamp(t, ts, sig, now, allowExpired) ==
  LET signature == VerifyRole(t, ts, sig, now, "timestamp")
  IN  IF signature # "ok" THEN signature
      ELSE IF ~ValidTimestamp(ts, now) THEN "invalid"
      ELSE IF now > ts.expires /\ ~allowExpired THEN "expired"
      ELSE "ok"
=============================================================================
