---------------------------- MODULE WindowsAccess ----------------------------
(***************************************************************************)
(* Security descriptors and the questions asked of them,                   *)
(* crates/winsec/src/sddl.rs.                                              *)
(*                                                                         *)
(* A descriptor's text is its fields: the owner, whether the DACL has the  *)
(* flag P, and the DACL's entries (a set: no question depends on their     *)
(* order), or NoDacl for NO_ACCESS_CONTROL.  A mask is the classes of      *)
(* rights it has; a hexadecimal mask is the codes of its bits.             *)
(***************************************************************************)
CONSTANTS
    NoDacl,      \* the descriptor has no DACL: everyone has full access
    Unreadable   \* `parse` returned None

SYSTEM         == "S-1-5-18"
ADMINISTRATORS == "S-1-5-32-544"
EVERYONE       == "S-1-1-0"
OWNER_RIGHTS   == "S-1-3-4"
TRUSTED_INSTALLER == "trusted installer"

CREATOR_OWNER  == "S-1-3-0"

\* alias, for the accounts a check names; any other text is kept as it is.
Alias == [SY |-> SYSTEM, BA |-> ADMINISTRATORS, WD |-> EVERYONE,
          OW |-> OWNER_RIGHTS, CO |-> CREATOR_OWNER]
normalize_sid(s) == IF s \in DOMAIN Alias THEN Alias[s] ELSE s

\* Two classes of bits: those in CREATE_IN_DIR (create or replace files in a
\* directory, change its security) and the rest.
Right == {"create", "other"}

AllRights     == Right                  \* u32::MAX
CREATE_IN_DIR == {"create"}

\* rights: the codes with bits of each class.
Codes ==
    [create |-> {"GA", "GW", "WD", "WO", "DC", "LC", "DT", "FA", "FW", "KA", "KW"},
     other  |-> {"GR", "GX", "RC", "SD", "RP", "WP", "CC", "SW", "LO", "CR", "FA", "FR",
                 "FW", "FX", "KA", "KR", "KW", "KX"}]
KnownCodes == UNION {Codes[c] : c \in Right}
rights(codes) == {c \in Right : codes \cap Codes[c] # {}}

AllowTypes == {"A", "OA", "XA", "ZA"}
DenyTypes  == {"D", "OD", "XD"}

\* An entry of an unknown type or with an unknown right makes the descriptor
\* unreadable; a missing owner is OWNER_RIGHTS.
parse(text) ==
    IF text.dacl = NoDacl
    THEN [owner |-> normalize_sid(text.owner), protected |-> text.protected, dacl |-> NoDacl]
    ELSE IF \E a \in text.dacl : \/ a.type \notin AllowTypes \cup DenyTypes
                                \/ ~(a.rights \subseteq KnownCodes)
    THEN Unreadable
    ELSE [owner |-> normalize_sid(text.owner), protected |-> text.protected,
          dacl |-> {[allow |-> a.type \in AllowTypes, inherit_only |-> a.inherit_only,
                     mask |-> rights(a.rights), sid |-> normalize_sid(a.sid)] : a \in text.dacl}]

AceText(type, codes, sid) ==
    [type |-> type, inherit_only |-> FALSE, rights |-> codes, sid |-> sid]

private_dacl(owner) ==
    [owner |-> owner, protected |-> TRUE,
     dacl |-> {AceText("A", {"FA"}, s) : s \in {"SY", "BA", owner}}]

\* The accounts, other than the trusted ones, that an effective allow entry
\* gives any of the rights; OWNER RIGHTS stands for the owner.
granted_to_others(d, wanted, trusted) ==
    IF d.dacl = NoDacl THEN {EVERYONE}
    ELSE {IF a.sid = OWNER_RIGHTS THEN d.owner ELSE a.sid :
            a \in {b \in d.dacl : /\ b.allow /\ ~b.inherit_only
                                  /\ b.mask \cap wanted # {}}}
           \ {normalize_sid(t) : t \in trusted}

check_private(text, trusted) ==
    LET d == parse(text)
    IN  /\ d # Unreadable
        /\ d.protected
        /\ granted_to_others(d, AllRights, trusted) = {}
============================================================================
