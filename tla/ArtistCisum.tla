---------------------------- MODULE ArtistCisum ----------------------------
(***************************************************************************)
(* artist.cisum: the register of artists.  The contract account and its    *)
(* admin appoint auditors; they keep the register; an artist edits its own *)
(* row, in part.  Of the public fields the model keeps two: bio, which     *)
(* stands for those an artist may set by key, and country, for those it    *)
(* may not.                                                                *)
(***************************************************************************)
EXTENDS EosTable, FiniteSets

CONSTANTS
  ARTIST,     \* the account the contract is deployed to
  People,     \* the other accounts
  Nobody,     \* before init
  Texts,      \* contents of a field
  Levels,     \* levels of an artist
  NoLevel,    \* the level of a new row, the empty name
  Statuses    \* statuses of an artist

ASSUME ArtistAssumption ==
  /\ ARTIST \notin People /\ Nobody \notin People \cup {ARTIST}
  /\ NoLevel \in Levels

VARIABLES
  artist_admin, auditors,   \* global
  artists,     \* account -> [bio, country, status, level, verified]
  edit         \* history: who signed the last call, and whether it was staff

artistVars == <<artist_admin, auditors, artists, edit>>

Signers == People \cup {ARTIST}
Artist == [bio : Texts, country : Texts, status : Statuses, level : Levels, verified : BOOLEAN]

ArtistTypeOK ==
  /\ artist_admin \in People \cup {Nobody} /\ auditors \subseteq People
  /\ DOMAIN artists \subseteq People /\ artists \in [DOMAIN artists -> Artist]
  /\ edit \in [signer : Signers, staff : BOOLEAN]

ArtistInit ==
  /\ artist_admin = Nobody /\ auditors = {}
  /\ artists = EmptyTable
  /\ edit = [signer |-> ARTIST, staff |-> TRUE]

IsAdmin(signer) == signer \in {ARTIST, artist_admin}

IsStaff(signer) == IsAdmin(signer) \/ signer \in auditors

SignedBy(signer) == edit' = [signer |-> signer, staff |-> IsAdmin(signer) \/ signer \in auditors]

-----------------------------------------------------------------------------
(***************************************************************************)
(* Staff.                                                                  *)
(***************************************************************************)

InitArtists(admin, staff) ==
  /\ artist_admin = Nobody
  /\ artist_admin' = admin /\ auditors' = auditors \cup staff
  /\ SignedBy(ARTIST)
  /\ UNCHANGED artists

SetArtistAdmin(admin) ==
  /\ artist_admin' = admin
  /\ SignedBy(ARTIST)
  /\ UNCHANGED <<auditors, artists>>

AddAuditor(signer, auditor) ==
  /\ IsAdmin(signer)
  /\ auditors' = auditors \cup {auditor}
  /\ SignedBy(signer)
  /\ UNCHANGED <<artist_admin, artists>>

DelAuditor(signer, auditor) ==
  /\ IsAdmin(signer)
  /\ auditor \in auditors
  /\ auditors' = auditors \ {auditor}
  /\ SignedBy(signer)
  /\ UNCHANGED <<artist_admin, artists>>

-----------------------------------------------------------------------------
(***************************************************************************)
(* The register.                                                           *)
(***************************************************************************)

NewArtist(text, country, status) ==
  [bio |-> text, country |-> country, status |-> status, level |-> NoLevel, verified |-> FALSE]

AddArtist(signer, acct, text, country, status) ==
  /\ IsStaff(signer)
  /\ acct \notin DOMAIN artists
  /\ artists' = Put(artists, acct, NewArtist(text, country, status))
  /\ SignedBy(signer)
  /\ UNCHANGED <<artist_admin, auditors>>

\* Mutant: whoever has a row may edit any row.
AnyArtist(signer, acct) == IsStaff(signer) \/ signer \in DOMAIN artists
MayEdit(signer, acct) == IsStaff(signer) \/ signer = acct

\* The argument status is not used.
UpdateArtist(signer, acct, text, country, level) ==
  /\ MayEdit(signer, acct)
  /\ acct \in DOMAIN artists
  /\ artists' = [artists EXCEPT ![acct].bio = text, ![acct].country = country, ![acct].level = level]
  /\ SignedBy(signer)
  /\ UNCHANGED <<artist_admin, auditors>>

SetStatus(signer, acct, status, verified) ==
  /\ IsStaff(signer)
  /\ acct \in DOMAIN artists
  /\ artists' = [artists EXCEPT ![acct].status = status, ![acct].verified = verified]
  /\ SignedBy(signer)
  /\ UNCHANGED <<artist_admin, auditors>>

\* An artist may set some of its fields by key, country and language not.
SetMeta(signer, acct, key, value) ==
  /\ MayEdit(signer, acct)
  /\ IsStaff(signer) \/ key = "bio"
  /\ acct \in DOMAIN artists
  /\ artists' = [artists EXCEPT ![acct] =
       IF key = "bio" THEN [@ EXCEPT !.bio = value] ELSE [@ EXCEPT !.country = value]]
  /\ SignedBy(signer)
  /\ UNCHANGED <<artist_admin, auditors>>

MayDelete(signer, acct) == IsAdmin(signer)

DelArtist(signer, acct) ==
  /\ MayDelete(signer, acct)
  /\ acct \in DOMAIN artists
  /\ artists' = Drop(artists, acct)
  /\ SignedBy(signer)
  /\ UNCHANGED <<artist_admin, auditors>>

-----------------------------------------------------------------------------
Staffing ==
  \E s \in Signers, a \in People :
    \/ AddAuditor(s, a) \/ DelAuditor(s, a)
    \/ SetArtistAdmin(a)
    \/ \E staff \in SUBSET People : InitArtists(a, staff)

Editing ==
  \E s \in Signers, a \in People, t, c \in Texts, l \in Levels :
    \/ UpdateArtist(s, a, t, c, l)
    \/ \E st \in Statuses :
         \/ AddArtist(s, a, t, c, st)
         \/ \E v \in BOOLEAN : SetStatus(s, a, st, v)
    \/ \E k \in {"bio", "country"} : SetMeta(s, a, k, t)
    \/ DelArtist(s, a)

ArtistNext == Staffing \/ Editing
ArtistSpec == ArtistInit /\ [][ArtistNext]_artistVars

-----------------------------------------------------------------------------
Kept == DOMAIN artists \cap DOMAIN artists'

StandingKept ==
  /\ DOMAIN artists' = DOMAIN artists
  /\ \A a \in Kept : /\ artists'[a].status = artists[a].status
                     /\ artists'[a].verified = artists[a].verified

OthersKept == \A a \in Kept : artists'[a] # artists[a] => a = edit'.signer

\* An artist that is not staff when it signs edits no row but its own, and
\* changes nobody's standing: it takes no row away, its own included, opens
\* none, and moves no status and no verification.  Auditors that were dismissed
\* and admins that were replaced are artists like others from then on (every
\* action of artist.cisum).
OwnRowOnly == [][~ edit'.staff => StandingKept /\ OthersKept]_artistVars
=============================================================================
