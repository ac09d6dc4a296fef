----------------------------- MODULE Whitelist -----------------------------
(***************************************************************************)
(* The whitelist of authorized software (internal/app): a JSON array in a  *)
(* file.  Requests add to it under a flock, of one server or of several on *)
(* the same directory, each on a descriptor of its own; the file is read,  *)
(* normalized, extended and replaced by a rename.                          *)
(***************************************************************************)
EXTENDS Naturals, FiniteSets

CONSTANTS
  Adders,       \* requests that authorize software
  Software,     \* normalized names
  Entries,      \* entries an operator may have put into the file by hand
  Normal,       \* an entry's normalized name
  Blank,        \* the name of an entry that is nothing once normalized
  MaxAccidents  \* bound on failed reads and writes and on deaths

ASSUME WhitelistAssumption ==
  /\ Software \subseteq Entries /\ Normal \in [Entries -> Software \cup {Blank}]
  /\ \A s \in Software : Normal[s] = s
  /\ Blank \notin Software /\ MaxAccidents \in Nat

VARIABLES
  wfile,      \* the entries in the file
  adding,     \* where each request is: its name, and the list it has read
  accidents

whitelistVars == <<wfile, adding, accidents>>

Adding == [step: {"new", "waiting", "locked", "read", "saved", "done"},
           name: Software \cup {Blank}, list: SUBSET Software, unread: BOOLEAN]
NoRequest == [step |-> "new", name |-> Blank, list |-> {}, unread |-> FALSE]

WhitelistTypeOK ==
  /\ wfile \subseteq Entries /\ adding \in [Adders -> Adding]
  /\ accidents \in 0 .. MaxAccidents

WhitelistInit ==
  /\ wfile \in SUBSET Entries /\ adding = [p \in Adders |-> NoRequest] /\ accidents = 0

NormalizeWhitelist(entries) == {Normal[e] : e \in entries} \ {Blank}

Accident == accidents < MaxAccidents /\ accidents' = accidents + 1

\* authorize_software has lowered and trimmed the name.
Authorize(p) ==
  /\ adding[p] = NoRequest
  /\ \E s \in Software : adding' = [adding EXCEPT ![p].step = "waiting", ![p].name = s]
  /\ UNCHANGED <<wfile, accidents>>

Holding == {p \in Adders : adding[p].step \in {"locked", "read", "saved"}}
LockOfOneProcess == TRUE
LockFree == Holding = {}

Lock(p) ==
  /\ adding[p].step = "waiting" /\ LockFree
  /\ adding' = [adding EXCEPT ![p].step = "locked"]
  /\ UNCHANGED <<wfile, accidents>>

\* A file that cannot be read or parsed is an empty list.
Load(p) ==
  /\ adding[p].step = "locked"
  /\ \/ /\ adding' = [adding EXCEPT ![p].step = "read", ![p].list = NormalizeWhitelist(wfile)]
        /\ UNCHANGED accidents
     \/ /\ Accident
        /\ adding' = [adding EXCEPT ![p].step = "read", ![p].unread = TRUE]
  /\ UNCHANGED wfile

Save(p) ==
  /\ adding[p].step = "read"
  /\ adding' = [adding EXCEPT ![p].step = "saved"]
  /\ \/ adding[p].name \in adding[p].list /\ UNCHANGED <<wfile, accidents>>
     \/ /\ adding[p].name \notin adding[p].list
        /\ \/ wfile' = adding[p].list \cup {adding[p].name} /\ UNCHANGED accidents
           \/ Accident /\ UNCHANGED wfile

Release(p) ==
  /\ adding[p].step = "saved" /\ adding' = [adding EXCEPT ![p].step = "done"]
  /\ UNCHANGED <<wfile, accidents>>

\* The request is cancelled while it holds the lock and has not read yet, or
\* its process dies; the lock goes with the descriptor.
Abandon(p) ==
  /\ adding[p].step \in {"waiting", "locked", "read", "saved"} /\ Accident
  /\ adding' = [adding EXCEPT ![p].step = "done"] /\ UNCHANGED wfile

WhitelistNext ==
  \E p \in Adders :
    Authorize(p) \/ Lock(p) \/ Load(p) \/ Save(p) \/ Release(p) \/ Abandon(p)

Unread ==
  {adding[p].name : p \in {q \in Adders : adding[q].step = "read" /\ adding[q].unread}}

Abstract == INSTANCE Authorized
  WITH Names <- Software, authorized <- NormalizeWhitelist(wfile), blind <- Unread
-----------------------------------------------------------------------------
(* The file is a set that only grows: of two requests, in one server or in *)
(* two, neither overwrites what the other added, and normalizing the       *)
(* entries of an operator loses none.  The one exception is an addition    *)
(* that itself failed to read the file (Whitelist.Add, app.go).            *)
OnlyGrows == Abstract!Spec
=============================================================================
