----------------------------- MODULE Directory -----------------------------
(***************************************************************************)
(* The domains and addresses tables and the handlers that change them      *)
(* (internal/store, internal/api).  Inbound builds on this module.         *)
(*                                                                         *)
(* A mailbox (Box) is a full address, local part and domain name.  Row ids *)
(* are numbers never used twice (newID draws 96 random bits); 0 is "none". *)
(* Each SQL statement is one atomic step, as in Relay.                     *)
(***************************************************************************)
EXTENDS Integers, FiniteSets

CONSTANTS
  Name,     \* domain names
  Box,      \* mailboxes
  NameOf,   \* NameOf[b] is the domain name of mailbox b
  MaxIds    \* bound: rows ever created

ASSUME DirectoryAssumption ==
  /\ NameOf \in [Box -> Name]
  /\ MaxIds \in Nat

VARIABLES
  domain,     \* domain[n] is the id of the row with that (UNIQUE) name
  addresses,  \* rows [id, dom, box]: an id, its domain_id and its mailbox
  creating,   \* address-create handlers past GetDomain: [dom, box]
  issued      \* ids given out

dirVars == <<domain, addresses, creating, issued>>

None    == 0
Address == [id : Nat \ {None}, dom : Nat \ {None}, box : Box]

DirTypeOK ==
  /\ domain \in [Name -> Nat]
  /\ addresses \subseteq Address
  /\ creating \subseteq [dom : Nat \ {None}, box : Box]
  /\ issued \in 0..MaxIds

DirInit ==
  /\ domain = [n \in Name |-> None]
  /\ addresses = {}
  /\ creating = {}
  /\ issued = 0

\* Slip: ids that are given again once their row is gone.
NewIdReused ==
  CHOOSE i \in 1..(issued + 1) :
    \A j \in 1..i : j = i <=> j \notin {domain[n] : n \in Name} \union {a.id : a \in addresses}

NewId == issued + 1

-----------------------------------------------------------------------------
(* Lookups. *)

Live(d) == d # None /\ \E n \in Name : domain[n] = d

\* The row with this domain_id and local_part, as a set of at most one row.
RowsOf(d, b) == {a \in addresses : a.dom = d /\ a.box = b}

\* Its id, or None.
RowId(d, b) == IF RowsOf(d, b) = {} THEN None
               ELSE (CHOOSE a \in RowsOf(d, b) : TRUE).id

HasAddresses(d) == \E a \in addresses : a.dom = d

-----------------------------------------------------------------------------
(* The handlers. *)

\* handleDomainCreate.  A name that is taken fails the UNIQUE: nothing changes.
CreateDomain(n) ==
  /\ domain[n] = None
  /\ issued < MaxIds
  /\ domain' = [domain EXCEPT ![n] = NewId]
  /\ issued' = issued + 1
  /\ UNCHANGED <<addresses, creating>>

\* handleDomainDelete: the row of the domain, if there is one, and only that.
\* The addresses stay (the driver ignores the _foreign_keys of db.Open).
DeleteDomain(n) ==
  /\ domain' = [domain EXCEPT ![n] = None]
  /\ UNCHANGED <<addresses, creating, issued>>

\* handleAddressCreate up to CreateAddress's GetDomain.
StartAddress(b) ==
  /\ domain[NameOf[b]] # None
  /\ creating' = creating \union {[dom |-> domain[NameOf[b]], box |-> b]}
  /\ UNCHANGED <<domain, addresses, issued>>

\* CreateAddress's INSERT, with the domain id it was called with.  A second
\* row for the mailbox fails the unique index.
InsertAddress(c) ==
  /\ c \in creating
  /\ creating' = creating \ {c}
  /\ \/ /\ RowsOf(c.dom, c.box) = {}
        /\ issued < MaxIds
        /\ addresses' = addresses \union {[id |-> NewId, dom |-> c.dom, box |-> c.box]}
        /\ issued' = issued + 1
     \/ /\ RowsOf(c.dom, c.box) # {}
        /\ UNCHANGED <<addresses, issued>>
  /\ UNCHANGED domain

\* handleAddressDelete.  It checks some domain's token, before, and deletes
\* by id alone, so whether the row's domain is still there makes no difference.
DeleteAddress(a) ==
  /\ a \in addresses
  /\ addresses' = addresses \ {a}
  /\ UNCHANGED <<domain, creating, issued>>

\* The process ends: the handlers on their way are gone.
DirRestart ==
  /\ creating' = {}
  /\ UNCHANGED <<domain, addresses, issued>>

DirHandler ==
  \/ \E n \in Name : CreateDomain(n) \/ DeleteDomain(n)
  \/ \E b \in Box : StartAddress(b)
  \/ \E c \in creating : InsertAddress(c)
  \/ \E a \in addresses : DeleteAddress(a)

DirNext == DirHandler \/ DirRestart

DirSpec == DirInit /\ [][DirNext]_dirVars

-----------------------------------------------------------------------------
(* Properties. *)

\* A domain that is created, or created again under the name of a deleted one
\* whose rows were left behind, starts without addresses, and no create
\* handler that is still on its way will give it one it did not ask for.
StartsEmpty ==
  [][\A n \in Name :
       domain'[n] # domain[n] /\ domain'[n] # None =>
         /\ ~HasAddresses(domain'[n])
         /\ \A c \in creating : c.dom # domain'[n]]_dirVars

\* An address belongs to the domain its mailbox names, as long as that domain
\* is there (ValidateAddress goes from the name to the id and then to the row).
OwnDomain ==
  \A a \in addresses : Live(a.dom) => domain[NameOf[a.box]] = a.dom
=============================================================================
