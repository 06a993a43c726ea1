--------------------------- MODULE DirectoryProofs ---------------------------
(***************************************************************************)
(* Theorems about Directory, for any names, mailboxes and number of rows.  *)
(*                                                                         *)
(* Ids are given out once, so a new domain shares its id with nothing that *)
(* was left behind, by a row or by a handler that is on its way.  That is  *)
(* IdInv; without it neither OwnDomain nor StartsEmpty is inductive.       *)
(***************************************************************************)
EXTENDS Directory, TLAPS

\* Every id in use was given out, no two domains share one, and rows and
\* handlers belong to the domain that their mailbox names if it is there.
IdInv ==
  /\ \A n \in Name : domain[n] <= issued
  /\ \A n, k \in Name : domain[n] = domain[k] /\ domain[n] # None => n = k
  /\ \A a \in addresses : a.dom <= issued
  /\ \A c \in creating : c.dom <= issued
  /\ \A a \in addresses : \A n \in Name : domain[n] = a.dom => n = NameOf[a.box]
  /\ \A c \in creating : \A n \in Name : domain[n] = c.dom => n = NameOf[c.box]

DirInv == DirTypeOK /\ IdInv

LEMMA DirInitInv == DirInit => DirInv
BY DirectoryAssumption DEF DirInit, DirInv, DirTypeOK, IdInv, Address, None

LEMMA DirStepInv == DirInv /\ [DirNext]_dirVars => DirInv'
<1> SUFFICES ASSUME DirInv, [DirNext]_dirVars PROVE DirInv'
  OBVIOUS
<1> USE DirectoryAssumption DEF DirInv, None
<1>1. ASSUME NEW n \in Name, CreateDomain(n) PROVE DirInv'
  <2> USE <1>1 DEF CreateDomain, NewId
  <2>1. DirTypeOK'
    BY DEF DirTypeOK
  <2>2. /\ domain'[n] = issued + 1
        /\ \A k \in Name \ {n} : domain'[k] = domain[k]
    BY DEF DirTypeOK
  <2>3. issued \in Nat /\ \A k \in Name : domain[k] \in Nat
    BY DEF DirTypeOK
  <2>4. /\ \A a \in addresses : a.dom \in Nat \ {0} /\ a.box \in Box
        /\ \A c \in creating : c.dom \in Nat \ {0} /\ c.box \in Box
    BY DEF DirTypeOK, Address
  <2>5. IdInv'
    BY <2>2, <2>3, <2>4 DEF IdInv
  <2> QED
    BY <2>1, <2>5
<1>2. ASSUME NEW n \in Name, DeleteDomain(n) PROVE DirInv'
  <2> USE <1>2 DEF DeleteDomain
  <2>1. DirTypeOK'
    BY DEF DirTypeOK
  <2>2. /\ domain'[n] = 0
        /\ \A k \in Name \ {n} : domain'[k] = domain[k]
    BY DEF DirTypeOK
  <2>3. issued \in Nat /\ \A k \in Name : domain[k] \in Nat
    BY DEF DirTypeOK
  <2>4. /\ \A a \in addresses : a.dom \in Nat \ {0} /\ a.box \in Box
        /\ \A c \in creating : c.dom \in Nat \ {0} /\ c.box \in Box
    BY DEF DirTypeOK, Address
  <2>5. IdInv'
    BY <2>2, <2>3, <2>4 DEF IdInv
  <2> QED
    BY <2>1, <2>5
<1>3. ASSUME NEW b \in Box, StartAddress(b) PROVE DirInv'
  <2> USE <1>3 DEF StartAddress
  <2>1. NameOf[b] \in Name /\ domain[NameOf[b]] \in Nat \ {0}
    BY DEF DirTypeOK
  <2>2. DirTypeOK'
    BY <2>1 DEF DirTypeOK
  <2>3. IdInv'
    BY <2>1 DEF IdInv
  <2> QED
    BY <2>2, <2>3
<1>4. ASSUME NEW c \in creating, InsertAddress(c) PROVE DirInv'
  <2> DEFINE row == [id |-> issued + 1, dom |-> c.dom, box |-> c.box]
  <2>1. issued \in Nat /\ c.dom \in Nat \ {0} /\ c.box \in Box
    BY DEF DirTypeOK
  <2>2. /\ domain' = domain
        /\ creating' = creating \ {c}
        /\ issued' \in {issued, issued + 1} /\ issued' \in 0..MaxIds
        /\ addresses' \subseteq addresses \union {row}
    BY <1>4, <2>1 DEF InsertAddress, NewId, DirTypeOK
  <2>3. row \in Address
    BY <2>1 DEF Address
  <2>4. DirTypeOK'
    BY <2>2, <2>3 DEF DirTypeOK
  <2>5. row.dom = c.dom /\ row.box = c.box
    OBVIOUS
  <2> HIDE DEF row
  <2>6. /\ \A n \in Name : domain[n] \in Nat
        /\ \A a \in addresses : a.dom \in Nat
        /\ \A k \in creating : k.dom \in Nat
    BY DEF DirTypeOK, Address
  <2>7. (\A n \in Name : domain[n] <= issued)'
    BY <2>1, <2>2, <2>6 DEF IdInv
  <2>8. (\A a \in addresses : a.dom <= issued)'
    BY <2>1, <2>2, <2>5, <2>6 DEF IdInv
  <2>9. (\A k \in creating : k.dom <= issued)'
    BY <2>1, <2>2, <2>6 DEF IdInv
  <2>10. (\A a \in addresses : \A n \in Name : domain[n] = a.dom => n = NameOf[a.box])'
    BY <2>2, <2>5 DEF IdInv
  <2>11. IdInv'
    BY <2>2, <2>7, <2>8, <2>9, <2>10 DEF IdInv
  <2> QED
    BY <2>4, <2>11
<1>5. ASSUME NEW a \in addresses, DeleteAddress(a) PROVE DirInv'
  BY <1>5 DEF DeleteAddress, DirTypeOK, IdInv
<1>6. CASE DirRestart
  BY <1>6 DEF DirRestart, DirTypeOK, IdInv
<1>7. CASE UNCHANGED dirVars
  BY <1>7 DEF dirVars, DirTypeOK, IdInv
<1> QED
  BY <1>1, <1>2, <1>3, <1>4, <1>5, <1>6, <1>7 DEF DirNext, DirHandler

-----------------------------------------------------------------------------
(* Rows of addresses. *)

\* The unique index of addresses.
OneRow == \A a, b \in addresses : a.dom = b.dom /\ a.box = b.box => a = b

LEMMA OneRowStep ==
  ASSUME DirInv, OneRow, DirNext
  PROVE  OneRow'
<1>1. ASSUME addresses' \subseteq addresses PROVE OneRow'
  BY <1>1 DEF OneRow
<1>2. ASSUME NEW c \in creating, InsertAddress(c) PROVE OneRow'
  <2>1. CASE RowsOf(c.dom, c.box) = {}
    <3> DEFINE row == [id |-> NewId, dom |-> c.dom, box |-> c.box]
    <3>1. addresses' = addresses \union {row}
      BY <1>2, <2>1 DEF InsertAddress
    <3>2. row.dom = c.dom /\ row.box = c.box
      OBVIOUS
    <3>3. \A a \in addresses : ~(a.dom = c.dom /\ a.box = c.box)
      BY <2>1 DEF RowsOf
    <3> HIDE DEF row
    <3> QED BY <3>1, <3>2, <3>3 DEF OneRow
  <2>2. CASE RowsOf(c.dom, c.box) # {}
    BY <1>1, <1>2, <2>2 DEF InsertAddress
  <2> QED BY <2>1, <2>2
<1> QED BY <1>1, <1>2 DEF DirNext, DirHandler, CreateDomain, DeleteDomain, StartAddress,
                          DeleteAddress, DirRestart

\* An id was given out, and to one row.
RowInv ==
  /\ OneRow
  /\ \A a \in addresses : a.id <= issued
  /\ \A a, b \in addresses : a.id = b.id => a = b

LEMMA RowInit == DirInit => RowInv
BY DEF DirInit, RowInv, OneRow

LEMMA RowStep ==
  ASSUME DirInv, RowInv, [DirNext]_dirVars
  PROVE  /\ RowInv'
         /\ \A a \in addresses' : a \in addresses \/ a.id = issued + 1
<1>1. issued \in Nat /\ \A a \in addresses : a.id \in Nat
  BY DEF DirInv, DirTypeOK, Address
<1>2. ASSUME addresses' \subseteq addresses, issued' \in {issued, issued + 1}
      PROVE  /\ RowInv'
             /\ \A a \in addresses' : a \in addresses \/ a.id = issued + 1
  BY <1>1, <1>2 DEF RowInv, OneRow
<1>3. ASSUME NEW c \in creating, InsertAddress(c), RowsOf(c.dom, c.box) = {}
      PROVE  /\ RowInv'
             /\ \A a \in addresses' : a \in addresses \/ a.id = issued + 1
  <2> DEFINE row == [id |-> NewId, dom |-> c.dom, box |-> c.box]
  <2>1. addresses' = addresses \union {row} /\ issued' = issued + 1
    BY <1>3 DEF InsertAddress
  <2>2. row.id = issued + 1
    BY DEF NewId
  <2>3. OneRow'
    BY <1>3, OneRowStep DEF RowInv, DirNext, DirHandler
  <2> HIDE DEF row
  <2>4. \A a, b \in addresses' : a.id = b.id => a = b
    BY <1>1, <2>1, <2>2 DEF RowInv
  <2> QED
    BY <1>1, <2>1, <2>2, <2>3, <2>4 DEF RowInv
<1> QED
  BY <1>2, <1>3 DEF DirNext, DirHandler, CreateDomain, DeleteDomain, StartAddress, InsertAddress,
                    DeleteAddress, DirRestart, NewId, dirVars

-----------------------------------------------------------------------------
(* The theorems. *)

\* Every variable of Directory keeps its type, in particular no handler and no
\* row ever holds the id 0 of a domain that is not there.
THEOREM DirectoryTypes == DirSpec => []DirTypeOK
<1>1. DirInv => DirTypeOK
  BY DEF DirInv
<1> QED
  BY DirInitInv, DirStepInv, <1>1, PTL DEF DirSpec

\* An address belongs to the domain its mailbox names, over any sequence of
\* deletions and re-creations of domains, and with late create handlers.
THEOREM AddressesKeepTheirDomain == DirSpec => []OwnDomain
<1>1. DirInv => OwnDomain
  BY DEF DirInv, IdInv, OwnDomain, Live
<1> QED
  BY DirInitInv, DirStepInv, <1>1, PTL DEF DirSpec

\* A domain that is created or created again starts without addresses, and no
\* handler that is on its way will add one.
THEOREM NewDomainsStartEmpty == DirSpec => StartsEmpty
<1> DEFINE Empty ==
      \A n \in Name : domain'[n] # domain[n] /\ domain'[n] # None =>
         /\ ~HasAddresses(domain'[n])
         /\ \A c \in creating : c.dom # domain'[n]
<1>1. DirInv /\ [DirNext]_dirVars => [Empty]_dirVars
  <2> SUFFICES ASSUME DirInv, DirNext,
                      NEW n \in Name, domain'[n] # domain[n], domain'[n] # None
               PROVE  /\ ~HasAddresses(domain'[n])
                      /\ \A c \in creating : c.dom # domain'[n]
    OBVIOUS
  <2>1. domain'[n] = issued + 1
    BY DEF DirNext, DirHandler, DirRestart, CreateDomain, DeleteDomain, StartAddress,
           InsertAddress, DeleteAddress, NewId, DirInv, DirTypeOK
  <2>2. issued \in Nat
    BY DEF DirInv, DirTypeOK
  <2>3. /\ \A a \in addresses : a.dom \in Nat /\ a.dom <= issued
        /\ \A c \in creating : c.dom \in Nat /\ c.dom <= issued
    BY DEF DirInv, DirTypeOK, IdInv, Address
  <2> QED
    BY <2>1, <2>2, <2>3 DEF HasAddresses
<1>2. StartsEmpty <=> [][Empty]_dirVars
  BY DEF StartsEmpty
<1> QED
  BY DirInitInv, DirStepInv, <1>1, <1>2, PTL DEF DirSpec
=============================================================================
