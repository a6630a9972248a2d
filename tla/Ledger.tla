------------------------------- MODULE Ledger -------------------------------
(***************************************************************************)
(* What the chain promises: the transactions of chaincode-java's           *)
(* AssetTransfer on the ledger's key-value state.  A transaction is        *)
(* atomic.  Audit and Dedup implement this specification: the part of      *)
(* their state that is on the chain changes by its actions only.           *)
(***************************************************************************)
EXTENDS TLAPS

CONSTANTS
  FileAssets,   \* what CreateFileAsset can store
  AuditAssets,  \* what CreateAuditAsset can store: records with a kind and a result
  Id(_),        \* the key an asset is stored under
  Holds(_)      \* the pairing of an audit asset's proof comes out equal

VARIABLE assets \* the assets there are

Init == assets = {}

AssetExists(id) == \E a \in assets : Id(a) = id

\* A verdict of 1 over a proof whose pairing the chaincode does not find equal itself is
\* stored as a 0.
Verified(a) == a.kind = "result" /\ a.result = 1 => Holds(a)

\* A second asset under a key is refused.
CreateAuditAsset(a) ==
  /\ a \in AuditAssets /\ Verified(a) /\ ~AssetExists(Id(a))
  /\ assets' = assets \cup {a}

CreateFileAsset(a) ==
  /\ a \in FileAssets /\ ~AssetExists(Id(a))
  /\ assets' = assets \cup {a}

\* Called by DepService.delete alone, for the file asset it has read.
DeleteAsset(a) ==
  /\ a \in assets /\ a \in FileAssets
  /\ assets' = {b \in assets : Id(b) # Id(a)}

\* What is created is there afterwards: the sets of possible assets need not be finite.
Next ==
  \/ \E a \in assets' : CreateAuditAsset(a) \/ CreateFileAsset(a)
  \/ \E a \in assets : DeleteAsset(a)

Spec == Init /\ [][Next]_assets

----------------------------------------------------------------------------
\* A key names one asset (AssetExists is looked up before each put).
KeysUnique == \A a, b \in assets : Id(a) = Id(b) => a = b

\* An audit asset is there for good, as it was published.
AuditsKept == [][\A a \in assets \cap AuditAssets : a \in assets']_assets

LEMMA KeysUniqueNext == KeysUnique /\ [Next]_assets => KeysUnique'
BY DEF KeysUnique, Next, CreateAuditAsset, CreateFileAsset, DeleteAsset, AssetExists

\* Whatever is created and deleted, ReadFileAsset and ReadAuditAsset find one asset at most.
THEOREM LedgerKeysUnique == Spec => []KeysUnique
<1>1. Init => KeysUnique
  BY DEF Init, KeysUnique
<1> QED BY <1>1, KeysUniqueNext, PTL DEF Spec

\* Deleting a file takes no challenge, proof or verdict with it, given that a file asset is
\* none of these: DeleteAsset removes whatever has the key.
THEOREM LedgerAuditsKept ==
  ASSUME FileAssets \cap AuditAssets = {}
  PROVE  Spec => AuditsKept
<1>1. Init => KeysUnique
  BY DEF Init, KeysUnique
<1>2. KeysUnique /\ [Next]_assets => [\A a \in assets \cap AuditAssets : a \in assets']_assets
  BY DEF KeysUnique, Next, CreateAuditAsset, CreateFileAsset, DeleteAsset
<1> QED BY <1>1, <1>2, KeysUniqueNext, PTL DEF Spec, AuditsKept
=============================================================================
