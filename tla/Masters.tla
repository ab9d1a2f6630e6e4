------------------------------ MODULE Masters ------------------------------
(***************************************************************************)
(* The master templates institutions upload for the documents exported to  *)
(* companies: a file in the store, a row that names the one in use, and    *)
(* the export that fills it in or falls back to the built-in one.  The     *)
(* file system and the database are not part of the repository.            *)
(***************************************************************************)

CONSTANTS
    Uploaders,      \* institutions, each with a deal to export
    Kinds,          \* kinds of documents with a master: "pptx", "docx"
    Nothing,        \* no key, no file
    Broken,         \* a file that is no ZIP archive, or only a part of one
    BuiltIn,        \* the master built into the program
    Desks           \* bound: requests in progress at the same time

ASSUME MastersAssumption ==
    /\ {Nothing, Broken, BuiltIn} \cap Uploaders = {}
    /\ Broken # Nothing /\ Broken # BuiltIn /\ BuiltIn # Nothing

VARIABLES
    file,       \* the stored masters: whose content each path has
    masterKey,  \* tenant_templates: the path in use for each kind
    desk,       \* where each request is
    exported    \* history: who got a document of which kind from whose master

mastersVars == <<file, masterKey, desk, exported>>

AtEase == [pc |-> "idle"]
Paths == Uploaders \X Kinds

MastersInit ==
    /\ file = [p \in Paths |-> Nothing]
    /\ masterKey = [p \in Paths |-> Nothing]
    /\ desk = [k \in Desks |-> AtEase]
    /\ exported = {}

----------------------------------------------------------------------------
(* Plausible bug: the path of a master leaves out whose it is.             *)
SharedPath(o, kind) == CHOOSE p \in Paths : p[2] = kind

PathOf(o, kind) == <<o, kind>>

(* The file is written under a lock, over what was there.                  *)
SaveFile(o, kind, content) == file' = [file EXCEPT ![PathOf(o, kind)] = content]

(* A write that fails half-way, or bytes that are no archive, leave        *)
(* something unusable at the path in use.                                  *)
UploadTemplate(k, o, kind) ==
    /\ desk[k] = AtEase
    /\ \/ /\ \E content \in {o, Broken} : SaveFile(o, kind, content)
          /\ desk' = [desk EXCEPT ![k] = [pc |-> "key", org |-> o, kind |-> kind]]
       \/ SaveFile(o, kind, Broken) /\ UNCHANGED desk
    /\ UNCHANGED <<masterKey, exported>>

(* The upload ends with the key; when that fails, the file stays.          *)
SaveTenantTemplateKey(k) ==
    /\ desk[k].pc = "key"
    /\ LET own == <<desk[k].org, desk[k].kind>> IN
       \/ masterKey' = [masterKey EXCEPT ![own] = PathOf(desk[k].org, desk[k].kind)]
       \/ UNCHANGED masterKey
    /\ desk' = [desk EXCEPT ![k] = AtEase] /\ UNCHANGED <<file, exported>>

(* The key is forgotten, the file is not.                                  *)
ClearTenantTemplateKey(o, kind) == masterKey' = [masterKey EXCEPT ![<<o, kind>>] = Nothing]

ResetTemplate(o, kind) ==
    /\ ClearTenantTemplateKey(o, kind)
    /\ UNCHANGED <<file, exported, desk>>

GetTenantTemplate(o, kind) == masterKey[<<o, kind>>]

(* Exporting reads the institution's deal and the key, whose error is not  *)
(* looked at, then the file.                                               *)
ExportProposal(k, o, kind) ==
    /\ desk[k] = AtEase
    /\ \E path \in {GetTenantTemplate(o, kind), Nothing} :
          desk' = [desk EXCEPT ![k] = [pc |-> "file", org |-> o, kind |-> kind, path |-> path]]
    /\ UNCHANGED <<file, masterKey, exported>>

GetTemplate(path) == IF path = Nothing THEN Nothing ELSE file[path]

(* Placeholders are replaced in the entries of an archive.                 *)
SubstitutePlaceholders(content) == IF content = Broken THEN Nothing ELSE content

(* Anything missing or unusable falls back to the built-in master.         *)
FillTemplate(k) ==
    /\ desk[k].pc = "file"
    /\ LET own == SubstitutePlaceholders(GetTemplate(desk[k].path)) IN
       \E master \in {BuiltIn} \cup ({own} \ {Nothing}) :
          exported' = exported \cup {<<desk[k].org, desk[k].kind, master>>}
    /\ desk' = [desk EXCEPT ![k] = AtEase] /\ UNCHANGED <<file, masterKey>>

MastersStop ==
    /\ \E k \in Desks : desk[k] # AtEase
    /\ desk' = [k \in Desks |-> AtEase]
    /\ UNCHANGED <<file, masterKey, exported>>

MastersNext ==
    \/ \E k \in Desks, o \in Uploaders, kind \in Kinds :
          UploadTemplate(k, o, kind) \/ ExportProposal(k, o, kind)
    \/ \E k \in Desks : SaveTenantTemplateKey(k) \/ FillTemplate(k)
    \/ \E o \in Uploaders, kind \in Kinds : ResetTemplate(o, kind)
    \/ MastersStop

MastersSpec == MastersInit /\ [][MastersNext]_mastersVars

----------------------------------------------------------------------------
(* The state is well typed.                                                *)
MastersTypeOK ==
    /\ file \in [Paths -> Uploaders \cup {Nothing, Broken}]
    /\ masterKey \in [Paths -> Paths \cup {Nothing}]
    /\ desk \in [Desks -> {AtEase}
         \cup [pc : {"key"}, org : Uploaders, kind : Kinds]
         \cup [pc : {"file"}, org : Uploaders, kind : Kinds, path : Paths \cup {Nothing}]]
    /\ exported \subseteq Uploaders \X Kinds \X (Uploaders \cup {BuiltIn})

(* A document is made from the institution's own master or the built-in    *)
(* one, whoever uploads, resets and exports at the same time, and a key in *)
(* use or in the hands of an export names a file that was written, so that *)
(* only a broken one leads to the fallback (UploadTemplate,                *)
(* ExportProposal).                                                        *)
MastersAreOwn ==
    /\ \A e \in exported : e[3] \in {e[1], BuiltIn}
    /\ \A p \in Paths : masterKey[p] # Nothing => file[masterKey[p]] # Nothing
    /\ \A k \in Desks : desk[k] # AtEase /\ desk[k].pc = "file" /\ desk[k].path # Nothing
                              => file[desk[k].path] # Nothing
=============================================================================
