----------------------------- MODULE ServerLocks -----------------------------
(***************************************************************************)
(* The stretches of the language server that hold one guard of the server  *)
(* state while they take another, and the writers that compete with them,  *)
(* as sections of LockOrder.  A guard lives for a scope, so a section is   *)
(* built from nested scopes.  A Mutex is a lock that is only written.      *)
(***************************************************************************)
EXTENDS LockOrder, TLC

\* A guard of this mode on this lock around a body of lock operations.
Under(mode, l, body) ==
  <<[op |-> mode, lock |-> l]>> \o body \o <<[op |-> "drop", lock |-> l]>>

\* A guard that is dropped before anything else is locked.
Touch(mode, l) == Under(mode, l, <<>>)

(* Helpers that lock, called both inside and outside other guards.         *)

\* loc_overlay_keys on a cache miss.
LocOverlayKeys ==
  Touch("write", "loc_overlay_keys_cache")
  \o Touch("read", "loc_live_overlay") \o Touch("read", "loc_watched_overlay")
  \o Touch("write", "loc_overlay_keys_cache")

\* refresh_type_uses and the queueing of the names it returns.
RefreshTypeUses == Touch("write", "type_uses") \o Touch("write", "pending_changed_names")

\* unused_instance_errors, with a merge of all recorded uses.
UnusedInstanceErrors ==
  RefreshTypeUses \o Touch("write", "type_uses_merged")
  \o Touch("read", "type_uses") \o Touch("write", "type_uses_merged")

\* clear_ignored_file_state: each lock on its own.
ClearIgnoredFileState ==
  Touch("read", "config") \o Touch("write", "info_service")
  \o Touch("write", "doc_tokens") \o RefreshTypeUses
  \o Touch("write", "loc_live_overlay") \o Touch("write", "loc_watched_overlay")
  \o Touch("write", "watched_signatures")

\* Mutant of IndexParsedFile: checks the version of the document on every call.
IndexParsedFile_checksAlways(versioned) ==
  Touch("read", "config") \o Touch("read", "rules")
  \o Touch("write", "documents") \o Touch("write", "info_service")

\* index_parsed_file of a file that is not ignored.  Only a parse that came from an
\* open document is checked against the documents.
IndexParsedFile(versioned) ==
  Touch("read", "config") \o Touch("read", "rules")
  \o (IF versioned THEN Touch("write", "documents") ELSE <<>>)
  \o Touch("write", "info_service")

(* Text synchronisation and validation.                                    *)

\* The last part of did_close under both guards: what it forgets and reads back.
CloseTail ==
  Touch("write", "loc_live_overlay") \o Touch("write", "completion_generation")
  \o Touch("write", "fresh_ast_cache") \o Touch("read", "info_service")

Closing(restore) ==
  Under("write", "doc_tokens", Under("write", "documents", restore \o CloseTail))

\* did_close of a file that is on disk, of one that is not, and of one that an ignore
\* pattern excludes from the index.
CloseRestored == Closing(IndexParsedFile(FALSE))
CloseAbsent ==
  Closing(Touch("write", "info_service")
          \o Under("write", "type_uses", Touch("write", "pending_changed_names")))
CloseIgnored == Closing(Touch("read", "config") \o ClearIgnoredFileState)

\* parse_and_validate after the index write; the guards are dropped inside out.
ParseAndValidate ==
  LocOverlayKeys
  \o Under("read", "rules", Under("read", "info_service", Under("read", "loc_index",
       Touch("read", "config") \o UnusedInstanceErrors)))

\* debounced_validate records tokens, then looks at the documents.
StoreAst == Touch("write", "doc_tokens") \o Touch("write", "documents")

\* revalidate_open_dependents: the snapshot of the open documents.
SweepSnapshot == Under("read", "doc_tokens", Touch("write", "documents"))

\* Mutant of SweepValidate: checks inside the loop that the document is still current.
SweepValidate_checksInside ==
  Under("read", "rules",
    Touch("write", "documents")
    \o Under("read", "info_service", Under("read", "loc_index", Touch("read", "config"))))

\* revalidate_open_dependents: one dependent validated, or the names put back.
SweepValidate ==
  Under("read", "rules",
    Touch("read", "config") \o LocOverlayKeys
    \o Under("read", "info_service", Under("read", "loc_index",
         Touch("read", "config") \o UnusedInstanceErrors))
    \o Touch("write", "pending_changed_names"))

(* Configuration, scans and the caches they fill.                          *)

SetRuleset == Under("write", "rules", Touch("write", "info_service"))
RebuildModifierKeys == Under("write", "rules", Touch("read", "info_service"))
SetConfig == Touch("write", "config")
PublishRuleDiagnostics == Under("write", "published_rule_uris", Touch("write", "documents"))
MergeVanilla ==
  Under("write", "vanilla_var_names", Touch("write", "info_service"))
  \o Touch("write", "vanilla_file_paths") \o Touch("write", "info_service")
InstallLocIndex == Touch("write", "loc_index") \o Touch("write", "loc_text")
GenerateMissingLoc ==
  Under("read", "rules", Under("read", "info_service", Touch("read", "loc_index")))

(* Requests.                                                               *)

\* hover_impl; fill_display_names of the graph has the second scope alone.
Hover ==
  Under("read", "rules",
    Touch("read", "info_service") \o Touch("read", "loc_text")
    \o Under("read", "info_service", Touch("read", "loc_text")))

\* collect_use_sites of find-references and rename.
CollectUseSites ==
  Under("write", "documents", Under("read", "rules", Touch("read", "config")))

\* The scope hints of inlay_hint_impl.
InlayScopes ==
  Under("read", "rules", Under("read", "info_service", Touch("read", "config")))

\* completion_loc_keys, the start of a completion request and its fallback.
CompletionLocKeys == Under("read", "loc_live_overlay", Touch("read", "loc_watched_overlay"))
CompletionStart == Under("write", "documents", Touch("write", "completion_generation"))
CompletionFallback == Under("read", "info_service", Touch("write", "fallback_cache"))

-----------------------------------------------------------------------------
\* Every section but the close of an ignored file.
OrdinarySections ==
  { CloseRestored, CloseAbsent, IndexParsedFile(TRUE), ParseAndValidate, StoreAst,
    SweepSnapshot, SweepValidate, ClearIgnoredFileState, SetRuleset, RebuildModifierKeys,
    SetConfig, PublishRuleDiagnostics, MergeVanilla, InstallLocIndex, GenerateMissingLoc,
    Hover, CollectUseSites, InlayScopes, CompletionLocKeys, CompletionStart,
    CompletionFallback }

\* And with it.
AllSections == OrdinarySections \cup {CloseIgnored}

\* An acquisition order for the locks: the documented one, with doc_tokens and
\* published_rule_uris before documents and the leaf locks after loc_index.
AcquisitionOrder ==
  << "published_rule_uris", "doc_tokens", "documents", "rules", "vanilla_var_names",
     "vanilla_file_paths", "info_service", "loc_index", "loc_text", "config",
     "loc_live_overlay", "loc_watched_overlay", "loc_overlay_keys_cache",
     "type_uses", "type_uses_merged", "pending_changed_names", "watched_signatures",
     "completion_generation", "fresh_ast_cache", "fallback_cache" >>

ServerLockNames == {AcquisitionOrder[i] : i \in 1..Len(AcquisitionOrder)}

ServerRank == [l \in ServerLockNames |->
  CHOOSE i \in 1..Len(AcquisitionOrder) : AcquisitionOrder[i] = l]

\* Threads are interchangeable.
ThreadSymmetry == Permutations(Threads)
=============================================================================
