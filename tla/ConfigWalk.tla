----------------------------- MODULE ConfigWalk -----------------------------
(***************************************************************************)
(* From a parsed config to what each directory is made of: the resources   *)
(* of the builder (tgmount_builderbase.py, tgmount_providers.py) and one   *)
(* step of TgmountConfigReader.walk_config_with_ctx for a directory in the *)
(* context its parents left (root_config_reader.py).                       *)
(***************************************************************************)
EXTENDS Filters

\* tgmount_providers.py
ProducerNames ==
  {"PlainDir", "BySender", "ByForward", "ByPerformer", "ByReactions", "SysInfo",
   "UnpackedZip"}
WrapperNames == {"ExcludeEmptyDirs", "ZipsAsDirs"}
CacheTypes == {"memory"}

DefaultProducer == "PlainDir"

\* get_used_sources: the sources that directories name.
RECURSIVE UsedSources(_)
UsedSources(dir) ==
  (IF dir.source = None THEN {} ELSE {dir.source.source})
    \cup UNION {UsedSources(dir.other_keys[k]) : k \in DOMAIN dir.other_keys}

\* create_tgmount_resources: only sources that are used exist, and a cache of
\* an unknown type raises.
Resources(config) ==
  IF \E c \in DOMAIN config.caches : config.caches[c].type \notin CacheTypes THEN Error
  ELSE [sources |-> UsedSources(config.root) \cap DOMAIN config.message_sources,
        caches  |-> DOMAIN config.caches]

\* RootConfigWalkingContext: what subdirectories inherit.  The file factory of
\* a cache is not part of it.
Context(source, filters) == [source |-> source, filters |-> filters]

NoContext == Context(None, <<>>)

-----------------------------------------------------------------------------
(* walk_config_with_ctx, for one directory *)

SourceMissing(dir, resources) ==
  dir.source # None /\ dir.source.source \notin resources.sources

\* Recursive, the source of a directory is the context of its own already.
WithOwnSource(dir, ctx) ==
  IF dir.source # None /\ dir.source.recursive
  THEN [ctx EXCEPT !.source = dir.source.source] ELSE ctx

CacheMissing(dir, resources) ==
  /\ dir.cache # None
  /\ IF dir.cache.kind = "reference" THEN dir.cache.cache \notin resources.caches
                                     ELSE dir.cache.cache.type \notin CacheTypes

OwnFilters(dir) ==
  IF dir.filter = None THEN <<>> ELSE ParseFilters(dir.filter.filter)

\* Variant: overwright is not looked at.
AlwaysAdded(dir, ctx, own) == ctx.filters \o own

FiltersFor(dir, ctx, own) ==
  IF dir.filter # None /\ dir.filter.overwright THEN own ELSE ctx.filters \o own

\* Variant: any filter makes the directory produce.
AnyFilterProduces(dir, ctx) ==
  IF dir.source # None /\ ~dir.source.recursive THEN dir.source.source
  ELSE IF dir.producer # None \/ dir.filter # None THEN ctx.source
  ELSE None

\* The source a directory is produced from: its own that is not recursive, or
\* that of the context, if there is a filter for this directory or a producer.
SourceFor(dir, ctx) ==
  CASE dir.source # None /\ ~dir.source.recursive -> dir.source.source
    [] /\ dir.source = None \/ dir.source.recursive
       /\ \/ dir.filter # None /\ ~dir.filter.recursive
          \/ dir.producer # None -> ctx.source
    [] OTHER -> None

ProducerFor(dir) == IF dir.producer = None THEN DefaultProducer ELSE dir.producer[1]

WrapperMissing(dir) == dir.wrapper # None /\ dir.wrapper[1] \notin WrapperNames

\* extend_recursive_filters: the filters are added to those of the context,
\* also if they overwright them for the directory itself.
ContextBelow(dir, ctx, own) ==
  IF dir.filter # None /\ dir.filter.recursive
  THEN [ctx EXCEPT !.filters = @ \o own] ELSE ctx

\* The directory with what it is produced from and the context of its
\* subdirectories, or the exception.  A producer that does not exist is noticed
\* only where a source is used.
Resolve(dir, ctx, resources) ==
  LET own    == OwnFilters(dir)
      inside == WithOwnSource(dir, ctx)
      source == SourceFor(dir, inside)
  IN  IF \/ SourceMissing(dir, resources)
         \/ CacheMissing(dir, resources)
         \/ own = Error
         \/ source # None /\ ProducerFor(dir) \notin ProducerNames
         \/ WrapperMissing(dir)
      THEN Error
      ELSE [source   |-> source,
            filters  |-> FiltersFor(dir, inside, own),
            cached   |-> dir.cache # None,
            treat_as |-> dir.treat_as,
            below    |-> ContextBelow(dir, inside, own)]
=============================================================================
