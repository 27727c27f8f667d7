---------------------------- MODULE ConfigReader ----------------------------
(***************************************************************************)
(* Reading a config (tgmount/config/): what the properties of a directory, *)
(* the caches, the message sources and the client are read as, and what is *)
(* refused.                                                                *)
(*                                                                         *)
(* A YAML value is a tuple of its type and its data: a mapping is a        *)
(* function of its keys.  Reading yields a record, None for a property     *)
(* that is not there, or Error for the exception that is raised.           *)
(***************************************************************************)
EXTENDS Integers, Sequences, FiniteSets, Functions, SequencesExt

CONSTANTS
  None, Error,
  ByteCounts,   \* the strings like "1MB" and their numbers of bytes
  Dates         \* the strings in one of the DATE_FORMATS

Null   == <<"none">>
Str(s) == <<"string", s>>
Num(n) == <<"integer", n>>
Bool(b) == <<"boolean", b>>
Float(x) == <<"float", x>>
List(l) == <<"list", l>>
Map(f) == <<"mapping", f>>

Type(v) == v[1]
Data(v) == v[2]

\* The entry of a mapping: one that is missing reads like one that is null.
Get(d, key) == IF key \in DOMAIN d THEN d[key] ELSE Null

\* isinstance: a Python bool is an int.
IsInt(v) == Type(v) \in {"integer", "boolean"}

IntOf(v) == IF Type(v) = "integer" THEN Data(v) ELSE IF Data(v) THEN 1 ELSE 0

\* typeof_value asks for int before it asks for bool.
TypeOf(v) == IF IsInt(v) THEN "integer" ELSE Type(v)

AnyError(f) == \E k \in DOMAIN f : f[k] = Error

-----------------------------------------------------------------------------
(* The properties of a directory *)

\* boolean(key, optional=True): absent, null or a bool.
IsFlag(d, key) == Type(Get(d, key)) \in {"none", "boolean"}
Flag(d, key) == Get(d, key) = Bool(TRUE)

ReadSource(d) ==
  LET v == Get(d, "source")
  IN  CASE TypeOf(v) = "none" -> None
        [] TypeOf(v) = "string" -> [source |-> Data(v), recursive |-> FALSE]
        [] /\ TypeOf(v) = "mapping"
           /\ Type(Get(Data(v), "source")) = "string"
           /\ IsFlag(Data(v), "recursive")
           /\ DOMAIN Data(v) \subseteq {"source", "recursive"} ->
             [source    |-> Data(Get(Data(v), "source")),
              recursive |-> Flag(Data(v), "recursive")]
        [] OTHER -> Error

\* A name, or a mapping of a name to its argument (get_first_pair).
ReadNamed(v) ==
  CASE Type(v) = "string" -> <<Data(v), Null>>
    [] Type(v) = "mapping" /\ Cardinality(DOMAIN Data(v)) = 1 ->
         LET name == CHOOSE k \in DOMAIN Data(v) : TRUE
         IN  <<name, Data(v)[name]>>
    [] OTHER -> Error

\* parse_filter_value: one filter, or a list of filters.
ParseFilterValue(v) ==
  LET items == [k \in DOMAIN Data(v) |-> ReadNamed(Data(v)[k])]
  IN  CASE Type(v) \in {"string", "mapping"} ->
             IF ReadNamed(v) = Error THEN Error ELSE <<ReadNamed(v)>>
        [] Type(v) = "list" -> IF AnyError(items) THEN Error ELSE items
        [] OTHER -> Error

PropFilter(filter, recursive, overwright) ==
  IF filter = Error THEN Error
  ELSE [filter |-> filter, recursive |-> recursive, overwright |-> overwright]

\* A mapping with the key "filter" has the flags beside it, any other mapping
\* is a filter itself.
ReadFilter(d) ==
  LET v == Get(d, "filter")
      wrapped == TypeOf(v) = "mapping" /\ "filter" \in DOMAIN Data(v)
  IN  CASE TypeOf(v) = "none" -> None
        [] wrapped ->
             IF /\ IsFlag(Data(v), "recursive") /\ IsFlag(Data(v), "overwright")
                /\ DOMAIN Data(v) \subseteq {"filter", "recursive", "overwright"}
             THEN PropFilter(ParseFilterValue(Data(v)["filter"]),
                             Flag(Data(v), "recursive"), Flag(Data(v), "overwright"))
             ELSE Error
        [] ~wrapped /\ TypeOf(v) # "none" ->
             PropFilter(ParseFilterValue(v), FALSE, FALSE)

\* get_bytes_count
Bytes(v) ==
  CASE IsInt(v) -> IntOf(v)
    [] Type(v) = "string" /\ Data(v) \in DOMAIN ByteCounts -> ByteCounts[Data(v)]
    [] OTHER -> Error

DefaultBlockSize == 256 * 1024

\* read_cache: other keys are ignored.
ReadCache(d) ==
  LET size == Get(d, "block_size")
  IN  IF /\ Type(Get(d, "type")) = "string"
         /\ Bytes(Get(d, "capacity")) # Error
         /\ size # Null => Bytes(size) # Error
      THEN [type       |-> Data(Get(d, "type")),
            capacity   |-> Bytes(Get(d, "capacity")),
            block_size |-> IF size = Null THEN DefaultBlockSize ELSE Bytes(size)]
      ELSE Error

\* A string refers to a cache of the section "caches", a mapping makes one.
PropCache(kind, cache) ==
  IF cache = Error THEN Error ELSE [kind |-> kind, cache |-> cache]

ReadCacheProp(d) ==
  LET v == Get(d, "cache")
  IN  CASE TypeOf(v) = "none" -> None
        [] TypeOf(v) = "string" -> PropCache("reference", Data(v))
        [] TypeOf(v) = "mapping" -> PropCache("own", ReadCache(Data(v)))
        [] OTHER -> Error

\* read_producer_prop and read_wrappers_prop; a list is neither.
ReadNamedProp(d, key) ==
  IF Get(d, key) = Null THEN None ELSE ReadNamed(Get(d, key))

ReadTreatAs(d) ==
  LET v == Get(d, "treat_as")
  IN  CASE Type(v) = "none" -> <<>>
        [] Type(v) = "string" -> <<Data(v)>>
        [] Type(v) = "list" /\ (\A e \in Range(Data(v)) : Type(e) = "string") ->
             [k \in DOMAIN Data(v) |-> Data(Data(v)[k])]
        [] OTHER -> Error

DirPropsKeys == {"source", "filter", "cache", "wrappers", "producer", "treat_as"}

\* read_root: every key that is not a property is a subdirectory, and ctx.enter
\* refuses one that is not a mapping, an empty one too.
RECURSIVE ReadRoot(_)
ReadRoot(v) ==
  IF Type(v) # "mapping" THEN Error ELSE
  LET d     == Data(v)
      other == [k \in DOMAIN d \ DirPropsKeys |-> ReadRoot(d[k])]
      dir   == [source     |-> ReadSource(d),
                filter     |-> ReadFilter(d),
                cache      |-> ReadCacheProp(d),
                producer   |-> ReadNamedProp(d, "producer"),
                treat_as   |-> ReadTreatAs(d),
                wrapper    |-> ReadNamedProp(d, "wrappers"),
                other_keys |-> other]
  IN  IF AnyError(dir) \/ AnyError(other) THEN Error ELSE dir

-----------------------------------------------------------------------------
(* The other sections *)

\* The fields of MessageSource with the types type_check lets through.
MessageSourceTypes ==
  [entity |-> {"string", "integer"},     filter    |-> {"string", "none"},
   limit  |-> {"integer", "none"},       offset_id |-> {"integer"},
   min_id |-> {"integer"},               max_id    |-> {"integer"},
   wait_time |-> {"float", "none"},      reply_to  |-> {"integer", "none"},
   from_user |-> {"string", "integer", "none"},
   reverse   |-> {"boolean"},            updates   |-> {"boolean", "none"}]

MessageSourceFields == DOMAIN MessageSourceTypes \cup {"offset_date"}

\* load_class_from_mapping of MessageSource.  A field that is not there has its
\* default, which entity has not.
ReadMessageSource(v) ==
  LET d == Data(v)
      date == Get(d, "offset_date")
  IN  IF /\ Type(v) = "mapping"
         /\ DOMAIN d \subseteq MessageSourceFields
         /\ "entity" \in DOMAIN d
         /\ \A k \in DOMAIN d \ {"offset_date"} : Type(d[k]) \in MessageSourceTypes[k]
         /\ date # Null => Type(date) = "string" /\ Data(date) \in Dates
      THEN [entity  |-> Data(d["entity"]),
            filter  |-> IF Get(d, "filter") = Null THEN None ELSE Data(d["filter"]),
            updates |-> Get(d, "updates") # Bool(FALSE)]
      ELSE Error

\* A section, with what its entries are read as; each is entered, so that it
\* must be a mapping.
ReadSection(v, read) ==
  IF Type(v) # "mapping" \/ AnyError(read) THEN Error ELSE read

ReadMessageSources(v) ==
  ReadSection(v, [k \in DOMAIN Data(v) |-> ReadMessageSource(Data(v)[k])])

ReadCaches(v) ==
  ReadSection(v, [k \in DOMAIN Data(v) |->
    IF Type(Data(v)[k]) = "mapping" THEN ReadCache(Data(Data(v)[k])) ELSE Error])

ReadClient(v) ==
  IF Type(v) # "mapping" THEN Error ELSE
  LET d    == Data(v)
      size == Get(d, "request_size")
  IN  IF /\ Type(Get(d, "session")) = "string" /\ Type(Get(d, "api_hash")) = "string"
         /\ IsInt(Get(d, "api_id")) /\ IsFlag(d, "use_ipv6")
         /\ size # Null => Bytes(size) # Error
      THEN [request_size |-> IF size = Null THEN None ELSE Bytes(size)]
      ELSE Error

\* read_config: only "caches" can be left out, a null one is refused.
ReadConfig(d) ==
  LET config ==
        [client          |-> ReadClient(Get(d, "client")),
         message_sources |-> ReadMessageSources(Get(d, "message_sources")),
         caches          |-> IF "caches" \in DOMAIN d THEN ReadCaches(d["caches"]) ELSE <<>>,
         root            |-> ReadRoot(Get(d, "root"))]
  IN  IF AnyError(config) \/ Type(Get(d, "mount_dir")) \notin {"none", "string"}
      THEN Error ELSE config
=============================================================================
