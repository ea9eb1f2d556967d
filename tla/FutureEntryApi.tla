--------------------------- MODULE FutureEntryApi ---------------------------
(***************************************************************************)
(* The methods of future::Cache and of its entry selectors that get a      *)
(* value or else compute it (future/cache.rs, future/entry_selector.rs),   *)
(* by the arguments with which they reach the value initializer:           *)
(*                                                                         *)
(*   fun         the function of the initializer, or "insert" for none     *)
(*   type        the TypeId that is part of the waiter's key               *)
(*   err         the type to which an error is cast back                   *)
(*   outs        what the caller's closure may return                      *)
(*   replace_if  whether a closure may ask to ignore the cached value      *)
(*   lookup      whether the cache is looked up first                      *)
(*   get_key     whether that lookup returns an Entry with its key         *)
(*   need_key    whether the other results are Entries with their key      *)
(*   allow_nop   whether Op::Nop may return the value that was there       *)
(***************************************************************************)

(* Types of errors.  "unit" is the type `()`, which a caller may use too.  *)
UnitType == "unit"
OptionallyNone == "OptionallyNone"
ComputeNone == "ComputeNone"

type_id_for_get_with == UnitType
type_id_for_optionally_get_with == OptionallyNone
type_id_for_try_get_with(E) == E

Api(fun, type, err, outs, need_key) ==
    [fun |-> fun, type |-> type, err |-> err, outs |-> outs, replace_if |-> FALSE,
     lookup |-> FALSE, get_key |-> need_key, need_key |-> need_key, allow_nop |-> FALSE]

(* A lookup before anything else, that returns on a hit.                   *)
LookupFirst(api, key) == [api EXCEPT !.lookup = TRUE, !.get_key = key]

insert_with_hash_and_fun(replace_if, need_key) ==
    [Api("init", type_id_for_get_with, UnitType, {"Ok"}, need_key) EXCEPT !.replace_if = replace_if]

get_or_insert_with_hash_and_fun(replace_if, need_key) ==
    LookupFirst(insert_with_hash_and_fun(replace_if, need_key), need_key)

get_or_insert_with_hash_by_ref_and_fun(replace_if, need_key) ==
    LookupFirst(insert_with_hash_and_fun(replace_if, need_key), need_key)

(* Looks up, then evaluates and inserts without a waiter.                  *)
get_or_insert_with_hash ==
    LookupFirst(Api("insert", UnitType, UnitType, {"Ok"}, TRUE), TRUE)

get_or_insert_with_hash_by_ref ==
    LookupFirst(Api("insert", UnitType, UnitType, {"Ok"}, TRUE), TRUE)

(* Err stands for the closure's None.                                      *)
optionally_insert_with_hash_and_fun(need_key) ==
    Api("init", type_id_for_optionally_get_with, OptionallyNone, {"Ok", "Err"}, need_key)

get_or_optionally_insert_with_hash_and_fun(need_key) ==
    LookupFirst(optionally_insert_with_hash_and_fun(need_key), need_key)

get_or_optionally_insert_with_hash_by_ref_and_fun(need_key) ==
    LookupFirst(optionally_insert_with_hash_and_fun(need_key), need_key)

try_insert_with_hash_and_fun(E, need_key) ==
    Api("init", type_id_for_try_get_with(E), E, {"Ok", "Err"}, need_key)

get_or_try_insert_with_hash_and_fun(E, need_key) ==
    LookupFirst(try_insert_with_hash_and_fun(E, need_key), need_key)

get_or_try_insert_with_hash_by_ref_and_fun(E, need_key) ==
    LookupFirst(try_insert_with_hash_and_fun(E, need_key), need_key)

ComputeApi(outs, allow_nop) ==
    [Api("compute", ComputeNone, ComputeNone, outs, TRUE) EXCEPT !.allow_nop = allow_nop]

compute_with_hash_and_fun == ComputeApi({"Nop", "Put", "Remove"}, TRUE)

try_compute_with_hash_and_fun == ComputeApi({"Nop", "Put", "Remove", "Err"}, TRUE)

(* Gives up when another compute call of the key is in progress.           *)
try_compute_if_nobody_else_with_hash_and_fun ==
    [try_compute_with_hash_and_fun EXCEPT !.fun = "compute_if_nobody_else"]

upsert_with_hash_and_fun == ComputeApi({"Put"}, FALSE)

-----------------------------------------------------------------------------
(* Methods of Cache.                                                       *)
get_with == get_or_insert_with_hash_and_fun(FALSE, FALSE)
get_with_by_ref == get_or_insert_with_hash_by_ref_and_fun(FALSE, FALSE)
get_with_if == get_or_insert_with_hash_and_fun(TRUE, FALSE)
optionally_get_with == get_or_optionally_insert_with_hash_and_fun(FALSE)
optionally_get_with_by_ref == get_or_optionally_insert_with_hash_by_ref_and_fun(FALSE)
try_get_with(E) == get_or_try_insert_with_hash_and_fun(E, FALSE)
try_get_with_by_ref(E) == get_or_try_insert_with_hash_by_ref_and_fun(E, FALSE)

(* Methods of OwnedKeyEntrySelector.                                       *)
and_compute_with == compute_with_hash_and_fun
and_try_compute_with == try_compute_with_hash_and_fun
and_try_compute_if_nobody_else == try_compute_if_nobody_else_with_hash_and_fun
and_upsert_with == upsert_with_hash_and_fun
or_default == get_or_insert_with_hash
or_insert == get_or_insert_with_hash
or_insert_with == get_or_insert_with_hash_and_fun(FALSE, TRUE)
or_insert_with_if == get_or_insert_with_hash_and_fun(TRUE, TRUE)
or_optionally_insert_with == get_or_optionally_insert_with_hash_and_fun(TRUE)
or_try_insert_with(E) == get_or_try_insert_with_hash_and_fun(E, TRUE)

(* Methods of RefKeyEntrySelector.                                         *)
and_compute_with_by_ref == compute_with_hash_and_fun
and_try_compute_with_by_ref == try_compute_with_hash_and_fun
and_try_compute_if_nobody_else_by_ref == try_compute_if_nobody_else_with_hash_and_fun
and_upsert_with_by_ref == upsert_with_hash_and_fun
or_default_by_ref == get_or_insert_with_hash_by_ref
or_insert_by_ref == get_or_insert_with_hash_by_ref
or_insert_with_by_ref == get_or_insert_with_hash_by_ref_and_fun(FALSE, TRUE)
or_insert_with_if_by_ref == get_or_insert_with_hash_by_ref_and_fun(TRUE, TRUE)
or_optionally_insert_with_by_ref == get_or_optionally_insert_with_hash_by_ref_and_fun(TRUE)
or_try_insert_with_by_ref(E) == get_or_try_insert_with_hash_by_ref_and_fun(E, TRUE)

(* The methods of the entry selectors, for errors of types Es.             *)
SelectorApis(Es) ==
    {or_default, or_insert, or_insert_with, or_insert_with_if, or_optionally_insert_with,
     or_default_by_ref, or_insert_by_ref, or_insert_with_by_ref, or_insert_with_if_by_ref,
     or_optionally_insert_with_by_ref, and_compute_with, and_try_compute_with,
     and_try_compute_if_nobody_else, and_try_compute_if_nobody_else_by_ref,
     and_upsert_with, and_compute_with_by_ref, and_try_compute_with_by_ref,
     and_upsert_with_by_ref}
    \cup {or_try_insert_with(E) : E \in Es}
    \cup {or_try_insert_with_by_ref(E) : E \in Es}
=============================================================================
