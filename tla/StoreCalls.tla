----------------------------- MODULE StoreCalls -----------------------------
(***************************************************************************)
(* The calls a handler makes, and a request as a sequence of them.         *)
(*                                                                         *)
(* A key of the store is a kind (the constant part of the key) and a path: *)
(* the group, then the names.  A prefix is written the same way; its last  *)
(* name is "" where the code ends the prefix with a colon.  All requests   *)
(* are about one subscription, which is left out.                          *)
(***************************************************************************)
EXTENDS Naturals, Sequences

Key(kind, path) == [kind |-> kind, path |-> path]

(* A call that does not do its work, because there is no record or because *)
(* there is one, either fails the request or, with skip > 0, leaves out    *)
(* the skip calls that follow it.                                          *)
Call(op, kind, path, skip) == [op |-> op, key |-> Key(kind, path), skip |-> skip]

(* Store.Exists, or Store.Get, with 404 when there is no record; Store.Get *)
(* that goes on with or without one, or without the next calls.            *)
Get(kind, path) == Call("get", kind, path, 0)
Look(kind, path) == Call("look", kind, path, 0)
GetOrSkip(kind, path, skip) == Call("get", kind, path, skip)
(* Whether the last Get or Look found a record; 409 if Exists finds one.   *)
SkipIfFound(skip) == Call("unlessFound", "", <<>>, skip)
Absent(kind, path) == Call("absent", kind, path, 0)
(* Store.Set of a new record, and of the record that Get returned.         *)
Set(kind, path) == Call("set", kind, path, 0)
SetSame(kind, path) == Call("setSame", kind, path, 0)
(* Store.Delete, with 404 when there was no record, or whatever there was. *)
Delete(kind, path) == Call("delete", kind, path, 0)
Drop(kind, path) == Call("drop", kind, path, 0)
DeleteByPrefix(kind, path) == Call("deleteByPrefix", kind, path, 0)
(* Store.ListByPrefix, and the list assigned to the record that Get        *)
(* returned; that record encoded as the answer.                            *)
ListByPrefix(kind, path) == Call("listByPrefix", kind, path, 0)
Assign == Call("assign", "", <<>>, 0)
(* The type of what Get returned asserted, v.(T): a panic, or items of     *)
(* another type left out of a list.                                        *)
Typed == Call("typed", "", <<>>, 0)
ListTyped(kind, path) == Call("listTyped", kind, path, 0)
Encode == Call("encode", "", <<>>, 0)
(* The address of the record found, or the next one.                       *)
Address == Call("address", "", <<>>, 0)
(* A database outside or the signature of the request may fail it.         *)
MayFail == Call("mayFail", "", <<>>, 0)
(* A path the router does not know: 404.                                   *)
NotRouted == Call("notRouted", "", <<>>, 0)

(* A request about a record.  When a call fails it the calls from cleanup  *)
(* on are made all the same; parts are the records it is to put beside     *)
(* its own.                                                                *)
Request(method, kind, path, calls) ==
    [method |-> method, target |-> Key(kind, path), calls |-> calls,
     cleanup |-> Len(calls) + 1, parts |-> {}]

(* Most resources: look, to choose between 200 and 201, and set; delete,   *)
(* with 404 when there was nothing; change the stored record in place and  *)
(* set it again.  A child asks for its parent, whose path starts its own.  *)
PutPlain(kind, path) ==
    Request("PUT", kind, path, <<Look(kind, path), Set(kind, path)>>)
PutChild(parent, parentPath, kind, names) ==
    LET path == parentPath \o names IN
    Request("PUT", kind, path, <<Get(parent, parentPath), Look(kind, path), Set(kind, path)>>)
PutBlind(kind, path) == Request("PUT", kind, path, <<Set(kind, path)>>)
DeletePlain(kind, path) == Request("DELETE", kind, path, <<Delete(kind, path)>>)
DeleteBlind(kind, path) == Request("DELETE", kind, path, <<Drop(kind, path)>>)
Patch(kind, path) == Request("PATCH", kind, path, <<Get(kind, path), SetSame(kind, path)>>)
=============================================================================
