--------------------------- MODULE SchemaCompiler ---------------------------
(***************************************************************************)
(* rdb-analyzer/src/schema/compile.rs: a parsed schema, with generic       *)
(* types, becomes a compiled one, in which every type that an export needs *)
(* is specialized.                                                         *)
(*                                                                         *)
(* A parsed schema is [types, exports], two sequences: a type is [name,    *)
(* generics, fields], a field [name, value, annotations], an export [name, *)
(* value], a type expression [id, args], an annotation [name, arg].  A     *)
(* compiled schema maps names of specialized types to their fields, a      *)
(* field being [ty, rename_from, primary], and exports to field types.     *)
(***************************************************************************)
EXTENDS Naturals, Sequences, FiniteSets, TLC

\* FieldType.  The name of a type is the type's name with its arguments.
Repr(id, args) == <<id, args>>
FieldType(kind, t) == [kind |-> kind, t |-> t]
Prim(name) == FieldType("prim", Repr(name, <<>>))
Table(name) == FieldType("table", name)
SetOf(name) == FieldType("set", name)  \* a member is always a table

PRIMITIVE_TYPES == {"int64", "double", "string", "bytes"}

\* TypeResolutionContext, with the first error.
Failed(ctx, why) == [ctx |-> [ctx EXCEPT !.err = why], ty |-> Prim("error")]
Resolved(ctx, ty) == [ctx |-> ctx, ty |-> ty]
Names(seq) == {seq[i].name : i \in DOMAIN seq}
Named(seq, name) == seq[CHOOSE i \in DOMAIN seq : seq[i].name = name]

Annotated(field, names) == \E i \in DOMAIN field.annotations : field.annotations[i].name \in names
RenameFrom(field) ==
  LET a == SelectSeq(field.annotations, LAMBDA x : x.name = "rename_from")
  IN [i \in DOMAIN a |-> a[i].arg]
Compiled(field, ty) ==
  [ty |-> ty, rename_from |-> RenameFrom(field), primary |-> Annotated(field, {"primary"})]

\* The rules on one field, and on all the fields of a type.
FieldError(fields, field, ty) ==
  IF field.name \in DOMAIN fields THEN "DuplicateField"
  ELSE IF \E i \in DOMAIN field.annotations :
            field.annotations[i].name \notin {"primary", "unique", "index", "rename_from"}
  THEN "UnknownAnnotationOnField"
  ELSE IF Annotated(field, {"primary", "unique", "index"}) /\ ty.kind # "prim"
  THEN "IndexOnNonPrimitiveField" ELSE ""
MultiplePrimaryKeys(fields) == Cardinality({f \in DOMAIN fields : fields[f].primary}) > 1

\* Mutant of SpecializedName: the arguments are no part of the name.
SpecializedNameBare(id, args) == Repr(id, <<>>)

SpecializedName(id, args) == Repr(id, args)

RECURSIVE resolve_type_expr(_, _, _), ResolveArgs(_, _, _), ResolveFields(_, _, _, _)

ResolveArgs(ctx, local_context, es) ==
  IF es = <<>> \/ ctx.err # "" THEN [ctx |-> ctx, tys |-> <<>>]
  ELSE LET h == resolve_type_expr(ctx, local_context, es[1])
           t == ResolveArgs(h.ctx, local_context, Tail(es))
       IN [ctx |-> t.ctx, tys |-> <<h.ty>> \o t.tys]

ResolveFields(ctx, local_context, decls, fields) ==
  IF decls = <<>> \/ ctx.err # "" THEN [ctx |-> ctx, fields |-> fields]
  ELSE LET h == resolve_type_expr(ctx, local_context, decls[1].value)
           err == FieldError(fields, decls[1], h.ty)
       IN ResolveFields(IF h.ctx.err = "" THEN [h.ctx EXCEPT !.err = err] ELSE h.ctx,
                        local_context, Tail(decls),
                        (decls[1].name :> Compiled(decls[1], h.ty)) @@ fields)

\* A type is entered with no fields before they are resolved, so that it may
\* occur in them.
resolve_type_expr(ctx, local_context, e) ==
  LET a == ResolveArgs(ctx, local_context, e.args)
      decl == Named(ctx.unresolved, e.id)
      repr == SpecializedName(e.id, a.tys)
      inner == [x \in {decl.generics[i] : i \in DOMAIN decl.generics} |->
                  a.tys[CHOOSE i \in DOMAIN decl.generics : decl.generics[i] = x]]
      f == ResolveFields([a.ctx EXCEPT !.resolved = (repr :> <<>>) @@ @], inner, decl.fields, <<>>)
  IN CASE a.ctx.err # "" -> Failed(a.ctx, a.ctx.err)
       [] e.id \in DOMAIN local_context ->
            IF a.tys # <<>> THEN Failed(a.ctx, "CannotSpecializeTypeParameter")
            ELSE Resolved(a.ctx, local_context[e.id])
       [] e.id \in PRIMITIVE_TYPES ->
            IF a.tys # <<>> THEN Failed(a.ctx, "CannotSpecializePrimitiveType")
            ELSE Resolved(a.ctx, Prim(e.id))
       [] e.id = "set" ->
            IF Len(a.tys) # 1 \/ \E i \in DOMAIN a.tys : a.tys[i].kind # "table"
            THEN Failed(a.ctx, "BadSetTypeParameter")
            ELSE Resolved(a.ctx, SetOf(a.tys[1].t))
       [] e.id \notin Names(ctx.unresolved) -> Failed(a.ctx, "MissingType")
       [] Len(decl.generics) # Len(a.tys) -> Failed(a.ctx, "ArgCountMismatch")
       [] repr \in DOMAIN a.ctx.resolved -> Resolved(a.ctx, Table(repr))
       [] OTHER -> IF f.ctx.err # "" THEN Failed(f.ctx, f.ctx.err)
                   ELSE IF MultiplePrimaryKeys(f.fields) THEN Failed(f.ctx, "MultiplePrimaryKeys")
                   ELSE Resolved([f.ctx EXCEPT !.resolved[repr] = f.fields], Table(repr))

RECURSIVE ResolveExports(_, _, _)
ResolveExports(ctx, decls, exports) ==
  IF decls = <<>> \/ ctx.err # "" THEN [types |-> ctx.resolved, exports |-> exports, err |-> ctx.err]
  ELSE IF decls[1].name \in DOMAIN exports
  THEN ResolveExports([ctx EXCEPT !.err = "DuplicateExport"], decls, exports)
  ELSE LET h == resolve_type_expr(ctx, <<>>, decls[1].value)
       IN ResolveExports(h.ctx, Tail(decls), (decls[1].name :> h.ty) @@ exports)

\* compile.  That type names begin with a capital letter is a matter of spelling.
compile(ast) ==
  ResolveExports([unresolved |-> ast.types, resolved |-> <<>>,
                  err |-> IF Cardinality(Names(ast.types)) < Len(ast.types)
                          THEN "DuplicateType" ELSE ""],
                 ast.exports, <<>>)

-----------------------------------------------------------------------------
(* What the declarations say, by substitution.                             *)

RECURSIVE Substituted(_, _)
Substituted(e, env) ==
  IF e.id \in DOMAIN env THEN env[e.id]
  ELSE IF e.id \in PRIMITIVE_TYPES THEN Prim(e.id)
  ELSE LET args == [i \in DOMAIN e.args |-> Substituted(e.args[i], env)]
       IN IF e.id = "set" THEN SetOf(args[1].t) ELSE Table(Repr(e.id, args))

\* The fields of a specialized type.
DeclaredFields(ast, name) ==
  LET decl == Named(ast.types, name[1])
      env == [x \in {decl.generics[i] : i \in DOMAIN decl.generics} |->
                name[2][CHOOSE i \in DOMAIN decl.generics : decl.generics[i] = x]]
  IN [f \in Names(decl.fields) |->
        Compiled(Named(decl.fields, f), Substituted(Named(decl.fields, f).value, env))]

\* The compiled schema has the types that can be reached from the exports,
\* through fields or as arguments, with the fields that their declarations give
\* them, and no others.
IsDeclaredBy(schema, ast) ==
  LET named(tys) == {ty.t : ty \in {x \in tys : x.kind # "prim"}}
      fieldtypes(t) == {schema.types[t][f].ty : f \in DOMAIN schema.types[t]}
      arguments(t) == {t[2][i] : i \in DOMAIN t[2]}
  IN /\ DOMAIN schema.exports = Names(ast.exports)
     /\ \A x \in DOMAIN schema.exports :
          schema.exports[x] = Substituted(Named(ast.exports, x).value, <<>>)
     /\ \A t \in DOMAIN schema.types : schema.types[t] = DeclaredFields(ast, t)
     /\ DOMAIN schema.types =
          named({schema.exports[x] : x \in DOMAIN schema.exports})
          \cup UNION {named(fieldtypes(t) \cup arguments(t)) : t \in DOMAIN schema.types}
=============================================================================
