-------------------------- MODULE FilterExpression --------------------------
(***************************************************************************)
(* How the Storage Node reads a filter expression: infix to postfix with a *)
(* stack of operators, postfix to an expression tree with a stack of       *)
(* trees.  An expression is given as the tree it is meant to be, written   *)
(* down with the parentheses it needs or with all of them.                 *)
(*                                                                         *)
(* Source: StorageNode/StorageNode.cpp, StorageNode.h (precedence).        *)
(***************************************************************************)
EXTENDS Naturals, Sequences

CONSTANTS
  Fields,     \* names of fields, quoted operands
  Quoted,     \* the other quoted operands
  Numbers,    \* operands that are numbers
  CompareOps, \* the comparison operators used
  Paired,     \* the comparisons that are joined by one connective
  Nested      \* the comparisons that are joined by up to three

VARIABLES
  meant,      \* the tree the expression stands for
  tokens,     \* the tokens not read yet
  operators,  \* the operator stack, top first
  postfix,    \* the postfix expression
  treePtrs    \* the stack of trees, top first

vars == <<meant, tokens, operators, postfix, treePtrs>>

-----------------------------------------------------------------------------
(* Trees <<root, left, right>>, with leaves <<operand>>, and their text.    *)

Operands == Fields \cup Quoted \cup Numbers

Connectives == {"&", "|"}

Comparisons == {<<op, <<a>>, <<b>>>> : op \in CompareOps, a \in Fields, b \in Quoted \cup Numbers}

ASSUME FilterAssumption ==
  /\ CompareOps \subseteq {"=", "<>", "<", "<=", ">", ">="}
  /\ (Fields \cup Quoted) \cap Numbers = {}
  /\ Paired \subseteq Comparisons /\ Nested \subseteq Comparisons

Nest(trees) == trees \cup {<<c, l, r>> : c \in Connectives, l \in trees, r \in trees}

\* The bound on the expressions: what they join and how deep.
Expressions == Comparisons \cup Nest(Paired) \cup Nest(Nest(Nested))

Parenthesised(text) == <<"(">> \o text \o <<")">>

Binds(root) == CASE root = "|" -> 1 [] root = "&" -> 2 [] OTHER -> 3

\* "&" binds tighter than "|", and equal connectives group to the left.
RECURSIVE Text(_, _)
Text(tree, full) ==
  IF Len(tree) = 1 THEN tree
  ELSE LET Part(t, weak) == IF Len(t) = 3 /\ (full \/ Binds(t[1]) < weak)
                            THEN Parenthesised(Text(t, full)) ELSE Text(t, full)
       IN Part(tree[2], Binds(tree[1])) \o <<tree[1]>> \o Part(tree[3], Binds(tree[1]) + 1)

Init ==
  /\ meant \in Expressions
  /\ \E full \in BOOLEAN : tokens = Text(meant, full)
  /\ operators = <<>> /\ postfix = <<>> /\ treePtrs = <<>>

-----------------------------------------------------------------------------
\* Mutant: the two connectives bind alike.
precedence_Flat(a, b) == a \notin Connectives /\ b \in Connectives

\* TRUE when a binds tighter than b; a pair that is not in the map is FALSE.
precedence(a, b) == \/ a \in CompareOps /\ b \in Connectives
                    \/ a = "&" /\ b = "|"

isOperand(token) == token \in Operands

\* How many operators are popped when op comes: up to a parenthesis or one
\* that op binds tighter than.
popCount(op) ==
  CHOOSE n \in 0..Len(operators) :
    /\ \A i \in 1..n : operators[i] # "(" /\ ~precedence(op, operators[i])
    /\ n < Len(operators) => operators[n + 1] = "(" \/ precedence(op, operators[n + 1])

readOperand ==
  /\ tokens # <<>> /\ isOperand(Head(tokens))
  /\ postfix' = Append(postfix, Head(tokens))
  /\ tokens' = Tail(tokens)
  /\ UNCHANGED <<meant, operators, treePtrs>>

readLeftParen ==
  /\ tokens # <<>> /\ Head(tokens) = "("
  /\ operators' = <<"(">> \o operators
  /\ tokens' = Tail(tokens)
  /\ UNCHANGED <<meant, postfix, treePtrs>>

readRightParen ==
  LET n == CHOOSE k \in 1..Len(operators) :
             operators[k] = "(" /\ \A i \in 1..k - 1 : operators[i] # "("
  IN /\ tokens # <<>> /\ Head(tokens) = ")"
     /\ postfix' = postfix \o SubSeq(operators, 1, n - 1)
     /\ operators' = SubSeq(operators, n + 1, Len(operators))
     /\ tokens' = Tail(tokens)
     /\ UNCHANGED <<meant, treePtrs>>

readOperator ==
  LET op == Head(tokens)
      n == popCount(op)
  IN /\ tokens # <<>> /\ op \in CompareOps \cup Connectives
     /\ postfix' = postfix \o SubSeq(operators, 1, n)
     /\ operators' = <<op>> \o SubSeq(operators, n + 1, Len(operators))
     /\ tokens' = Tail(tokens)
     /\ UNCHANGED <<meant, treePtrs>>

flushOperators ==
  /\ tokens = <<>> /\ operators # <<>>
  /\ postfix' = postfix \o operators
  /\ operators' = <<>>
  /\ UNCHANGED <<meant, tokens, treePtrs>>

Read == tokens = <<>> /\ operators = <<>>

\* What substr(1, n - 2) leaves of an operand: quotes go, and so do the
\* first and the last digit of a number.  Numbers have two digits at most.
Unquoted(operand) == IF operand \in Numbers THEN <<"">> ELSE <<operand>>

\* getExpressionTreeFrom, an operand ...
pushLeaf ==
  /\ Read /\ postfix # <<>> /\ isOperand(Head(postfix))
  /\ treePtrs' = <<Unquoted(Head(postfix))>> \o treePtrs
  /\ postfix' = Tail(postfix)
  /\ UNCHANGED <<meant, tokens, operators>>

\* ... and an operator, whose right operand is on top.
pushOperator ==
  /\ Read /\ postfix # <<>> /\ ~isOperand(Head(postfix))
  /\ treePtrs' = <<<<Head(postfix), treePtrs[2], treePtrs[1]>>>>
                   \o SubSeq(treePtrs, 3, Len(treePtrs))
  /\ postfix' = Tail(postfix)
  /\ UNCHANGED <<meant, tokens, operators>>

Built == Read /\ postfix = <<>>

Next == \/ readOperand \/ readLeftParen \/ readRightParen \/ readOperator
        \/ flushOperators \/ pushLeaf \/ pushOperator

Spec == Init /\ [][Next]_vars

-----------------------------------------------------------------------------
(* Properties.                                                              *)

\* A tree with its operands as they are kept: numbers without their digits.
RECURSIVE Kept(_)
Kept(tree) == IF Len(tree) = 1 THEN Unquoted(tree[1])
              ELSE <<tree[1], Kept(tree[2]), Kept(tree[3])>>

\* But for the numbers' digits, the tree the Storage Node evaluates is the one
\* the expression stands for, whichever of the redundant parentheses are
\* written: no operator is lost or moved by the precedences or by the order in
\* which the stacks are popped.
TreeIsMeant ==
  Built => treePtrs = <<Kept(meant)>>
=============================================================================
