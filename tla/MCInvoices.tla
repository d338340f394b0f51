----------------------------- MODULE MCInvoices -----------------------------
EXTENDS Invoices

\* A template that is due every day.
MCInterval == [t \in Templates |-> 1]
=============================================================================
