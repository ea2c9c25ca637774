------------------------------- MODULE MCAudit --------------------------------
EXTENDS AuditProperties
=============================================================================
