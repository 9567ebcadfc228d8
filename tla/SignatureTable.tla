---------------------------- MODULE SignatureTable ----------------------------
(***************************************************************************)
(* SignatureRegistrations(): the table that the generator wrote and that   *)
(* normal builds compile.  A registration is its name, the function of its *)
(* decltype and the spellings of that function's argument types, in order; *)
(* the names of the arguments are left out.  The factory of every row      *)
(* gives its signature the name of the row.                                *)
(***************************************************************************)
EXTENDS Sequences

FromNtAcceptConnectPort == <<
  <<"NtAcceptConnectPort", "NtAcceptConnectPort", <<"PHANDLE", "PVOID", "PPORT_MESSAGE", "BOOLEAN", "PPORT_VIEW",
    "PREMOTE_PORT_VIEW">>>>,
  <<"NtAccessCheck", "NtAccessCheck", <<"PSECURITY_DESCRIPTOR", "HANDLE", "ACCESS_MASK", "PGENERIC_MAPPING",
    "PPRIVILEGE_SET", "PULONG", "PACCESS_MASK", "PNTSTATUS">>>>,
  <<"NtAccessCheckAndAuditAlarm", "NtAccessCheckAndAuditAlarm", <<"PCUNICODE_STRING", "PVOID", "PCUNICODE_STRING",
    "PCUNICODE_STRING", "PSECURITY_DESCRIPTOR", "ACCESS_MASK", "PGENERIC_MAPPING", "BOOLEAN", "PACCESS_MASK",
    "PNTSTATUS", "PBOOLEAN">>>>,
  <<"NtAccessCheckByType", "NtAccessCheckByType", <<"PSECURITY_DESCRIPTOR", "PSID", "HANDLE", "ACCESS_MASK",
    "POBJECT_TYPE_LIST", "ULONG", "PGENERIC_MAPPING", "PPRIVILEGE_SET", "PULONG", "PACCESS_MASK", "PNTSTATUS">>>>>>

FromNtAccessCheckByTypeAndAuditAlarm == <<
  <<"NtAccessCheckByTypeAndAuditAlarm", "NtAccessCheckByTypeAndAuditAlarm", <<"PCUNICODE_STRING", "PVOID",
    "PCUNICODE_STRING", "PCUNICODE_STRING", "PSECURITY_DESCRIPTOR", "PSID", "ACCESS_MASK", "AUDIT_EVENT_TYPE",
    "ULONG", "POBJECT_TYPE_LIST", "ULONG", "PGENERIC_MAPPING", "BOOLEAN", "PACCESS_MASK", "PNTSTATUS", "PBOOLEAN">>>>,
  <<"NtAccessCheckByTypeResultList", "NtAccessCheckByTypeResultList", <<"PSECURITY_DESCRIPTOR", "PSID", "HANDLE",
    "ACCESS_MASK", "POBJECT_TYPE_LIST", "ULONG", "PGENERIC_MAPPING", "PPRIVILEGE_SET", "PULONG", "PACCESS_MASK",
    "PNTSTATUS">>>>,
  <<"NtAccessCheckByTypeResultListAndAuditAlarm", "NtAccessCheckByTypeResultListAndAuditAlarm", <<"PCUNICODE_STRING",
    "PVOID", "PCUNICODE_STRING", "PCUNICODE_STRING", "PSECURITY_DESCRIPTOR", "PSID", "ACCESS_MASK",
    "AUDIT_EVENT_TYPE", "ULONG", "POBJECT_TYPE_LIST", "ULONG", "PGENERIC_MAPPING", "BOOLEAN", "PACCESS_MASK",
    "PNTSTATUS", "PBOOLEAN">>>>>>

FromNtAccessCheckByTypeResultListAndAuditAlarmByHandle == <<
  <<"NtAccessCheckByTypeResultListAndAuditAlarmByHandle", "NtAccessCheckByTypeResultListAndAuditAlarmByHandle",
    <<"PCUNICODE_STRING", "PVOID", "HANDLE", "PCUNICODE_STRING", "PCUNICODE_STRING", "PSECURITY_DESCRIPTOR", "PSID",
    "ACCESS_MASK", "AUDIT_EVENT_TYPE", "ULONG", "POBJECT_TYPE_LIST", "ULONG", "PGENERIC_MAPPING", "BOOLEAN",
    "PACCESS_MASK", "PNTSTATUS", "PBOOLEAN">>>>,
  <<"NtAcquireCrossVmMutant", "NtAcquireCrossVmMutant", <<"HANDLE", "PLARGE_INTEGER">>>>,
  <<"NtAcquireProcessActivityReference", "NtAcquireProcessActivityReference", <<"PHANDLE", "HANDLE", "ULONG">>>>,
  <<"NtAddAtom", "NtAddAtom", <<"PCWSTR", "ULONG", "PRTL_ATOM">>>>,
  <<"NtAddAtomEx", "NtAddAtomEx", <<"PCWSTR", "ULONG", "PRTL_ATOM", "ULONG">>>>,
  <<"NtAddBootEntry", "NtAddBootEntry", <<"PBOOT_ENTRY", "PULONG">>>>>>

FromNtAddDriverEntry == <<
  <<"NtAddDriverEntry", "NtAddDriverEntry", <<"PEFI_DRIVER_ENTRY", "PULONG">>>>,
  <<"NtAdjustGroupsToken", "NtAdjustGroupsToken", <<"HANDLE", "BOOLEAN", "PTOKEN_GROUPS", "ULONG", "PTOKEN_GROUPS",
    "PULONG">>>>,
  <<"NtAdjustPrivilegesToken", "NtAdjustPrivilegesToken", <<"HANDLE", "BOOLEAN", "PTOKEN_PRIVILEGES", "ULONG",
    "PTOKEN_PRIVILEGES", "PULONG">>>>,
  <<"NtAdjustTokenClaimsAndDeviceGroups", "NtAdjustTokenClaimsAndDeviceGroups", <<"HANDLE", "BOOLEAN", "BOOLEAN",
    "BOOLEAN", "PTOKEN_SECURITY_ATTRIBUTES_INFORMATION", "PTOKEN_SECURITY_ATTRIBUTES_INFORMATION", "PTOKEN_GROUPS",
    "ULONG", "PTOKEN_SECURITY_ATTRIBUTES_INFORMATION", "ULONG", "PTOKEN_SECURITY_ATTRIBUTES_INFORMATION", "ULONG",
    "PTOKEN_GROUPS", "PULONG", "PULONG", "PULONG">>>>,
  <<"NtAlertMultipleThreadByThreadId", "NtAlertMultipleThreadByThreadId", <<"PHANDLE", "ULONG",
    "PPS_ALERT_THREAD_EXTENDED_PARAMETER", "ULONG">>>>,
  <<"NtAlertResumeThread", "NtAlertResumeThread", <<"HANDLE", "PULONG">>>>>>

FromNtAlertThread == <<
  <<"NtAlertThread", "NtAlertThread", <<"HANDLE">>>>,
  <<"NtAlertThreadByThreadId", "NtAlertThreadByThreadId", <<"HANDLE">>>>,
  <<"NtAlertThreadByThreadIdEx", "NtAlertThreadByThreadIdEx", <<"HANDLE", "PRTL_SRWLOCK">>>>,
  <<"NtAllocateLocallyUniqueId", "NtAllocateLocallyUniqueId", <<"PLUID">>>>,
  <<"NtAllocateReserveObject", "NtAllocateReserveObject", <<"PHANDLE", "PCOBJECT_ATTRIBUTES",
    "MEMORY_RESERVE_TYPE">>>>,
  <<"NtAllocateUserPhysicalPages", "NtAllocateUserPhysicalPages", <<"HANDLE", "PSIZE_T", "PULONG_PTR">>>>,
  <<"NtAllocateUserPhysicalPagesEx", "NtAllocateUserPhysicalPagesEx", <<"HANDLE", "PULONG_PTR", "PULONG_PTR",
    "PMEM_EXTENDED_PARAMETER", "ULONG">>>>,
  <<"NtAllocateUuids", "NtAllocateUuids", <<"PULARGE_INTEGER", "PULONG", "PULONG", "PCHAR">>>>>>

FromNtAllocateVirtualMemory == <<
  <<"NtAllocateVirtualMemory", "NtAllocateVirtualMemory", <<"HANDLE", "PVOID*", "ULONG_PTR", "PSIZE_T", "ULONG",
    "ULONG">>>>,
  <<"NtAllocateVirtualMemoryEx", "NtAllocateVirtualMemoryEx", <<"HANDLE", "PVOID*", "PSIZE_T", "ULONG", "ULONG",
    "PMEM_EXTENDED_PARAMETER", "ULONG">>>>,
  <<"NtAlpcAcceptConnectPort", "NtAlpcAcceptConnectPort", <<"PHANDLE", "HANDLE", "ULONG", "POBJECT_ATTRIBUTES",
    "PALPC_PORT_ATTRIBUTES", "PVOID", "PPORT_MESSAGE", "PALPC_MESSAGE_ATTRIBUTES", "BOOLEAN">>>>,
  <<"NtAlpcCancelMessage", "NtAlpcCancelMessage", <<"HANDLE", "ULONG", "PALPC_CONTEXT_ATTR">>>>,
  <<"NtAlpcConnectPort", "NtAlpcConnectPort", <<"PHANDLE", "PCUNICODE_STRING", "POBJECT_ATTRIBUTES",
    "PALPC_PORT_ATTRIBUTES", "ULONG", "PSID", "PPORT_MESSAGE", "PSIZE_T", "PALPC_MESSAGE_ATTRIBUTES",
    "PALPC_MESSAGE_ATTRIBUTES", "PLARGE_INTEGER">>>>>>

FromNtAlpcConnectPortEx == <<
  <<"NtAlpcConnectPortEx", "NtAlpcConnectPortEx", <<"PHANDLE", "POBJECT_ATTRIBUTES", "POBJECT_ATTRIBUTES",
    "PALPC_PORT_ATTRIBUTES", "ULONG", "PSECURITY_DESCRIPTOR", "PPORT_MESSAGE", "PSIZE_T", "PALPC_MESSAGE_ATTRIBUTES",
    "PALPC_MESSAGE_ATTRIBUTES", "PLARGE_INTEGER">>>>,
  <<"NtAlpcCreatePort", "NtAlpcCreatePort", <<"PHANDLE", "POBJECT_ATTRIBUTES", "PALPC_PORT_ATTRIBUTES">>>>,
  <<"NtAlpcCreatePortSection", "NtAlpcCreatePortSection", <<"HANDLE", "ULONG", "HANDLE", "SIZE_T", "PALPC_HANDLE",
    "PSIZE_T">>>>,
  <<"NtAlpcCreateResourceReserve", "NtAlpcCreateResourceReserve", <<"HANDLE", "ULONG", "SIZE_T", "PULONG">>>>,
  <<"NtAlpcCreateSectionView", "NtAlpcCreateSectionView", <<"HANDLE", "ULONG", "PALPC_DATA_VIEW_ATTR">>>>,
  <<"NtAlpcCreateSecurityContext", "NtAlpcCreateSecurityContext", <<"HANDLE", "ULONG", "PALPC_SECURITY_ATTR">>>>>>

FromNtAlpcDeletePortSection == <<
  <<"NtAlpcDeletePortSection", "NtAlpcDeletePortSection", <<"HANDLE", "ULONG", "ALPC_HANDLE">>>>,
  <<"NtAlpcDeleteResourceReserve", "NtAlpcDeleteResourceReserve", <<"HANDLE", "ULONG", "ULONG">>>>,
  <<"NtAlpcDeleteSectionView", "NtAlpcDeleteSectionView", <<"HANDLE", "ULONG", "PVOID">>>>,
  <<"NtAlpcDeleteSecurityContext", "NtAlpcDeleteSecurityContext", <<"HANDLE", "ULONG", "ALPC_HANDLE">>>>,
  <<"NtAlpcDisconnectPort", "NtAlpcDisconnectPort", <<"HANDLE", "ULONG">>>>,
  <<"NtAlpcImpersonateClientContainerOfPort", "NtAlpcImpersonateClientContainerOfPort", <<"HANDLE", "PPORT_MESSAGE",
    "ULONG">>>>,
  <<"NtAlpcImpersonateClientOfPort", "NtAlpcImpersonateClientOfPort", <<"HANDLE", "PPORT_MESSAGE", "PVOID">>>>>>

FromNtAlpcOpenSenderProcess == <<
  <<"NtAlpcOpenSenderProcess", "NtAlpcOpenSenderProcess", <<"PHANDLE", "HANDLE", "PPORT_MESSAGE", "ULONG",
    "ACCESS_MASK", "POBJECT_ATTRIBUTES">>>>,
  <<"NtAlpcOpenSenderThread", "NtAlpcOpenSenderThread", <<"PHANDLE", "HANDLE", "PPORT_MESSAGE", "ULONG",
    "ACCESS_MASK", "POBJECT_ATTRIBUTES">>>>,
  <<"NtAlpcQueryInformation", "NtAlpcQueryInformation", <<"HANDLE", "ALPC_PORT_INFORMATION_CLASS", "PVOID", "ULONG",
    "PULONG">>>>,
  <<"NtAlpcQueryInformationMessage", "NtAlpcQueryInformationMessage", <<"HANDLE", "PPORT_MESSAGE",
    "ALPC_MESSAGE_INFORMATION_CLASS", "PVOID", "ULONG", "PULONG">>>>,
  <<"NtAlpcRevokeSecurityContext", "NtAlpcRevokeSecurityContext", <<"HANDLE", "ULONG", "ALPC_HANDLE">>>>,
  <<"NtAlpcSendWaitReceivePort", "NtAlpcSendWaitReceivePort", <<"HANDLE", "ULONG", "PPORT_MESSAGE",
    "PALPC_MESSAGE_ATTRIBUTES", "PPORT_MESSAGE", "PSIZE_T", "PALPC_MESSAGE_ATTRIBUTES", "PLARGE_INTEGER">>>>>>

FromNtAlpcSetInformation == <<
  <<"NtAlpcSetInformation", "NtAlpcSetInformation", <<"HANDLE", "ALPC_PORT_INFORMATION_CLASS", "PVOID", "ULONG">>>>,
  <<"NtApphelpCacheControl", "NtApphelpCacheControl", <<"AHC_SERVICE_CLASS", "PVOID">>>>,
  <<"NtAreMappedFilesTheSame", "NtAreMappedFilesTheSame", <<"PVOID", "PVOID">>>>,
  <<"NtAssignProcessToJobObject", "NtAssignProcessToJobObject", <<"HANDLE", "HANDLE">>>>,
  <<"NtAssociateWaitCompletionPacket", "NtAssociateWaitCompletionPacket", <<"HANDLE", "HANDLE", "HANDLE", "PVOID",
    "PVOID", "NTSTATUS", "ULONG_PTR", "PBOOLEAN">>>>,
  <<"NtCallEnclave", "NtCallEnclave", <<"PENCLAVE_ROUTINE", "PVOID", "ULONG", "PVOID*">>>>,
  <<"NtCallbackReturn", "NtCallbackReturn", <<"PVOID", "ULONG", "NTSTATUS">>>>>>

FromNtCancelIoFile == <<
  <<"NtCancelIoFile", "NtCancelIoFile", <<"HANDLE", "PIO_STATUS_BLOCK">>>>,
  <<"NtCancelIoFileEx", "NtCancelIoFileEx", <<"HANDLE", "PIO_STATUS_BLOCK", "PIO_STATUS_BLOCK">>>>,
  <<"NtCancelSynchronousIoFile", "NtCancelSynchronousIoFile", <<"HANDLE", "PIO_STATUS_BLOCK", "PIO_STATUS_BLOCK">>>>,
  <<"NtCancelTimer", "NtCancelTimer", <<"HANDLE", "PBOOLEAN">>>>,
  <<"NtCancelTimer2", "NtCancelTimer2", <<"HANDLE", "PT2_CANCEL_PARAMETERS">>>>,
  <<"NtCancelWaitCompletionPacket", "NtCancelWaitCompletionPacket", <<"HANDLE", "BOOLEAN">>>>,
  <<"NtChangeProcessState", "NtChangeProcessState", <<"HANDLE", "HANDLE", "PROCESS_STATE_CHANGE_TYPE", "PVOID",
    "SIZE_T", "ULONG">>>>>>

FromNtChangeThreadState == <<
  <<"NtChangeThreadState", "NtChangeThreadState", <<"HANDLE", "HANDLE", "THREAD_STATE_CHANGE_TYPE", "PVOID", "SIZE_T",
    "ULONG">>>>,
  <<"NtClearEvent", "NtClearEvent", <<"HANDLE">>>>,
  <<"NtClose", "NtClose", <<"HANDLE">>>>,
  <<"NtCloseObjectAuditAlarm", "NtCloseObjectAuditAlarm", <<"PCUNICODE_STRING", "PVOID", "BOOLEAN">>>>,
  <<"NtCommitComplete", "NtCommitComplete", <<"HANDLE", "PLARGE_INTEGER">>>>,
  <<"NtCommitEnlistment", "NtCommitEnlistment", <<"HANDLE", "PLARGE_INTEGER">>>>,
  <<"NtCommitRegistryTransaction", "NtCommitRegistryTransaction", <<"HANDLE", "ULONG">>>>,
  <<"NtCommitTransaction", "NtCommitTransaction", <<"HANDLE", "BOOLEAN">>>>>>

FromNtCompactKeys == <<
  <<"NtCompactKeys", "NtCompactKeys", <<"ULONG", "HANDLE">>>>,
  <<"NtCompareObjects", "NtCompareObjects", <<"HANDLE", "HANDLE">>>>,
  <<"NtCompareSigningLevels", "NtCompareSigningLevels", <<"SE_SIGNING_LEVEL", "SE_SIGNING_LEVEL">>>>,
  <<"NtCompareTokens", "NtCompareTokens", <<"HANDLE", "HANDLE", "PBOOLEAN">>>>,
  <<"NtCompleteConnectPort", "NtCompleteConnectPort", <<"HANDLE">>>>,
  <<"NtCompressKey", "NtCompressKey", <<"HANDLE">>>>,
  <<"NtConnectPort", "NtConnectPort", <<"PHANDLE", "PCUNICODE_STRING", "PSECURITY_QUALITY_OF_SERVICE", "PPORT_VIEW",
    "PREMOTE_PORT_VIEW", "PULONG", "PVOID", "PULONG">>>>,
  <<"NtContinue", "NtContinue", <<"PCONTEXT", "BOOLEAN">>>>>>

FromNtContinueEx == <<
  <<"NtContinueEx", "NtContinueEx", <<"PCONTEXT", "PVOID">>>>,
  <<"NtConvertBetweenAuxiliaryCounterAndPerformanceCounter", "NtConvertBetweenAuxiliaryCounterAndPerformanceCounter",
    <<"BOOLEAN", "PULONG64", "PULONG64", "PULONG64">>>>,
  <<"NtCopyFileChunk", "NtCopyFileChunk", <<"HANDLE", "HANDLE", "HANDLE", "PIO_STATUS_BLOCK", "ULONG",
    "PLARGE_INTEGER", "PLARGE_INTEGER", "PULONG", "PULONG", "ULONG">>>>,
  <<"NtCreateCpuPartition", "NtCreateCpuPartition", <<"PHANDLE", "ACCESS_MASK", "POBJECT_ATTRIBUTES">>>>,
  <<"NtCreateCrossVmEvent", "NtCreateCrossVmEvent", <<"PHANDLE", "ACCESS_MASK", "POBJECT_ATTRIBUTES", "ULONG",
    "LPCGUID", "LPCGUID">>>>,
  <<"NtCreateCrossVmMutant", "NtCreateCrossVmMutant", <<"PHANDLE", "ACCESS_MASK", "POBJECT_ATTRIBUTES", "ULONG",
    "LPCGUID", "LPCGUID">>>>>>

FromNtCreateDebugObject == <<
  <<"NtCreateDebugObject", "NtCreateDebugObject", <<"PHANDLE", "ACCESS_MASK", "POBJECT_ATTRIBUTES", "ULONG">>>>,
  <<"NtCreateDirectoryObject", "NtCreateDirectoryObject", <<"PHANDLE", "ACCESS_MASK", "POBJECT_ATTRIBUTES">>>>,
  <<"NtCreateDirectoryObjectEx", "NtCreateDirectoryObjectEx", <<"PHANDLE", "ACCESS_MASK", "POBJECT_ATTRIBUTES",
    "HANDLE", "ULONG">>>>,
  <<"NtCreateEnclave", "NtCreateEnclave", <<"HANDLE", "PVOID*", "ULONG_PTR", "SIZE_T", "SIZE_T", "ULONG", "PVOID",
    "ULONG", "PULONG">>>>,
  <<"NtCreateEnlistment", "NtCreateEnlistment", <<"PHANDLE", "ACCESS_MASK", "HANDLE", "HANDLE", "POBJECT_ATTRIBUTES",
    "ULONG", "NOTIFICATION_MASK", "PVOID">>>>,
  <<"NtCreateEvent", "NtCreateEvent", <<"PHANDLE", "ACCESS_MASK", "POBJECT_ATTRIBUTES", "EVENT_TYPE", "BOOLEAN">>>>>>

FromNtCreateEventPair == <<
  <<"NtCreateEventPair", "NtCreateEventPair", <<"PHANDLE", "ACCESS_MASK", "PCOBJECT_ATTRIBUTES">>>>,
  <<"NtCreateFile", "NtCreateFile", <<"PHANDLE", "ACCESS_MASK", "PCOBJECT_ATTRIBUTES", "PIO_STATUS_BLOCK",
    "PLARGE_INTEGER", "ULONG", "ULONG", "ULONG", "ULONG", "PVOID", "ULONG">>>>,
  <<"NtCreateIRTimer", "NtCreateIRTimer", <<"PHANDLE", "PULONG", "ACCESS_MASK">>>>,
  <<"NtCreateIoCompletion", "NtCreateIoCompletion", <<"PHANDLE", "ACCESS_MASK", "PCOBJECT_ATTRIBUTES", "ULONG">>>>,
  <<"NtCreateIoRing", "NtCreateIoRing", <<"PHANDLE", "ULONG", "PVOID", "ULONG", "PVOID">>>>,
  <<"NtCreateJobObject", "NtCreateJobObject", <<"PHANDLE", "ACCESS_MASK", "PCOBJECT_ATTRIBUTES">>>>>>

FromNtCreateJobSet == <<
  <<"NtCreateJobSet", "NtCreateJobSet", <<"ULONG", "PJOB_SET_ARRAY", "ULONG">>>>,
  <<"NtCreateKey", "NtCreateKey", <<"PHANDLE", "ACCESS_MASK", "POBJECT_ATTRIBUTES", "ULONG", "PCUNICODE_STRING",
    "ULONG", "PULONG">>>>,
  <<"NtCreateKeyTransacted", "NtCreateKeyTransacted", <<"PHANDLE", "ACCESS_MASK", "POBJECT_ATTRIBUTES", "ULONG",
    "PCUNICODE_STRING", "ULONG", "HANDLE", "PULONG">>>>,
  <<"NtCreateKeyedEvent", "NtCreateKeyedEvent", <<"PHANDLE", "ACCESS_MASK", "PCOBJECT_ATTRIBUTES", "ULONG">>>>,
  <<"NtCreateLowBoxToken", "NtCreateLowBoxToken", <<"PHANDLE", "HANDLE", "ACCESS_MASK", "POBJECT_ATTRIBUTES", "PSID",
    "ULONG", "PSID_AND_ATTRIBUTES", "ULONG", "HANDLE*">>>>>>

FromNtCreateMailslotFile == <<
  <<"NtCreateMailslotFile", "NtCreateMailslotFile", <<"PHANDLE", "ACCESS_MASK", "PCOBJECT_ATTRIBUTES",
    "PIO_STATUS_BLOCK", "ULONG", "ULONG", "ULONG", "PLARGE_INTEGER">>>>,
  <<"NtCreateMutant", "NtCreateMutant", <<"PHANDLE", "ACCESS_MASK", "PCOBJECT_ATTRIBUTES", "BOOLEAN">>>>,
  <<"NtCreateNamedPipeFile", "NtCreateNamedPipeFile", <<"PHANDLE", "ACCESS_MASK", "PCOBJECT_ATTRIBUTES",
    "PIO_STATUS_BLOCK", "ULONG", "ULONG", "ULONG", "ULONG", "ULONG", "ULONG", "ULONG", "ULONG", "ULONG",
    "PLARGE_INTEGER">>>>,
  <<"NtCreatePagingFile", "NtCreatePagingFile", <<"PCUNICODE_STRING", "PLARGE_INTEGER", "PLARGE_INTEGER", "ULONG">>>>,
  <<"NtCreatePartition", "NtCreatePartition", <<"HANDLE", "PHANDLE", "ACCESS_MASK", "PCOBJECT_ATTRIBUTES">>>>>>

FromNtCreatePort == <<
  <<"NtCreatePort", "NtCreatePort", <<"PHANDLE", "POBJECT_ATTRIBUTES", "ULONG", "ULONG", "ULONG">>>>,
  <<"NtCreatePrivateNamespace", "NtCreatePrivateNamespace", <<"PHANDLE", "ACCESS_MASK", "POBJECT_ATTRIBUTES",
    "POBJECT_BOUNDARY_DESCRIPTOR">>>>,
  <<"NtCreateProcess", "NtCreateProcess", <<"PHANDLE", "ACCESS_MASK", "PCOBJECT_ATTRIBUTES", "HANDLE", "BOOLEAN",
    "HANDLE", "HANDLE", "HANDLE">>>>,
  <<"NtCreateProcessEx", "NtCreateProcessEx", <<"PHANDLE", "ACCESS_MASK", "PCOBJECT_ATTRIBUTES", "HANDLE", "ULONG",
    "HANDLE", "HANDLE", "HANDLE", "ULONG">>>>,
  <<"NtCreateProcessStateChange", "NtCreateProcessStateChange", <<"PHANDLE", "ACCESS_MASK", "PCOBJECT_ATTRIBUTES",
    "HANDLE", "ULONG">>>>>>

FromNtCreateProfile == <<
  <<"NtCreateProfile", "NtCreateProfile", <<"PHANDLE", "HANDLE", "PVOID", "SIZE_T", "ULONG", "PULONG", "ULONG",
    "KPROFILE_SOURCE", "KAFFINITY">>>>,
  <<"NtCreateProfileEx", "NtCreateProfileEx", <<"PHANDLE", "HANDLE", "PVOID", "SIZE_T", "ULONG", "PULONG", "ULONG",
    "KPROFILE_SOURCE", "USHORT", "PGROUP_AFFINITY">>>>,
  <<"NtCreateRegistryTransaction", "NtCreateRegistryTransaction", <<"HANDLE*", "ACCESS_MASK", "POBJECT_ATTRIBUTES",
    "ULONG">>>>,
  <<"NtCreateResourceManager", "NtCreateResourceManager", <<"PHANDLE", "ACCESS_MASK", "HANDLE", "LPGUID",
    "POBJECT_ATTRIBUTES", "ULONG", "PCUNICODE_STRING">>>>,
  <<"NtCreateSection", "NtCreateSection", <<"PHANDLE", "ACCESS_MASK", "PCOBJECT_ATTRIBUTES", "PLARGE_INTEGER",
    "ULONG", "ULONG", "HANDLE">>>>>>

FromNtCreateSectionEx == <<
  <<"NtCreateSectionEx", "NtCreateSectionEx", <<"PHANDLE", "ACCESS_MASK", "PCOBJECT_ATTRIBUTES", "PLARGE_INTEGER",
    "ULONG", "ULONG", "HANDLE", "PMEM_EXTENDED_PARAMETER", "ULONG">>>>,
  <<"NtCreateSemaphore", "NtCreateSemaphore", <<"PHANDLE", "ACCESS_MASK", "PCOBJECT_ATTRIBUTES", "LONG", "LONG">>>>,
  <<"NtCreateSymbolicLinkObject", "NtCreateSymbolicLinkObject", <<"PHANDLE", "ACCESS_MASK", "POBJECT_ATTRIBUTES",
    "PCUNICODE_STRING">>>>,
  <<"NtCreateThread", "NtCreateThread", <<"PHANDLE", "ACCESS_MASK", "PCOBJECT_ATTRIBUTES", "HANDLE", "PCLIENT_ID",
    "PCONTEXT", "PINITIAL_TEB", "BOOLEAN">>>>,
  <<"NtCreateThreadEx", "NtCreateThreadEx", <<"PHANDLE", "ACCESS_MASK", "PCOBJECT_ATTRIBUTES", "HANDLE",
    "PUSER_THREAD_START_ROUTINE", "PVOID", "ULONG", "SIZE_T", "SIZE_T", "SIZE_T", "PPS_ATTRIBUTE_LIST">>>>>>

FromNtCreateThreadStateChange == <<
  <<"NtCreateThreadStateChange", "NtCreateThreadStateChange", <<"PHANDLE", "ACCESS_MASK", "PCOBJECT_ATTRIBUTES",
    "HANDLE", "ULONG">>>>,
  <<"NtCreateTimer", "NtCreateTimer", <<"PHANDLE", "ACCESS_MASK", "PCOBJECT_ATTRIBUTES", "TIMER_TYPE">>>>,
  <<"NtCreateTimer2", "NtCreateTimer2", <<"PHANDLE", "PULONG", "PCOBJECT_ATTRIBUTES", "ULONG", "ACCESS_MASK">>>>,
  <<"NtCreateToken", "NtCreateToken", <<"PHANDLE", "ACCESS_MASK", "POBJECT_ATTRIBUTES", "TOKEN_TYPE", "PLUID",
    "PLARGE_INTEGER", "PTOKEN_USER", "PTOKEN_GROUPS", "PTOKEN_PRIVILEGES", "PTOKEN_OWNER", "PTOKEN_PRIMARY_GROUP",
    "PTOKEN_DEFAULT_DACL", "PTOKEN_SOURCE">>>>>>

FromNtCreateTokenEx == <<
  <<"NtCreateTokenEx", "NtCreateTokenEx", <<"PHANDLE", "ACCESS_MASK", "POBJECT_ATTRIBUTES", "TOKEN_TYPE", "PLUID",
    "PLARGE_INTEGER", "PTOKEN_USER", "PTOKEN_GROUPS", "PTOKEN_PRIVILEGES", "PTOKEN_SECURITY_ATTRIBUTES_INFORMATION",
    "PTOKEN_SECURITY_ATTRIBUTES_INFORMATION", "PTOKEN_GROUPS", "PTOKEN_MANDATORY_POLICY", "PTOKEN_OWNER",
    "PTOKEN_PRIMARY_GROUP", "PTOKEN_DEFAULT_DACL", "PTOKEN_SOURCE">>>>,
  <<"NtCreateTransaction", "NtCreateTransaction", <<"PHANDLE", "ACCESS_MASK", "POBJECT_ATTRIBUTES", "LPGUID",
    "HANDLE", "ULONG", "ULONG", "ULONG", "PLARGE_INTEGER", "PCUNICODE_STRING">>>>,
  <<"NtCreateTransactionManager", "NtCreateTransactionManager", <<"PHANDLE", "ACCESS_MASK", "POBJECT_ATTRIBUTES",
    "PCUNICODE_STRING", "ULONG", "ULONG">>>>,
  <<"NtCreateUserProcess", "NtCreateUserProcess", <<"PHANDLE", "PHANDLE", "ACCESS_MASK", "ACCESS_MASK",
    "PCOBJECT_ATTRIBUTES", "PCOBJECT_ATTRIBUTES", "ULONG", "ULONG", "PRTL_USER_PROCESS_PARAMETERS", "PPS_CREATE_INFO",
    "PPS_ATTRIBUTE_LIST">>>>>>

FromNtCreateWaitCompletionPacket == <<
  <<"NtCreateWaitCompletionPacket", "NtCreateWaitCompletionPacket", <<"PHANDLE", "ACCESS_MASK",
    "PCOBJECT_ATTRIBUTES">>>>,
  <<"NtCreateWaitablePort", "NtCreateWaitablePort", <<"PHANDLE", "POBJECT_ATTRIBUTES", "ULONG", "ULONG", "ULONG">>>>,
  <<"NtCreateWnfStateName", "NtCreateWnfStateName", <<"PWNF_STATE_NAME", "WNF_STATE_NAME_LIFETIME", "WNF_DATA_SCOPE",
    "BOOLEAN", "PCWNF_TYPE_ID", "ULONG", "PSECURITY_DESCRIPTOR">>>>,
  <<"NtCreateWorkerFactory", "NtCreateWorkerFactory", <<"PHANDLE", "ACCESS_MASK", "PCOBJECT_ATTRIBUTES", "HANDLE",
    "HANDLE", "PVOID", "PVOID", "ULONG", "SIZE_T", "SIZE_T">>>>,
  <<"NtDebugActiveProcess", "NtDebugActiveProcess", <<"HANDLE", "HANDLE">>>>,
  <<"NtDebugContinue", "NtDebugContinue", <<"HANDLE", "PCLIENT_ID", "NTSTATUS">>>>>>

FromNtDelayExecution == <<
  <<"NtDelayExecution", "NtDelayExecution", <<"BOOLEAN", "PLARGE_INTEGER">>>>,
  <<"NtDeleteAtom", "NtDeleteAtom", <<"RTL_ATOM">>>>,
  <<"NtDeleteBootEntry", "NtDeleteBootEntry", <<"ULONG">>>>,
  <<"NtDeleteDriverEntry", "NtDeleteDriverEntry", <<"ULONG">>>>,
  <<"NtDeleteFile", "NtDeleteFile", <<"PCOBJECT_ATTRIBUTES">>>>,
  <<"NtDeleteKey", "NtDeleteKey", <<"HANDLE">>>>,
  <<"NtDeleteObjectAuditAlarm", "NtDeleteObjectAuditAlarm", <<"PCUNICODE_STRING", "PVOID", "BOOLEAN">>>>,
  <<"NtDeletePrivateNamespace", "NtDeletePrivateNamespace", <<"HANDLE">>>>,
  <<"NtDeleteValueKey", "NtDeleteValueKey", <<"HANDLE", "PCUNICODE_STRING">>>>>>

FromNtDeleteWnfStateData == <<
  <<"NtDeleteWnfStateData", "NtDeleteWnfStateData", <<"PCWNF_STATE_NAME", "PCSID">>>>,
  <<"NtDeleteWnfStateName", "NtDeleteWnfStateName", <<"PCWNF_STATE_NAME">>>>,
  <<"NtDeviceIoControlFile", "NtDeviceIoControlFile", <<"HANDLE", "HANDLE", "PIO_APC_ROUTINE", "PVOID",
    "PIO_STATUS_BLOCK", "ULONG", "PVOID", "ULONG", "PVOID", "ULONG">>>>,
  <<"NtDirectGraphicsCall", "NtDirectGraphicsCall", <<"ULONG", "PVOID", "ULONG", "PVOID", "PULONG">>>>,
  <<"NtDisableLastKnownGood", "NtDisableLastKnownGood", <<>>>>,
  <<"NtDisplayString", "NtDisplayString", <<"PCUNICODE_STRING">>>>,
  <<"NtDrawText", "NtDrawText", <<"PCUNICODE_STRING">>>>>>

FromNtDuplicateObject == <<
  <<"NtDuplicateObject", "NtDuplicateObject", <<"HANDLE", "HANDLE", "HANDLE", "PHANDLE", "ACCESS_MASK", "ULONG",
    "ULONG">>>>,
  <<"NtDuplicateToken", "NtDuplicateToken", <<"HANDLE", "ACCESS_MASK", "POBJECT_ATTRIBUTES", "BOOLEAN", "TOKEN_TYPE",
    "PHANDLE">>>>,
  <<"NtEnableLastKnownGood", "NtEnableLastKnownGood", <<>>>>,
  <<"NtEnumerateBootEntries", "NtEnumerateBootEntries", <<"PVOID", "PULONG">>>>,
  <<"NtEnumerateDriverEntries", "NtEnumerateDriverEntries", <<"PVOID", "PULONG">>>>,
  <<"NtEnumerateKey", "NtEnumerateKey", <<"HANDLE", "ULONG", "KEY_INFORMATION_CLASS", "PVOID", "ULONG", "PULONG">>>>,
  <<"NtEnumerateSystemEnvironmentValuesEx", "NtEnumerateSystemEnvironmentValuesEx", <<"ULONG", "PVOID", "PULONG">>>>>>

FromNtEnumerateTransactionObject == <<
  <<"NtEnumerateTransactionObject", "NtEnumerateTransactionObject", <<"HANDLE", "KTMOBJECT_TYPE", "PKTMOBJECT_CURSOR",
    "ULONG", "PULONG">>>>,
  <<"NtEnumerateValueKey", "NtEnumerateValueKey", <<"HANDLE", "ULONG", "KEY_VALUE_INFORMATION_CLASS", "PVOID",
    "ULONG", "PULONG">>>>,
  <<"NtExtendSection", "NtExtendSection", <<"HANDLE", "PLARGE_INTEGER">>>>,
  <<"NtFilterBootOption", "NtFilterBootOption", <<"FILTER_BOOT_OPTION_OPERATION", "ULONG", "ULONG", "PVOID",
    "ULONG">>>>,
  <<"NtFilterToken", "NtFilterToken", <<"HANDLE", "ULONG", "PTOKEN_GROUPS", "PTOKEN_PRIVILEGES", "PTOKEN_GROUPS",
    "PHANDLE">>>>>>

FromNtFilterTokenEx == <<
  <<"NtFilterTokenEx", "NtFilterTokenEx", <<"HANDLE", "ULONG", "PTOKEN_GROUPS", "PTOKEN_PRIVILEGES", "PTOKEN_GROUPS",
    "ULONG", "PCUNICODE_STRING", "ULONG", "PCUNICODE_STRING", "PTOKEN_GROUPS",
    "PTOKEN_SECURITY_ATTRIBUTES_INFORMATION", "PTOKEN_SECURITY_ATTRIBUTES_INFORMATION", "PTOKEN_GROUPS",
    "PHANDLE">>>>,
  <<"NtFindAtom", "NtFindAtom", <<"PCWSTR", "ULONG", "PRTL_ATOM">>>>,
  <<"NtFlushBuffersFile", "NtFlushBuffersFile", <<"HANDLE", "PIO_STATUS_BLOCK">>>>,
  <<"NtFlushBuffersFileEx", "NtFlushBuffersFileEx", <<"HANDLE", "ULONG", "PVOID", "ULONG", "PIO_STATUS_BLOCK">>>>,
  <<"NtFlushInstallUILanguage", "NtFlushInstallUILanguage", <<"LANGID", "ULONG">>>>,
  <<"NtFlushInstructionCache", "NtFlushInstructionCache", <<"HANDLE", "PVOID", "SIZE_T">>>>>>

FromNtFlushKey == <<
  <<"NtFlushKey", "NtFlushKey", <<"HANDLE">>>>,
  <<"NtFlushProcessWriteBuffers", "NtFlushProcessWriteBuffers", <<>>>>,
  <<"NtFlushVirtualMemory", "NtFlushVirtualMemory", <<"HANDLE", "PVOID*", "PSIZE_T", "PIO_STATUS_BLOCK">>>>,
  <<"NtFlushWriteBuffer", "NtFlushWriteBuffer", <<>>>>,
  <<"NtFreeUserPhysicalPages", "NtFreeUserPhysicalPages", <<"HANDLE", "PULONG_PTR", "PULONG_PTR">>>>,
  <<"NtFreeVirtualMemory", "NtFreeVirtualMemory", <<"HANDLE", "PVOID*", "PSIZE_T", "ULONG">>>>,
  <<"NtFreezeRegistry", "NtFreezeRegistry", <<"ULONG">>>>,
  <<"NtFreezeTransactions", "NtFreezeTransactions", <<"PLARGE_INTEGER", "PLARGE_INTEGER">>>>>>

FromNtFsControlFile == <<
  <<"NtFsControlFile", "NtFsControlFile", <<"HANDLE", "HANDLE", "PIO_APC_ROUTINE", "PVOID", "PIO_STATUS_BLOCK",
    "ULONG", "PVOID", "ULONG", "PVOID", "ULONG">>>>,
  <<"NtGetCachedSigningLevel", "NtGetCachedSigningLevel", <<"HANDLE", "PULONG", "PSE_SIGNING_LEVEL", "PUCHAR",
    "PULONG", "PULONG">>>>,
  <<"NtGetCompleteWnfStateSubscription", "NtGetCompleteWnfStateSubscription", <<"PWNF_STATE_NAME", "ULONG64*",
    "ULONG", "ULONG", "PWNF_DELIVERY_DESCRIPTOR", "ULONG">>>>,
  <<"NtGetContextThread", "NtGetContextThread", <<"HANDLE", "PCONTEXT">>>>,
  <<"NtGetCurrentProcessorNumber", "NtGetCurrentProcessorNumber", <<>>>>,
  <<"NtGetCurrentProcessorNumberEx", "NtGetCurrentProcessorNumberEx", <<"PPROCESSOR_NUMBER">>>>,
  <<"NtGetDevicePowerState", "NtGetDevicePowerState", <<"HANDLE", "PDEVICE_POWER_STATE">>>>>>

FromNtGetMUIRegistryInfo == <<
  <<"NtGetMUIRegistryInfo", "NtGetMUIRegistryInfo", <<"ULONG", "PULONG", "PVOID">>>>,
  <<"NtGetNextProcess", "NtGetNextProcess", <<"HANDLE", "ACCESS_MASK", "ULONG", "ULONG", "PHANDLE">>>>,
  <<"NtGetNextThread", "NtGetNextThread", <<"HANDLE", "HANDLE", "ACCESS_MASK", "ULONG", "ULONG", "PHANDLE">>>>,
  <<"NtGetNlsSectionPtr", "NtGetNlsSectionPtr", <<"ULONG", "ULONG", "PVOID", "PVOID*", "PULONG">>>>,
  <<"NtGetNotificationResourceManager", "NtGetNotificationResourceManager", <<"HANDLE", "PTRANSACTION_NOTIFICATION",
    "ULONG", "PLARGE_INTEGER", "PULONG", "ULONG", "ULONG_PTR">>>>,
  <<"NtGetWriteWatch", "NtGetWriteWatch", <<"HANDLE", "ULONG", "PVOID", "SIZE_T", "PVOID*", "PULONG_PTR",
    "PULONG">>>>>>

FromNtImpersonateAnonymousToken == <<
  <<"NtImpersonateAnonymousToken", "NtImpersonateAnonymousToken", <<"HANDLE">>>>,
  <<"NtImpersonateClientOfPort", "NtImpersonateClientOfPort", <<"HANDLE", "PPORT_MESSAGE">>>>,
  <<"NtImpersonateThread", "NtImpersonateThread", <<"HANDLE", "HANDLE", "PSECURITY_QUALITY_OF_SERVICE">>>>,
  <<"NtInitializeEnclave", "NtInitializeEnclave", <<"HANDLE", "PVOID", "PVOID", "ULONG", "PULONG">>>>,
  <<"NtInitializeNlsFiles", "NtInitializeNlsFiles", <<"PVOID*", "PLCID", "PLARGE_INTEGER", "PULONG">>>>,
  <<"NtInitializeRegistry", "NtInitializeRegistry", <<"USHORT">>>>,
  <<"NtInitiatePowerAction", "NtInitiatePowerAction", <<"POWER_ACTION", "SYSTEM_POWER_STATE", "ULONG", "BOOLEAN">>>>,
  <<"NtIsProcessInJob", "NtIsProcessInJob", <<"HANDLE", "HANDLE">>>>>>

FromNtIsSystemResumeAutomatic == <<
  <<"NtIsSystemResumeAutomatic", "NtIsSystemResumeAutomatic", <<>>>>,
  <<"NtIsUILanguageComitted", "NtIsUILanguageComitted", <<>>>>,
  <<"NtListenPort", "NtListenPort", <<"HANDLE", "PPORT_MESSAGE">>>>,
  <<"NtLoadDriver", "NtLoadDriver", <<"PCUNICODE_STRING">>>>,
  <<"NtLoadEnclaveData", "NtLoadEnclaveData", <<"HANDLE", "PVOID", "PVOID", "SIZE_T", "ULONG", "PVOID", "ULONG",
    "PSIZE_T", "PULONG">>>>,
  <<"NtLoadKey", "NtLoadKey", <<"POBJECT_ATTRIBUTES", "POBJECT_ATTRIBUTES">>>>,
  <<"NtLoadKey2", "NtLoadKey2", <<"POBJECT_ATTRIBUTES", "POBJECT_ATTRIBUTES", "ULONG">>>>,
  <<"NtLoadKey3", "NtLoadKey3", <<"POBJECT_ATTRIBUTES", "POBJECT_ATTRIBUTES", "ULONG", "PCM_EXTENDED_PARAMETER",
    "ULONG", "ACCESS_MASK", "PHANDLE", "PVOID">>>>>>

FromNtLoadKeyEx == <<
  <<"NtLoadKeyEx", "NtLoadKeyEx", <<"POBJECT_ATTRIBUTES", "POBJECT_ATTRIBUTES", "ULONG", "HANDLE", "HANDLE",
    "ACCESS_MASK", "PHANDLE", "PVOID">>>>,
  <<"NtLockFile", "NtLockFile", <<"HANDLE", "HANDLE", "PIO_APC_ROUTINE", "PVOID", "PIO_STATUS_BLOCK",
    "PLARGE_INTEGER", "PLARGE_INTEGER", "ULONG", "BOOLEAN", "BOOLEAN">>>>,
  <<"NtLockProductActivationKeys", "NtLockProductActivationKeys", <<"ULONG*", "ULONG*">>>>,
  <<"NtLockRegistryKey", "NtLockRegistryKey", <<"HANDLE">>>>,
  <<"NtLockVirtualMemory", "NtLockVirtualMemory", <<"HANDLE", "PVOID*", "PSIZE_T", "ULONG">>>>,
  <<"NtMakePermanentObject", "NtMakePermanentObject", <<"HANDLE">>>>,
  <<"NtMakeTemporaryObject", "NtMakeTemporaryObject", <<"HANDLE">>>>>>

FromNtManageHotPatch == <<
  <<"NtManageHotPatch", "NtManageHotPatch", <<"HOT_PATCH_INFORMATION_CLASS", "PVOID", "ULONG", "PULONG">>>>,
  <<"NtManagePartition", "NtManagePartition", <<"HANDLE", "HANDLE", "PARTITION_INFORMATION_CLASS", "PVOID",
    "ULONG">>>>,
  <<"NtMapCMFModule", "NtMapCMFModule", <<"ULONG", "ULONG", "PULONG", "PULONG", "PULONG", "PVOID*">>>>,
  <<"NtMapUserPhysicalPages", "NtMapUserPhysicalPages", <<"PVOID", "SIZE_T", "PULONG_PTR">>>>,
  <<"NtMapUserPhysicalPagesScatter", "NtMapUserPhysicalPagesScatter", <<"PVOID*", "SIZE_T", "PULONG_PTR">>>>,
  <<"NtMapViewOfSection", "NtMapViewOfSection", <<"HANDLE", "HANDLE", "PVOID*", "ULONG_PTR", "SIZE_T",
    "PLARGE_INTEGER", "PSIZE_T", "SECTION_INHERIT", "ULONG", "ULONG">>>>>>

FromNtMapViewOfSectionEx == <<
  <<"NtMapViewOfSectionEx", "NtMapViewOfSectionEx", <<"HANDLE", "HANDLE", "PVOID*", "PLARGE_INTEGER", "PSIZE_T",
    "ULONG", "ULONG", "PMEM_EXTENDED_PARAMETER", "ULONG">>>>,
  <<"NtModifyBootEntry", "NtModifyBootEntry", <<"PBOOT_ENTRY">>>>,
  <<"NtModifyDriverEntry", "NtModifyDriverEntry", <<"PEFI_DRIVER_ENTRY">>>>,
  <<"NtNotifyChangeDirectoryFile", "NtNotifyChangeDirectoryFile", <<"HANDLE", "HANDLE", "PIO_APC_ROUTINE", "PVOID",
    "PIO_STATUS_BLOCK", "PVOID", "ULONG", "ULONG", "BOOLEAN">>>>,
  <<"NtNotifyChangeDirectoryFileEx", "NtNotifyChangeDirectoryFileEx", <<"HANDLE", "HANDLE", "PIO_APC_ROUTINE",
    "PVOID", "PIO_STATUS_BLOCK", "PVOID", "ULONG", "ULONG", "BOOLEAN", "DIRECTORY_NOTIFY_INFORMATION_CLASS">>>>>>

FromNtNotifyChangeKey == <<
  <<"NtNotifyChangeKey", "NtNotifyChangeKey", <<"HANDLE", "HANDLE", "PIO_APC_ROUTINE", "PVOID", "PIO_STATUS_BLOCK",
    "ULONG", "BOOLEAN", "PVOID", "ULONG", "BOOLEAN">>>>,
  <<"NtNotifyChangeMultipleKeys", "NtNotifyChangeMultipleKeys", <<"HANDLE", "ULONG", "OBJECT_ATTRIBUTES", "HANDLE",
    "PIO_APC_ROUTINE", "PVOID", "PIO_STATUS_BLOCK", "ULONG", "BOOLEAN", "PVOID", "ULONG", "BOOLEAN">>>>,
  <<"NtNotifyChangeSession", "NtNotifyChangeSession", <<"HANDLE", "ULONG", "PLARGE_INTEGER", "IO_SESSION_EVENT",
    "IO_SESSION_STATE", "IO_SESSION_STATE", "PVOID", "ULONG">>>>,
  <<"NtOpenCpuPartition", "NtOpenCpuPartition", <<"PHANDLE", "ACCESS_MASK", "POBJECT_ATTRIBUTES">>>>,
  <<"NtOpenDirectoryObject", "NtOpenDirectoryObject", <<"PHANDLE", "ACCESS_MASK", "POBJECT_ATTRIBUTES">>>>>>

FromNtOpenEnlistment == <<
  <<"NtOpenEnlistment", "NtOpenEnlistment", <<"PHANDLE", "ACCESS_MASK", "HANDLE", "LPGUID", "POBJECT_ATTRIBUTES">>>>,
  <<"NtOpenEvent", "NtOpenEvent", <<"PHANDLE", "ACCESS_MASK", "POBJECT_ATTRIBUTES">>>>,
  <<"NtOpenEventPair", "NtOpenEventPair", <<"PHANDLE", "ACCESS_MASK", "PCOBJECT_ATTRIBUTES">>>>,
  <<"NtOpenFile", "NtOpenFile", <<"PHANDLE", "ACCESS_MASK", "PCOBJECT_ATTRIBUTES", "PIO_STATUS_BLOCK", "ULONG",
    "ULONG">>>>,
  <<"NtOpenIoCompletion", "NtOpenIoCompletion", <<"PHANDLE", "ACCESS_MASK", "PCOBJECT_ATTRIBUTES">>>>,
  <<"NtOpenJobObject", "NtOpenJobObject", <<"PHANDLE", "ACCESS_MASK", "PCOBJECT_ATTRIBUTES">>>>,
  <<"NtOpenKey", "NtOpenKey", <<"PHANDLE", "ACCESS_MASK", "POBJECT_ATTRIBUTES">>>>>>

FromNtOpenKeyEx == <<
  <<"NtOpenKeyEx", "NtOpenKeyEx", <<"PHANDLE", "ACCESS_MASK", "POBJECT_ATTRIBUTES", "ULONG">>>>,
  <<"NtOpenKeyTransacted", "NtOpenKeyTransacted", <<"PHANDLE", "ACCESS_MASK", "POBJECT_ATTRIBUTES", "HANDLE">>>>,
  <<"NtOpenKeyTransactedEx", "NtOpenKeyTransactedEx", <<"PHANDLE", "ACCESS_MASK", "POBJECT_ATTRIBUTES", "ULONG",
    "HANDLE">>>>,
  <<"NtOpenKeyedEvent", "NtOpenKeyedEvent", <<"PHANDLE", "ACCESS_MASK", "PCOBJECT_ATTRIBUTES">>>>,
  <<"NtOpenMutant", "NtOpenMutant", <<"PHANDLE", "ACCESS_MASK", "PCOBJECT_ATTRIBUTES">>>>,
  <<"NtOpenObjectAuditAlarm", "NtOpenObjectAuditAlarm", <<"PCUNICODE_STRING", "PVOID", "PCUNICODE_STRING",
    "PCUNICODE_STRING", "PSECURITY_DESCRIPTOR", "HANDLE", "ACCESS_MASK", "ACCESS_MASK", "PPRIVILEGE_SET", "BOOLEAN",
    "BOOLEAN", "PBOOLEAN">>>>>>

FromNtOpenPartition == <<
  <<"NtOpenPartition", "NtOpenPartition", <<"PHANDLE", "ACCESS_MASK", "PCOBJECT_ATTRIBUTES">>>>,
  <<"NtOpenPrivateNamespace", "NtOpenPrivateNamespace", <<"PHANDLE", "ACCESS_MASK", "POBJECT_ATTRIBUTES",
    "POBJECT_BOUNDARY_DESCRIPTOR">>>>,
  <<"NtOpenProcess", "NtOpenProcess", <<"PHANDLE", "ACCESS_MASK", "PCOBJECT_ATTRIBUTES", "PCLIENT_ID">>>>,
  <<"NtOpenProcessToken", "NtOpenProcessToken", <<"HANDLE", "ACCESS_MASK", "PHANDLE">>>>,
  <<"NtOpenProcessTokenEx", "NtOpenProcessTokenEx", <<"HANDLE", "ACCESS_MASK", "ULONG", "PHANDLE">>>>,
  <<"NtOpenRegistryTransaction", "NtOpenRegistryTransaction", <<"HANDLE*", "ACCESS_MASK", "POBJECT_ATTRIBUTES">>>>,
  <<"NtOpenResourceManager", "NtOpenResourceManager", <<"PHANDLE", "ACCESS_MASK", "HANDLE", "LPGUID",
    "POBJECT_ATTRIBUTES">>>>>>

FromNtOpenSection == <<
  <<"NtOpenSection", "NtOpenSection", <<"PHANDLE", "ACCESS_MASK", "PCOBJECT_ATTRIBUTES">>>>,
  <<"NtOpenSemaphore", "NtOpenSemaphore", <<"PHANDLE", "ACCESS_MASK", "PCOBJECT_ATTRIBUTES">>>>,
  <<"NtOpenSession", "NtOpenSession", <<"PHANDLE", "ACCESS_MASK", "POBJECT_ATTRIBUTES">>>>,
  <<"NtOpenSymbolicLinkObject", "NtOpenSymbolicLinkObject", <<"PHANDLE", "ACCESS_MASK", "POBJECT_ATTRIBUTES">>>>,
  <<"NtOpenThread", "NtOpenThread", <<"PHANDLE", "ACCESS_MASK", "PCOBJECT_ATTRIBUTES", "PCLIENT_ID">>>>,
  <<"NtOpenThreadToken", "NtOpenThreadToken", <<"HANDLE", "ACCESS_MASK", "BOOLEAN", "PHANDLE">>>>,
  <<"NtOpenThreadTokenEx", "NtOpenThreadTokenEx", <<"HANDLE", "ACCESS_MASK", "BOOLEAN", "ULONG", "PHANDLE">>>>>>

FromNtOpenTimer == <<
  <<"NtOpenTimer", "NtOpenTimer", <<"PHANDLE", "ACCESS_MASK", "PCOBJECT_ATTRIBUTES">>>>,
  <<"NtOpenTransaction", "NtOpenTransaction", <<"PHANDLE", "ACCESS_MASK", "POBJECT_ATTRIBUTES", "LPGUID",
    "HANDLE">>>>,
  <<"NtOpenTransactionManager", "NtOpenTransactionManager", <<"PHANDLE", "ACCESS_MASK", "POBJECT_ATTRIBUTES",
    "PCUNICODE_STRING", "LPGUID", "ULONG">>>>,
  <<"NtPlugPlayControl", "NtPlugPlayControl", <<"PLUGPLAY_CONTROL_CLASS", "PVOID", "ULONG">>>>,
  <<"NtPowerInformation", "NtPowerInformation", <<"POWER_INFORMATION_LEVEL", "PVOID", "ULONG", "PVOID", "ULONG">>>>,
  <<"NtPrePrepareComplete", "NtPrePrepareComplete", <<"HANDLE", "PLARGE_INTEGER">>>>,
  <<"NtPrePrepareEnlistment", "NtPrePrepareEnlistment", <<"HANDLE", "PLARGE_INTEGER">>>>>>

FromNtPrepareComplete == <<
  <<"NtPrepareComplete", "NtPrepareComplete", <<"HANDLE", "PLARGE_INTEGER">>>>,
  <<"NtPrepareEnlistment", "NtPrepareEnlistment", <<"HANDLE", "PLARGE_INTEGER">>>>,
  <<"NtPrivilegeCheck", "NtPrivilegeCheck", <<"HANDLE", "PPRIVILEGE_SET", "PBOOLEAN">>>>,
  <<"NtPrivilegeObjectAuditAlarm", "NtPrivilegeObjectAuditAlarm", <<"PCUNICODE_STRING", "PVOID", "HANDLE",
    "ACCESS_MASK", "PPRIVILEGE_SET", "BOOLEAN">>>>,
  <<"NtPrivilegedServiceAuditAlarm", "NtPrivilegedServiceAuditAlarm", <<"PCUNICODE_STRING", "PCUNICODE_STRING",
    "HANDLE", "PPRIVILEGE_SET", "BOOLEAN">>>>,
  <<"NtPropagationComplete", "NtPropagationComplete", <<"HANDLE", "ULONG", "ULONG", "PVOID">>>>,
  <<"NtPropagationFailed", "NtPropagationFailed", <<"HANDLE", "ULONG", "NTSTATUS">>>>>>

FromNtProtectVirtualMemory == <<
  <<"NtProtectVirtualMemory", "NtProtectVirtualMemory", <<"HANDLE", "PVOID*", "PSIZE_T", "ULONG", "PULONG">>>>,
  <<"NtPssCaptureVaSpaceBulk", "NtPssCaptureVaSpaceBulk", <<"HANDLE", "PVOID", "PNTPSS_MEMORY_BULK_INFORMATION",
    "SIZE_T", "PSIZE_T">>>>,
  <<"NtPulseEvent", "NtPulseEvent", <<"HANDLE", "PLONG">>>>,
  <<"NtQueryAttributesFile", "NtQueryAttributesFile", <<"PCOBJECT_ATTRIBUTES", "PFILE_BASIC_INFORMATION">>>>,
  <<"NtQueryAuxiliaryCounterFrequency", "NtQueryAuxiliaryCounterFrequency", <<"PULONG64">>>>,
  <<"NtQueryBootEntryOrder", "NtQueryBootEntryOrder", <<"PULONG", "PULONG">>>>,
  <<"NtQueryBootOptions", "NtQueryBootOptions", <<"PBOOT_OPTIONS", "PULONG">>>>,
  <<"NtQueryDebugFilterState", "NtQueryDebugFilterState", <<"ULONG", "ULONG">>>>>>

FromNtQueryDefaultLocale == <<
  <<"NtQueryDefaultLocale", "NtQueryDefaultLocale", <<"BOOLEAN", "PLCID">>>>,
  <<"NtQueryDefaultUILanguage", "NtQueryDefaultUILanguage", <<"LANGID*">>>>,
  <<"NtQueryDirectoryFile", "NtQueryDirectoryFile", <<"HANDLE", "HANDLE", "PIO_APC_ROUTINE", "PVOID",
    "PIO_STATUS_BLOCK", "PVOID", "ULONG", "FILE_INFORMATION_CLASS", "BOOLEAN", "PCUNICODE_STRING", "BOOLEAN">>>>,
  <<"NtQueryDirectoryFileEx", "NtQueryDirectoryFileEx", <<"HANDLE", "HANDLE", "PIO_APC_ROUTINE", "PVOID",
    "PIO_STATUS_BLOCK", "PVOID", "ULONG", "FILE_INFORMATION_CLASS", "ULONG", "PCUNICODE_STRING">>>>,
  <<"NtQueryDirectoryObject", "NtQueryDirectoryObject", <<"HANDLE", "PVOID", "ULONG", "BOOLEAN", "BOOLEAN", "PULONG",
    "PULONG">>>>,
  <<"NtQueryDriverEntryOrder", "NtQueryDriverEntryOrder", <<"PULONG", "PULONG">>>>>>

FromNtQueryEaFile == <<
  <<"NtQueryEaFile", "NtQueryEaFile", <<"HANDLE", "PIO_STATUS_BLOCK", "PVOID", "ULONG", "BOOLEAN", "PVOID", "ULONG",
    "PULONG", "BOOLEAN">>>>,
  <<"NtQueryEvent", "NtQueryEvent", <<"HANDLE", "EVENT_INFORMATION_CLASS", "PVOID", "ULONG", "PULONG">>>>,
  <<"NtQueryFullAttributesFile", "NtQueryFullAttributesFile", <<"PCOBJECT_ATTRIBUTES",
    "PFILE_NETWORK_OPEN_INFORMATION">>>>,
  <<"NtQueryInformationAtom", "NtQueryInformationAtom", <<"RTL_ATOM", "ATOM_INFORMATION_CLASS", "PVOID", "ULONG",
    "PULONG">>>>,
  <<"NtQueryInformationByName", "NtQueryInformationByName", <<"PCOBJECT_ATTRIBUTES", "PIO_STATUS_BLOCK", "PVOID",
    "ULONG", "FILE_INFORMATION_CLASS">>>>,
  <<"NtQueryInformationCpuPartition", "NtQueryInformationCpuPartition", <<"HANDLE", "ULONG", "PVOID", "ULONG",
    "PULONG">>>>>>

FromNtQueryInformationEnlistment == <<
  <<"NtQueryInformationEnlistment", "NtQueryInformationEnlistment", <<"HANDLE", "ENLISTMENT_INFORMATION_CLASS",
    "PVOID", "ULONG", "PULONG">>>>,
  <<"NtQueryInformationFile", "NtQueryInformationFile", <<"HANDLE", "PIO_STATUS_BLOCK", "PVOID", "ULONG",
    "FILE_INFORMATION_CLASS">>>>,
  <<"NtQueryInformationJobObject", "NtQueryInformationJobObject", <<"HANDLE", "JOBOBJECTINFOCLASS", "PVOID", "ULONG",
    "PULONG">>>>,
  <<"NtQueryInformationPort", "NtQueryInformationPort", <<"HANDLE", "PORT_INFORMATION_CLASS", "PVOID", "ULONG",
    "PULONG">>>>,
  <<"NtQueryInformationProcess", "NtQueryInformationProcess", <<"HANDLE", "PROCESSINFOCLASS", "PVOID", "ULONG",
    "PULONG">>>>,
  <<"NtQueryInformationResourceManager", "NtQueryInformationResourceManager", <<"HANDLE",
    "RESOURCEMANAGER_INFORMATION_CLASS", "PVOID", "ULONG", "PULONG">>>>>>

FromNtQueryInformationThread == <<
  <<"NtQueryInformationThread", "NtQueryInformationThread", <<"HANDLE", "THREADINFOCLASS", "PVOID", "ULONG",
    "PULONG">>>>,
  <<"NtQueryInformationToken", "NtQueryInformationToken", <<"HANDLE", "TOKEN_INFORMATION_CLASS", "PVOID", "ULONG",
    "PULONG">>>>,
  <<"NtQueryInformationTransaction", "NtQueryInformationTransaction", <<"HANDLE", "TRANSACTION_INFORMATION_CLASS",
    "PVOID", "ULONG", "PULONG">>>>,
  <<"NtQueryInformationTransactionManager", "NtQueryInformationTransactionManager", <<"HANDLE",
    "TRANSACTIONMANAGER_INFORMATION_CLASS", "PVOID", "ULONG", "PULONG">>>>,
  <<"NtQueryInformationWorkerFactory", "NtQueryInformationWorkerFactory", <<"HANDLE", "WORKERFACTORYINFOCLASS",
    "PVOID", "ULONG", "PULONG">>>>,
  <<"NtQueryInstallUILanguage", "NtQueryInstallUILanguage", <<"LANGID*">>>>,
  <<"NtQueryIntervalProfile", "NtQueryIntervalProfile", <<"KPROFILE_SOURCE", "PULONG">>>>>>

FromNtQueryIoCompletion == <<
  <<"NtQueryIoCompletion", "NtQueryIoCompletion", <<"HANDLE", "IO_COMPLETION_INFORMATION_CLASS", "PVOID", "ULONG",
    "PULONG">>>>,
  <<"NtQueryIoRingCapabilities", "NtQueryIoRingCapabilities", <<"SIZE_T", "PVOID">>>>,
  <<"NtQueryKey", "NtQueryKey", <<"HANDLE", "KEY_INFORMATION_CLASS", "PVOID", "ULONG", "PULONG">>>>,
  <<"NtQueryLicenseValue", "NtQueryLicenseValue", <<"PCUNICODE_STRING", "PULONG", "PVOID", "ULONG", "PULONG">>>>,
  <<"NtQueryMultipleValueKey", "NtQueryMultipleValueKey", <<"HANDLE", "PKEY_VALUE_ENTRY", "ULONG", "PVOID", "PULONG",
    "PULONG">>>>,
  <<"NtQueryMutant", "NtQueryMutant", <<"HANDLE", "MUTANT_INFORMATION_CLASS", "PVOID", "ULONG", "PULONG">>>>>>

FromNtQueryObject == <<
  <<"NtQueryObject", "NtQueryObject", <<"HANDLE", "OBJECT_INFORMATION_CLASS", "PVOID", "ULONG", "PULONG">>>>,
  <<"NtQueryOpenSubKeys", "NtQueryOpenSubKeys", <<"POBJECT_ATTRIBUTES", "PULONG">>>>,
  <<"NtQueryOpenSubKeysEx", "NtQueryOpenSubKeysEx", <<"POBJECT_ATTRIBUTES", "ULONG", "PVOID", "PULONG">>>>,
  <<"NtQueryPerformanceCounter", "NtQueryPerformanceCounter", <<"PLARGE_INTEGER", "PLARGE_INTEGER">>>>,
  <<"NtQueryPortInformationProcess", "NtQueryPortInformationProcess", <<>>>>,
  <<"NtQueryQuotaInformationFile", "NtQueryQuotaInformationFile", <<"HANDLE", "PIO_STATUS_BLOCK", "PVOID", "ULONG",
    "BOOLEAN", "PVOID", "ULONG", "PSID", "BOOLEAN">>>>,
  <<"NtQuerySection", "NtQuerySection", <<"HANDLE", "SECTION_INFORMATION_CLASS", "PVOID", "SIZE_T", "PSIZE_T">>>>>>

FromNtQuerySecurityAttributesToken == <<
  <<"NtQuerySecurityAttributesToken", "NtQuerySecurityAttributesToken", <<"HANDLE", "PCUNICODE_STRING", "ULONG",
    "PVOID", "ULONG", "PULONG">>>>,
  <<"NtQuerySecurityObject", "NtQuerySecurityObject", <<"HANDLE", "SECURITY_INFORMATION", "PSECURITY_DESCRIPTOR",
    "ULONG", "PULONG">>>>,
  <<"NtQuerySecurityPolicy", "NtQuerySecurityPolicy", <<"PCUNICODE_STRING", "PCUNICODE_STRING", "PCUNICODE_STRING",
    "SECURE_SETTING_VALUE_TYPE", "PVOID", "PULONG">>>>,
  <<"NtQuerySemaphore", "NtQuerySemaphore", <<"HANDLE", "SEMAPHORE_INFORMATION_CLASS", "PVOID", "ULONG", "PULONG">>>>,
  <<"NtQuerySymbolicLinkObject", "NtQuerySymbolicLinkObject", <<"HANDLE", "PUNICODE_STRING", "PULONG">>>>,
  <<"NtQuerySystemEnvironmentValue", "NtQuerySystemEnvironmentValue", <<"PCUNICODE_STRING", "PWSTR", "USHORT",
    "PUSHORT">>>>>>

FromNtQuerySystemEnvironmentValueEx == <<
  <<"NtQuerySystemEnvironmentValueEx", "NtQuerySystemEnvironmentValueEx", <<"PCUNICODE_STRING", "PCGUID", "PVOID",
    "PULONG", "PULONG">>>>,
  <<"NtQuerySystemInformation", "NtQuerySystemInformation", <<"SYSTEM_INFORMATION_CLASS", "PVOID", "ULONG",
    "PULONG">>>>,
  <<"NtQuerySystemInformationEx", "NtQuerySystemInformationEx", <<"SYSTEM_INFORMATION_CLASS", "PVOID", "ULONG",
    "PVOID", "ULONG", "PULONG">>>>,
  <<"NtQuerySystemTime", "NtQuerySystemTime", <<"PLARGE_INTEGER">>>>,
  <<"NtQueryTimer", "NtQueryTimer", <<"HANDLE", "TIMER_INFORMATION_CLASS", "PVOID", "ULONG", "PULONG">>>>,
  <<"NtQueryTimerResolution", "NtQueryTimerResolution", <<"PULONG", "PULONG", "PULONG">>>>>>

FromNtQueryValueKey == <<
  <<"NtQueryValueKey", "NtQueryValueKey", <<"HANDLE", "PCUNICODE_STRING", "KEY_VALUE_INFORMATION_CLASS", "PVOID",
    "ULONG", "PULONG">>>>,
  <<"NtQueryVirtualMemory", "NtQueryVirtualMemory", <<"HANDLE", "PVOID", "MEMORY_INFORMATION_CLASS", "PVOID",
    "SIZE_T", "PSIZE_T">>>>,
  <<"NtQueryVolumeInformationFile", "NtQueryVolumeInformationFile", <<"HANDLE", "PIO_STATUS_BLOCK", "PVOID", "ULONG",
    "FSINFOCLASS">>>>,
  <<"NtQueryWnfStateData", "NtQueryWnfStateData", <<"PCWNF_STATE_NAME", "PCWNF_TYPE_ID", "PCSID", "PWNF_CHANGE_STAMP",
    "PVOID", "PULONG">>>>,
  <<"NtQueryWnfStateNameInformation", "NtQueryWnfStateNameInformation", <<"PCWNF_STATE_NAME",
    "WNF_STATE_NAME_INFORMATION", "PCSID", "PVOID", "ULONG">>>>,
  <<"NtQueueApcThread", "NtQueueApcThread", <<"HANDLE", "PPS_APC_ROUTINE", "PVOID", "PVOID", "PVOID">>>>>>

FromNtQueueApcThreadEx == <<
  <<"NtQueueApcThreadEx", "NtQueueApcThreadEx", <<"HANDLE", "HANDLE", "PPS_APC_ROUTINE", "PVOID", "PVOID",
    "PVOID">>>>,
  <<"NtQueueApcThreadEx2", "NtQueueApcThreadEx2", <<"HANDLE", "HANDLE", "ULONG", "PPS_APC_ROUTINE", "PVOID", "PVOID",
    "PVOID">>>>,
  <<"NtRaiseException", "NtRaiseException", <<"PEXCEPTION_RECORD", "PCONTEXT", "BOOLEAN">>>>,
  <<"NtRaiseHardError", "NtRaiseHardError", <<"NTSTATUS", "ULONG", "ULONG", "PULONG_PTR", "ULONG", "PULONG">>>>,
  <<"NtReadFile", "NtReadFile", <<"HANDLE", "HANDLE", "PIO_APC_ROUTINE", "PVOID", "PIO_STATUS_BLOCK", "PVOID",
    "ULONG", "PLARGE_INTEGER", "PULONG">>>>>>

FromNtReadFileScatter == <<
  <<"NtReadFileScatter", "NtReadFileScatter", <<"HANDLE", "HANDLE", "PIO_APC_ROUTINE", "PVOID", "PIO_STATUS_BLOCK",
    "PFILE_SEGMENT_ELEMENT", "ULONG", "PLARGE_INTEGER", "PULONG">>>>,
  <<"NtReadOnlyEnlistment", "NtReadOnlyEnlistment", <<"HANDLE", "PLARGE_INTEGER">>>>,
  <<"NtReadRequestData", "NtReadRequestData", <<"HANDLE", "PPORT_MESSAGE", "ULONG", "PVOID", "SIZE_T", "PSIZE_T">>>>,
  <<"NtReadVirtualMemory", "NtReadVirtualMemory", <<"HANDLE", "PVOID", "PVOID", "SIZE_T", "PSIZE_T">>>>,
  <<"NtReadVirtualMemoryEx", "NtReadVirtualMemoryEx", <<"HANDLE", "PVOID", "PVOID", "SIZE_T", "PSIZE_T", "ULONG">>>>,
  <<"NtRecoverEnlistment", "NtRecoverEnlistment", <<"HANDLE", "PVOID">>>>>>

FromNtRecoverResourceManager == <<
  <<"NtRecoverResourceManager", "NtRecoverResourceManager", <<"HANDLE">>>>,
  <<"NtRecoverTransactionManager", "NtRecoverTransactionManager", <<"HANDLE">>>>,
  <<"NtRegisterProtocolAddressInformation", "NtRegisterProtocolAddressInformation", <<"HANDLE", "PCRM_PROTOCOL_ID",
    "ULONG", "PVOID", "ULONG">>>>,
  <<"NtRegisterThreadTerminatePort", "NtRegisterThreadTerminatePort", <<"HANDLE">>>>,
  <<"NtReleaseKeyedEvent", "NtReleaseKeyedEvent", <<"HANDLE", "PVOID", "BOOLEAN", "PLARGE_INTEGER">>>>,
  <<"NtReleaseMutant", "NtReleaseMutant", <<"HANDLE", "PLONG">>>>,
  <<"NtReleaseSemaphore", "NtReleaseSemaphore", <<"HANDLE", "LONG", "PLONG">>>>,
  <<"NtReleaseWorkerFactoryWorker", "NtReleaseWorkerFactoryWorker", <<"HANDLE">>>>>>

FromNtRemoveIoCompletion == <<
  <<"NtRemoveIoCompletion", "NtRemoveIoCompletion", <<"HANDLE", "PVOID*", "PVOID*", "PIO_STATUS_BLOCK",
    "PLARGE_INTEGER">>>>,
  <<"NtRemoveIoCompletionEx", "NtRemoveIoCompletionEx", <<"HANDLE", "PFILE_IO_COMPLETION_INFORMATION", "ULONG",
    "PULONG", "PLARGE_INTEGER", "BOOLEAN">>>>,
  <<"NtRemoveProcessDebug", "NtRemoveProcessDebug", <<"HANDLE", "HANDLE">>>>,
  <<"NtRenameKey", "NtRenameKey", <<"HANDLE", "PCUNICODE_STRING">>>>,
  <<"NtRenameTransactionManager", "NtRenameTransactionManager", <<"PCUNICODE_STRING", "LPGUID">>>>,
  <<"NtReplaceKey", "NtReplaceKey", <<"POBJECT_ATTRIBUTES", "HANDLE", "POBJECT_ATTRIBUTES">>>>,
  <<"NtReplacePartitionUnit", "NtReplacePartitionUnit", <<"PCUNICODE_STRING", "PCUNICODE_STRING", "ULONG">>>>>>

FromNtReplyPort == <<
  <<"NtReplyPort", "NtReplyPort", <<"HANDLE", "PPORT_MESSAGE">>>>,
  <<"NtReplyWaitReceivePort", "NtReplyWaitReceivePort", <<"HANDLE", "PVOID*", "PPORT_MESSAGE", "PPORT_MESSAGE">>>>,
  <<"NtReplyWaitReceivePortEx", "NtReplyWaitReceivePortEx", <<"HANDLE", "PVOID*", "PPORT_MESSAGE", "PPORT_MESSAGE",
    "PLARGE_INTEGER">>>>,
  <<"NtReplyWaitReplyPort", "NtReplyWaitReplyPort", <<"HANDLE", "PPORT_MESSAGE">>>>,
  <<"NtRequestPort", "NtRequestPort", <<"HANDLE", "PPORT_MESSAGE">>>>,
  <<"NtRequestWaitReplyPort", "NtRequestWaitReplyPort", <<"HANDLE", "PPORT_MESSAGE", "PPORT_MESSAGE">>>>,
  <<"NtResetEvent", "NtResetEvent", <<"HANDLE", "PLONG">>>>,
  <<"NtResetWriteWatch", "NtResetWriteWatch", <<"HANDLE", "PVOID", "SIZE_T">>>>>>

FromNtRestoreKey == <<
  <<"NtRestoreKey", "NtRestoreKey", <<"HANDLE", "HANDLE", "ULONG">>>>,
  <<"NtResumeProcess", "NtResumeProcess", <<"HANDLE">>>>,
  <<"NtResumeThread", "NtResumeThread", <<"HANDLE", "PULONG">>>>,
  <<"NtRevertContainerImpersonation", "NtRevertContainerImpersonation", <<>>>>,
  <<"NtRollbackComplete", "NtRollbackComplete", <<"HANDLE", "PLARGE_INTEGER">>>>,
  <<"NtRollbackEnlistment", "NtRollbackEnlistment", <<"HANDLE", "PLARGE_INTEGER">>>>,
  <<"NtRollbackRegistryTransaction", "NtRollbackRegistryTransaction", <<"HANDLE", "ULONG">>>>,
  <<"NtRollbackTransaction", "NtRollbackTransaction", <<"HANDLE", "BOOLEAN">>>>,
  <<"NtRollforwardTransactionManager", "NtRollforwardTransactionManager", <<"HANDLE", "PLARGE_INTEGER">>>>>>

FromNtSaveKey == <<
  <<"NtSaveKey", "NtSaveKey", <<"HANDLE", "HANDLE">>>>,
  <<"NtSaveKeyEx", "NtSaveKeyEx", <<"HANDLE", "HANDLE", "ULONG">>>>,
  <<"NtSaveMergedKeys", "NtSaveMergedKeys", <<"HANDLE", "HANDLE", "HANDLE">>>>,
  <<"NtSecureConnectPort", "NtSecureConnectPort", <<"PHANDLE", "PCUNICODE_STRING", "PSECURITY_QUALITY_OF_SERVICE",
    "PPORT_VIEW", "PSID", "PREMOTE_PORT_VIEW", "PULONG", "PVOID", "PULONG">>>>,
  <<"NtSerializeBoot", "NtSerializeBoot", <<>>>>,
  <<"NtSetBootEntryOrder", "NtSetBootEntryOrder", <<"PULONG", "ULONG">>>>,
  <<"NtSetBootOptions", "NtSetBootOptions", <<"PBOOT_OPTIONS", "ULONG">>>>>>

FromNtSetCachedSigningLevel == <<
  <<"NtSetCachedSigningLevel", "NtSetCachedSigningLevel", <<"ULONG", "SE_SIGNING_LEVEL", "PHANDLE", "ULONG",
    "HANDLE">>>>,
  <<"NtSetCachedSigningLevel2", "NtSetCachedSigningLevel2", <<"ULONG", "SE_SIGNING_LEVEL", "PHANDLE", "ULONG",
    "HANDLE", "SE_SET_FILE_CACHE_INFORMATION*">>>>,
  <<"NtSetContextThread", "NtSetContextThread", <<"HANDLE", "PCONTEXT">>>>,
  <<"NtSetDebugFilterState", "NtSetDebugFilterState", <<"ULONG", "ULONG", "BOOLEAN">>>>,
  <<"NtSetDefaultHardErrorPort", "NtSetDefaultHardErrorPort", <<"HANDLE">>>>,
  <<"NtSetDefaultLocale", "NtSetDefaultLocale", <<"BOOLEAN", "LCID">>>>,
  <<"NtSetDefaultUILanguage", "NtSetDefaultUILanguage", <<"LANGID">>>>,
  <<"NtSetDriverEntryOrder", "NtSetDriverEntryOrder", <<"PULONG", "ULONG">>>>>>

FromNtSetEaFile == <<
  <<"NtSetEaFile", "NtSetEaFile", <<"HANDLE", "PIO_STATUS_BLOCK", "PVOID", "ULONG">>>>,
  <<"NtSetEvent", "NtSetEvent", <<"HANDLE", "PLONG">>>>,
  <<"NtSetEventBoostPriority", "NtSetEventBoostPriority", <<"HANDLE">>>>,
  <<"NtSetEventEx", "NtSetEventEx", <<"HANDLE", "PRTL_SRWLOCK">>>>,
  <<"NtSetHighEventPair", "NtSetHighEventPair", <<"HANDLE">>>>,
  <<"NtSetHighWaitLowEventPair", "NtSetHighWaitLowEventPair", <<"HANDLE">>>>,
  <<"NtSetIRTimer", "NtSetIRTimer", <<"HANDLE", "PLARGE_INTEGER">>>>,
  <<"NtSetInformationCpuPartition", "NtSetInformationCpuPartition", <<"HANDLE", "ULONG", "PVOID", "ULONG", "PVOID",
    "ULONG", "ULONG">>>>>>

FromNtSetInformationDebugObject == <<
  <<"NtSetInformationDebugObject", "NtSetInformationDebugObject", <<"HANDLE", "DEBUGOBJECTINFOCLASS", "PVOID",
    "ULONG", "PULONG">>>>,
  <<"NtSetInformationEnlistment", "NtSetInformationEnlistment", <<"HANDLE", "ENLISTMENT_INFORMATION_CLASS", "PVOID",
    "ULONG">>>>,
  <<"NtSetInformationFile", "NtSetInformationFile", <<"HANDLE", "PIO_STATUS_BLOCK", "PVOID", "ULONG",
    "FILE_INFORMATION_CLASS">>>>,
  <<"NtSetInformationIoRing", "NtSetInformationIoRing", <<"HANDLE", "ULONG", "ULONG", "PVOID">>>>,
  <<"NtSetInformationJobObject", "NtSetInformationJobObject", <<"HANDLE", "JOBOBJECTINFOCLASS", "PVOID", "ULONG">>>>,
  <<"NtSetInformationKey", "NtSetInformationKey", <<"HANDLE", "KEY_SET_INFORMATION_CLASS", "PVOID", "ULONG">>>>>>

FromNtSetInformationObject == <<
  <<"NtSetInformationObject", "NtSetInformationObject", <<"HANDLE", "OBJECT_INFORMATION_CLASS", "PVOID", "ULONG">>>>,
  <<"NtSetInformationProcess", "NtSetInformationProcess", <<"HANDLE", "PROCESSINFOCLASS", "PVOID", "ULONG">>>>,
  <<"NtSetInformationResourceManager", "NtSetInformationResourceManager", <<"HANDLE",
    "RESOURCEMANAGER_INFORMATION_CLASS", "PVOID", "ULONG">>>>,
  <<"NtSetInformationSymbolicLink", "NtSetInformationSymbolicLink", <<"HANDLE", "SYMBOLIC_LINK_INFO_CLASS", "PVOID",
    "ULONG">>>>,
  <<"NtSetInformationThread", "NtSetInformationThread", <<"HANDLE", "THREADINFOCLASS", "PVOID", "ULONG">>>>,
  <<"NtSetInformationToken", "NtSetInformationToken", <<"HANDLE", "TOKEN_INFORMATION_CLASS", "PVOID", "ULONG">>>>,
  <<"NtSetInformationTransaction", "NtSetInformationTransaction", <<"HANDLE", "TRANSACTION_INFORMATION_CLASS",
    "PVOID", "ULONG">>>>>>

FromNtSetInformationTransactionManager == <<
  <<"NtSetInformationTransactionManager", "NtSetInformationTransactionManager", <<"HANDLE",
    "TRANSACTIONMANAGER_INFORMATION_CLASS", "PVOID", "ULONG">>>>,
  <<"NtSetInformationVirtualMemory", "NtSetInformationVirtualMemory", <<"HANDLE", "VIRTUAL_MEMORY_INFORMATION_CLASS",
    "SIZE_T", "PMEMORY_RANGE_ENTRY", "PVOID", "ULONG">>>>,
  <<"NtSetInformationWorkerFactory", "NtSetInformationWorkerFactory", <<"HANDLE", "WORKERFACTORYINFOCLASS", "PVOID",
    "ULONG">>>>,
  <<"NtSetIntervalProfile", "NtSetIntervalProfile", <<"ULONG", "KPROFILE_SOURCE">>>>,
  <<"NtSetIoCompletion", "NtSetIoCompletion", <<"HANDLE", "PVOID", "PVOID", "NTSTATUS", "ULONG_PTR">>>>,
  <<"NtSetIoCompletionEx", "NtSetIoCompletionEx", <<"HANDLE", "HANDLE", "PVOID", "PVOID", "NTSTATUS",
    "ULONG_PTR">>>>>>

FromNtSetLdtEntries == <<
  <<"NtSetLdtEntries", "NtSetLdtEntries", <<"ULONG", "ULONG", "ULONG", "ULONG", "ULONG", "ULONG">>>>,
  <<"NtSetLowEventPair", "NtSetLowEventPair", <<"HANDLE">>>>,
  <<"NtSetLowWaitHighEventPair", "NtSetLowWaitHighEventPair", <<"HANDLE">>>>,
  <<"NtSetQuotaInformationFile", "NtSetQuotaInformationFile", <<"HANDLE", "PIO_STATUS_BLOCK", "PVOID", "ULONG">>>>,
  <<"NtSetSecurityObject", "NtSetSecurityObject", <<"HANDLE", "SECURITY_INFORMATION", "PSECURITY_DESCRIPTOR">>>>,
  <<"NtSetSystemEnvironmentValue", "NtSetSystemEnvironmentValue", <<"PCUNICODE_STRING", "PCUNICODE_STRING">>>>,
  <<"NtSetSystemEnvironmentValueEx", "NtSetSystemEnvironmentValueEx", <<"PCUNICODE_STRING", "PCGUID", "PVOID",
    "ULONG", "ULONG">>>>>>

FromNtSetSystemInformation == <<
  <<"NtSetSystemInformation", "NtSetSystemInformation", <<"SYSTEM_INFORMATION_CLASS", "PVOID", "ULONG">>>>,
  <<"NtSetSystemPowerState", "NtSetSystemPowerState", <<"POWER_ACTION", "SYSTEM_POWER_STATE", "ULONG">>>>,
  <<"NtSetSystemTime", "NtSetSystemTime", <<"PLARGE_INTEGER", "PLARGE_INTEGER">>>>,
  <<"NtSetThreadExecutionState", "NtSetThreadExecutionState", <<"EXECUTION_STATE", "EXECUTION_STATE*">>>>,
  <<"NtSetTimer", "NtSetTimer", <<"HANDLE", "PLARGE_INTEGER", "PTIMER_APC_ROUTINE", "PVOID", "BOOLEAN", "LONG",
    "PBOOLEAN">>>>,
  <<"NtSetTimer2", "NtSetTimer2", <<"HANDLE", "PLARGE_INTEGER", "PLARGE_INTEGER", "PT2_SET_PARAMETERS">>>>,
  <<"NtSetTimerEx", "NtSetTimerEx", <<"HANDLE", "TIMER_SET_INFORMATION_CLASS", "PVOID", "ULONG">>>>>>

FromNtSetTimerResolution == <<
  <<"NtSetTimerResolution", "NtSetTimerResolution", <<"ULONG", "BOOLEAN", "PULONG">>>>,
  <<"NtSetUuidSeed", "NtSetUuidSeed", <<"PCHAR">>>>,
  <<"NtSetValueKey", "NtSetValueKey", <<"HANDLE", "PCUNICODE_STRING", "ULONG", "ULONG", "PVOID", "ULONG">>>>,
  <<"NtSetVolumeInformationFile", "NtSetVolumeInformationFile", <<"HANDLE", "PIO_STATUS_BLOCK", "PVOID", "ULONG",
    "FSINFOCLASS">>>>,
  <<"NtSetWnfProcessNotificationEvent", "NtSetWnfProcessNotificationEvent", <<"HANDLE">>>>,
  <<"NtShutdownSystem", "NtShutdownSystem", <<"SHUTDOWN_ACTION">>>>,
  <<"NtShutdownWorkerFactory", "NtShutdownWorkerFactory", <<"HANDLE", "volatile LONG*">>>>,
  <<"NtSignalAndWaitForSingleObject", "NtSignalAndWaitForSingleObject", <<"HANDLE", "HANDLE", "BOOLEAN",
    "PLARGE_INTEGER">>>>>>

FromNtSinglePhaseReject == <<
  <<"NtSinglePhaseReject", "NtSinglePhaseReject", <<"HANDLE", "PLARGE_INTEGER">>>>,
  <<"NtStartProfile", "NtStartProfile", <<"HANDLE">>>>,
  <<"NtStopProfile", "NtStopProfile", <<"HANDLE">>>>,
  <<"NtSubmitIoRing", "NtSubmitIoRing", <<"HANDLE", "ULONG", "ULONG", "PLARGE_INTEGER">>>>,
  <<"NtSubscribeWnfStateChange", "NtSubscribeWnfStateChange", <<"PCWNF_STATE_NAME", "WNF_CHANGE_STAMP", "ULONG",
    "PULONG64">>>>,
  <<"NtSuspendProcess", "NtSuspendProcess", <<"HANDLE">>>>,
  <<"NtSuspendThread", "NtSuspendThread", <<"HANDLE", "PULONG">>>>,
  <<"NtSystemDebugControl", "NtSystemDebugControl", <<"SYSDBG_COMMAND", "PVOID", "ULONG", "PVOID", "ULONG",
    "PULONG">>>>>>

FromNtTerminateEnclave == <<
  <<"NtTerminateEnclave", "NtTerminateEnclave", <<"PVOID", "ULONG">>>>,
  <<"NtTerminateJobObject", "NtTerminateJobObject", <<"HANDLE", "NTSTATUS">>>>,
  <<"NtTerminateProcess", "NtTerminateProcess", <<"HANDLE", "NTSTATUS">>>>,
  <<"NtTerminateThread", "NtTerminateThread", <<"HANDLE", "NTSTATUS">>>>,
  <<"NtTestAlert", "NtTestAlert", <<>>>>,
  <<"NtThawRegistry", "NtThawRegistry", <<>>>>,
  <<"NtThawTransactions", "NtThawTransactions", <<>>>>,
  <<"NtTraceControl", "NtTraceControl", <<"ETWTRACECONTROLCODE", "PVOID", "ULONG", "PVOID", "ULONG", "PULONG">>>>,
  <<"NtTraceEvent", "NtTraceEvent", <<"HANDLE", "ULONG", "ULONG", "PVOID">>>>>>

FromNtTranslateFilePath == <<
  <<"NtTranslateFilePath", "NtTranslateFilePath", <<"PFILE_PATH", "ULONG", "PFILE_PATH", "PULONG">>>>,
  <<"NtUmsThreadYield", "NtUmsThreadYield", <<"PVOID">>>>,
  <<"NtUnloadDriver", "NtUnloadDriver", <<"PCUNICODE_STRING">>>>,
  <<"NtUnloadKey", "NtUnloadKey", <<"POBJECT_ATTRIBUTES">>>>,
  <<"NtUnloadKey2", "NtUnloadKey2", <<"POBJECT_ATTRIBUTES", "ULONG">>>>,
  <<"NtUnloadKeyEx", "NtUnloadKeyEx", <<"POBJECT_ATTRIBUTES", "HANDLE">>>>,
  <<"NtUnlockFile", "NtUnlockFile", <<"HANDLE", "PIO_STATUS_BLOCK", "PLARGE_INTEGER", "PLARGE_INTEGER", "ULONG">>>>,
  <<"NtUnlockVirtualMemory", "NtUnlockVirtualMemory", <<"HANDLE", "PVOID*", "PSIZE_T", "ULONG">>>>>>

FromNtUnmapViewOfSection == <<
  <<"NtUnmapViewOfSection", "NtUnmapViewOfSection", <<"HANDLE", "PVOID">>>>,
  <<"NtUnmapViewOfSectionEx", "NtUnmapViewOfSectionEx", <<"HANDLE", "PVOID", "ULONG">>>>,
  <<"NtUnsubscribeWnfStateChange", "NtUnsubscribeWnfStateChange", <<"PCWNF_STATE_NAME">>>>,
  <<"NtUpdateWnfStateData", "NtUpdateWnfStateData", <<"PCWNF_STATE_NAME", "const VOID*", "ULONG", "PCWNF_TYPE_ID",
    "PCSID", "WNF_CHANGE_STAMP", "LOGICAL">>>>,
  <<"NtUserAllowForegroundActivation", "NtUserAllowForegroundActivation", <<>>>>,
  <<"NtUserAllowSetForegroundWindow", "NtUserAllowSetForegroundWindow", <<"ULONG">>>>,
  <<"NtUserArrangeIconicWindows", "NtUserArrangeIconicWindows", <<"HWND">>>>,
  <<"NtUserAttachThreadInput", "NtUserAttachThreadInput", <<"ULONG", "ULONG", "BOOL">>>>>>

FromNtUserBeginDeferWindowPos == <<
  <<"NtUserBeginDeferWindowPos", "NtUserBeginDeferWindowPos", <<"ULONG">>>>,
  <<"NtUserBeginPaint", "NtUserBeginPaint", <<"HWND", "LPPAINTSTRUCT">>>>,
  <<"NtUserBlockInput", "NtUserBlockInput", <<"BOOL">>>>,
  <<"NtUserBroadcastImeShowStatusChange", "NtUserBroadcastImeShowStatusChange", <<"HWND", "LOGICAL">>>>,
  <<"NtUserBuildHwndList", "NtUserBuildHwndList", <<"HANDLE", "HWND", "BOOL", "BOOL", "ULONG", "ULONG", "PVOID",
    "PULONG">>>>,
  <<"NtUserBuildNameList", "NtUserBuildNameList", <<"HWINSTA", "ULONG", "PVOID", "PULONG">>>>,
  <<"NtUserBuildPropList", "NtUserBuildPropList", <<"HWINSTA", "ULONG", "PVOID", "PULONG">>>>>>

FromNtUserCalculatePopupWindowPosition == <<
  <<"NtUserCalculatePopupWindowPosition", "NtUserCalculatePopupWindowPosition", <<"const POINT*", "const SIZE*",
    "ULONG", "RECT*", "RECT*">>>>,
  <<"NtUserCallHwnd", "NtUserCallHwnd", <<"HWND", "ULONG">>>>,
  <<"NtUserCallHwndLock", "NtUserCallHwndLock", <<"HWND", "ULONG">>>>,
  <<"NtUserCallHwndLockSafe", "NtUserCallHwndLockSafe", <<"HWND", "ULONG">>>>,
  <<"NtUserCallHwndOpt", "NtUserCallHwndOpt", <<"HWND", "ULONG">>>>,
  <<"NtUserCallHwndParam", "NtUserCallHwndParam", <<"HWND", "ULONG_PTR", "ULONG">>>>,
  <<"NtUserCallHwndParamLock", "NtUserCallHwndParamLock", <<"HWND", "ULONG_PTR", "ULONG">>>>,
  <<"NtUserCallHwndParamLockSafe", "NtUserCallHwndParamLockSafe", <<"HWND", "ULONG_PTR", "ULONG">>>>>>

FromNtUserCallHwndSafe == <<
  <<"NtUserCallHwndSafe", "NtUserCallHwndSafe", <<"HWND", "ULONG">>>>,
  <<"NtUserCallNoParam", "NtUserCallNoParam", <<"ULONG">>>>,
  <<"NtUserCallOneParam", "NtUserCallOneParam", <<"ULONG_PTR", "ULONG">>>>,
  <<"NtUserCallTwoParam", "NtUserCallTwoParam", <<"ULONG_PTR", "ULONG_PTR", "ULONG">>>>,
  <<"NtUserCanCurrentThreadChangeForeground", "NtUserCanCurrentThreadChangeForeground", <<>>>>,
  <<"NtUserCancelQueueEventCompletionPacket", "NtUserCancelQueueEventCompletionPacket", <<>>>>,
  <<"NtUserChangeWindowMessageFilter", "NtUserChangeWindowMessageFilter", <<"ULONG", "ULONG">>>>,
  <<"NtUserCheckAccessForIntegrityLevel", "NtUserCheckAccessForIntegrityLevel", <<"ULONG", "ULONG", "PBOOLEAN">>>>,
  <<"NtUserCheckImeShowStatusInThread", "NtUserCheckImeShowStatusInThread", <<"HWND">>>>>>

FromNtUserCheckProcessForClipboardAccess == <<
  <<"NtUserCheckProcessForClipboardAccess", "NtUserCheckProcessForClipboardAccess", <<"ULONG", "PULONG">>>>,
  <<"NtUserChildWindowFromPointEx", "NtUserChildWindowFromPointEx", <<"HWND", "POINT", "ULONG">>>>,
  <<"NtUserCitSetInfo", "NtUserCitSetInfo", <<"ULONG_PTR", "ULONG_PTR">>>>,
  <<"NtUserClearWakeMask", "NtUserClearWakeMask", <<>>>>,
  <<"NtUserClearWindowState", "NtUserClearWindowState", <<"HWND", "ULONG">>>>,
  <<"NtUserClipCursor", "NtUserClipCursor", <<"const RECT*">>>>,
  <<"NtUserCloseDesktop", "NtUserCloseDesktop", <<"HDESK">>>>,
  <<"NtUserCloseWindowStation", "NtUserCloseWindowStation", <<"HWINSTA">>>>,
  <<"NtUserConsoleControl", "NtUserConsoleControl", <<"CONSOLECONTROL", "PVOID", "ULONG">>>>>>

FromNtUserCopyAcceleratorTable == <<
  <<"NtUserCopyAcceleratorTable", "NtUserCopyAcceleratorTable", <<"HACCEL", "LPACCEL", "LONG">>>>,
  <<"NtUserCreateAcceleratorTable", "NtUserCreateAcceleratorTable", <<"LPACCEL", "LONG">>>>,
  <<"NtUserCreateMenu", "NtUserCreateMenu", <<>>>>,
  <<"NtUserCreatePopupMenu", "NtUserCreatePopupMenu", <<>>>>,
  <<"NtUserCreateSystemThreads", "NtUserCreateSystemThreads", <<>>>>,
  <<"NtUserCreateWindowStation", "NtUserCreateWindowStation", <<"POBJECT_ATTRIBUTES", "ACCESS_MASK", "HANDLE",
    "PVOID", "PVOID", "PVOID", "PCUNICODE_STRING", "ULONG">>>>,
  <<"NtUserCsDdeUninitialize", "NtUserCsDdeUninitialize", <<"HANDLE">>>>,
  <<"NtUserDWP_GetEnabledPopupOffset", "NtUserDWP_GetEnabledPopupOffset", <<"HWND">>>>,
  <<"NtUserDeferredDesktopRotation", "NtUserDeferredDesktopRotation", <<>>>>>>

FromNtUserDeleteMenu == <<
  <<"NtUserDeleteMenu", "NtUserDeleteMenu", <<"HMENU", "ULONG", "ULONG">>>>,
  <<"NtUserDeregisterShellHookWindow", "NtUserDeregisterShellHookWindow", <<"HWND">>>>,
  <<"NtUserDestroyCaret", "NtUserDestroyCaret", <<>>>>,
  <<"NtUserDestroyMenu", "NtUserDestroyMenu", <<"HMENU">>>>,
  <<"NtUserDestroyWindow", "NtUserDestroyWindow", <<"HWND">>>>,
  <<"NtUserDisableProcessWindowFiltering", "NtUserDisableProcessWindowFiltering", <<>>>>,
  <<"NtUserDisableProcessWindowsGhosting", "NtUserDisableProcessWindowsGhosting", <<>>>>,
  <<"NtUserDoInitMessagePumpHook", "NtUserDoInitMessagePumpHook", <<>>>>,
  <<"NtUserDoUninitMessagePumpHook", "NtUserDoUninitMessagePumpHook", <<>>>>,
  <<"NtUserDragDetect", "NtUserDragDetect", <<"HWND", "POINT">>>>>>

FromNtUserDragObject == <<
  <<"NtUserDragObject", "NtUserDragObject", <<"HWND", "HWND", "ULONG", "ULONG_PTR", "HCURSOR">>>>,
  <<"NtUserDrainThreadCoreMessagingCompletions", "NtUserDrainThreadCoreMessagingCompletions", <<>>>>,
  <<"NtUserDrawAnimatedRects", "NtUserDrawAnimatedRects", <<"HWND", "int", "const RECT*", "const RECT*">>>>,
  <<"NtUserDrawMenuBar", "NtUserDrawMenuBar", <<"HWND">>>>,
  <<"NtUserDwmLockScreenUpdates", "NtUserDwmLockScreenUpdates", <<"LOGICAL">>>>,
  <<"NtUserEnableModernAppWindowKeyboardIntercept", "NtUserEnableModernAppWindowKeyboardIntercept", <<"HWND",
    "LOGICAL">>>>,
  <<"NtUserEnableMouseInPointerForThread", "NtUserEnableMouseInPointerForThread", <<>>>>,
  <<"NtUserEnablePerMonitorMenuScaling", "NtUserEnablePerMonitorMenuScaling", <<>>>>,
  <<"NtUserEnableSessionForMMCSS", "NtUserEnableSessionForMMCSS", <<"LOGICAL">>>>>>

FromNtUserEnableShellWindowManagementBehavior == <<
  <<"NtUserEnableShellWindowManagementBehavior", "NtUserEnableShellWindowManagementBehavior", <<"ULONG_PTR",
    "ULONG_PTR">>>>,
  <<"NtUserEnableWindow", "NtUserEnableWindow", <<"HWND", "LOGICAL">>>>,
  <<"NtUserEndMenu", "NtUserEndMenu", <<>>>>,
  <<"NtUserEndPaint", "NtUserEndPaint", <<"HWND", "const PAINTSTRUCT*">>>>,
  <<"NtUserEnsureDpiDepSysMetCacheForPlateau", "NtUserEnsureDpiDepSysMetCacheForPlateau", <<"ULONG">>>>,
  <<"NtUserEnumClipboardFormats", "NtUserEnumClipboardFormats", <<"ULONG">>>>,
  <<"NtUserEnumDisplayMonitors", "NtUserEnumDisplayMonitors", <<"HDC", "LPCRECT", "MONITORENUMPROC", "LPARAM">>>>,
  <<"NtUserExcludeUpdateRgn", "NtUserExcludeUpdateRgn", <<"HDC", "HWND">>>>>>

FromNtUserFindWindowEx == <<
  <<"NtUserFindWindowEx", "NtUserFindWindowEx", <<"HWND", "HWND", "PCUNICODE_STRING", "PCUNICODE_STRING", "ULONG">>>>,
  <<"NtUserFlashWindowEx", "NtUserFlashWindowEx", <<"PFLASHWINFO">>>>,
  <<"NtUserForceEnableNumpadTranslation", "NtUserForceEnableNumpadTranslation", <<"LOGICAL">>>>,
  <<"NtUserGetAncestor", "NtUserGetAncestor", <<"HWND", "ULONG">>>>,
  <<"NtUserGetCaretBlinkTime", "NtUserGetCaretBlinkTime", <<>>>>,
  <<"NtUserGetCaretPos", "NtUserGetCaretPos", <<"LPPOINT">>>>,
  <<"NtUserGetClassIcoCur", "NtUserGetClassIcoCur", <<"HWND", "ULONG">>>>,
  <<"NtUserGetClassName", "NtUserGetClassName", <<"HWND", "BOOL", "PUNICODE_STRING">>>>,
  <<"NtUserGetClipCursor", "NtUserGetClipCursor", <<"LPRECT">>>>>>

FromNtUserGetComboBoxInfo == <<
  <<"NtUserGetComboBoxInfo", "NtUserGetComboBoxInfo", <<"HWND", "PCOMBOBOXINFO">>>>,
  <<"NtUserGetCurrentInputMessageSource", "NtUserGetCurrentInputMessageSource", <<"INPUT_MESSAGE_SOURCE*">>>>,
  <<"NtUserGetCursor", "NtUserGetCursor", <<>>>>,
  <<"NtUserGetCursorInfo", "NtUserGetCursorInfo", <<"PCURSORINFO">>>>,
  <<"NtUserGetCursorPos", "NtUserGetCursorPos", <<"PPOINT", "ULONG">>>>,
  <<"NtUserGetDCEx", "NtUserGetDCEx", <<"HWND", "HRGN", "ULONG">>>>,
  <<"NtUserGetDeviceChangeInfo", "NtUserGetDeviceChangeInfo", <<>>>>,
  <<"NtUserGetDisplayAutoRotationPreferences", "NtUserGetDisplayAutoRotationPreferences",
    <<"ORIENTATION_PREFERENCE*">>>>,
  <<"NtUserGetDoubleClickTime", "NtUserGetDoubleClickTime", <<>>>>,
  <<"NtUserGetForegroundWindow", "NtUserGetForegroundWindow", <<>>>>>>

FromNtUserGetGUIThreadInfo == <<
  <<"NtUserGetGUIThreadInfo", "NtUserGetGUIThreadInfo", <<"ULONG", "PGUITHREADINFO">>>>,
  <<"NtUserGetGuiResources", "NtUserGetGuiResources", <<"HANDLE", "ULONG">>>>,
  <<"NtUserGetIMEShowStatus", "NtUserGetIMEShowStatus", <<>>>>,
  <<"NtUserGetIconInfo", "NtUserGetIconInfo", <<"HICON", "PICONINFO", "PUNICODE_STRING", "PUNICODE_STRING", "PULONG",
    "LOGICAL">>>>,
  <<"NtUserGetIconSize", "NtUserGetIconSize", <<"HGDIOBJ", "LOGICAL", "PULONG", "PULONG">>>>,
  <<"NtUserGetInputDesktop", "NtUserGetInputDesktop", <<>>>>,
  <<"NtUserGetInputEvent", "NtUserGetInputEvent", <<"ULONG">>>>,
  <<"NtUserGetKeyboardType", "NtUserGetKeyboardType", <<"ULONG">>>>>>

FromNtUserGetLayeredWindowAttributes == <<
  <<"NtUserGetLayeredWindowAttributes", "NtUserGetLayeredWindowAttributes", <<"HWND", "COLORREF*", "PBYTE",
    "PULONG">>>>,
  <<"NtUserGetListBoxInfo", "NtUserGetListBoxInfo", <<"HWND">>>>,
  <<"NtUserGetMenuBarInfo", "NtUserGetMenuBarInfo", <<"HWND", "LONG", "LONG", "PMENUBARINFO">>>>,
  <<"NtUserGetMenuItemRect", "NtUserGetMenuItemRect", <<"HWND", "HMENU", "ULONG", "PRECT">>>>,
  <<"NtUserGetMessagePos", "NtUserGetMessagePos", <<>>>>,
  <<"NtUserGetModernAppWindow", "NtUserGetModernAppWindow", <<"HWND">>>>,
  <<"NtUserGetMouseMovePointsEx", "NtUserGetMouseMovePointsEx", <<"ULONG", "LPMOUSEMOVEPOINT", "LPMOUSEMOVEPOINT",
    "LONG", "ULONG">>>>,
  <<"NtUserGetObjectInformation", "NtUserGetObjectInformation", <<"HANDLE", "LONG", "PVOID", "ULONG", "PULONG">>>>>>

FromNtUserGetProcessDefaultLayout == <<
  <<"NtUserGetProcessDefaultLayout", "NtUserGetProcessDefaultLayout", <<"PULONG">>>>,
  <<"NtUserGetProcessUIContextInformation", "NtUserGetProcessUIContextInformation", <<"HANDLE",
    "PPROCESS_UICONTEXT_INFORMATION">>>>,
  <<"NtUserGetProcessWindowStation", "NtUserGetProcessWindowStation", <<>>>>,
  <<"NtUserGetProp", "NtUserGetProp", <<"HWND", "PCWSTR">>>>,
  <<"NtUserGetProp2", "NtUserGetProp2", <<"HWND", "PCUNICODE_STRING">>>>,
  <<"NtUserGetQueueIocp", "NtUserGetQueueIocp", <<>>>>,
  <<"NtUserGetRawInputData", "NtUserGetRawInputData", <<"HRAWINPUT", "ULONG", "PVOID", "PULONG", "ULONG">>>>,
  <<"NtUserGetRawInputDeviceList", "NtUserGetRawInputDeviceList", <<"PRAWINPUTDEVICELIST", "PULONG", "ULONG">>>>,
  <<"NtUserGetRegisteredRawInputDevices", "NtUserGetRegisteredRawInputDevices", <<"PRAWINPUTDEVICE", "PULONG",
    "ULONG">>>>>>

FromNtUserGetSendMessageReceiver == <<
  <<"NtUserGetSendMessageReceiver", "NtUserGetSendMessageReceiver", <<"ULONG">>>>,
  <<"NtUserGetSysMenuOffset", "NtUserGetSysMenuOffset", <<"HWND">>>>,
  <<"NtUserGetSystemMenu", "NtUserGetSystemMenu", <<"HWND", "BOOL">>>>,
  <<"NtUserGetThreadDesktop", "NtUserGetThreadDesktop", <<"ULONG">>>>,
  <<"NtUserGetThreadState", "NtUserGetThreadState", <<"ULONG">>>>,
  <<"NtUserGetTitleBarInfo", "NtUserGetTitleBarInfo", <<"HWND", "PTITLEBARINFO">>>>,
  <<"NtUserGetUnpredictedMessagePos", "NtUserGetUnpredictedMessagePos", <<>>>>,
  <<"NtUserGetWinStationInfo", "NtUserGetWinStationInfo", <<"PWSINFO">>>>,
  <<"NtUserGetWindowContextHelpId", "NtUserGetWindowContextHelpId", <<"HWND">>>>,
  <<"NtUserGetWindowDC", "NtUserGetWindowDC", <<"HWND">>>>>>

FromNtUserGetWindowPlacement == <<
  <<"NtUserGetWindowPlacement", "NtUserGetWindowPlacement", <<"HWND", "PWINDOWPLACEMENT">>>>,
  <<"NtUserGetWindowProcessHandle", "NtUserGetWindowProcessHandle", <<"HWND", "ACCESS_MASK">>>>,
  <<"NtUserGetWindowTrackInfoAsync", "NtUserGetWindowTrackInfoAsync", <<"HWND">>>>,
  <<"NtUserGhostWindowFromHungWindow", "NtUserGhostWindowFromHungWindow", <<"HWND">>>>,
  <<"NtUserHandleSystemThreadCreationFailure", "NtUserHandleSystemThreadCreationFailure", <<>>>>,
  <<"NtUserHideCursorNoCapture", "NtUserHideCursorNoCapture", <<>>>>,
  <<"NtUserHiliteMenuItem", "NtUserHiliteMenuItem", <<"HWND", "HMENU", "ULONG", "ULONG">>>>,
  <<"NtUserHungWindowFromGhostWindow", "NtUserHungWindowFromGhostWindow", <<"HWND">>>>,
  <<"NtUserInitAnsiOem", "NtUserInitAnsiOem", <<"PCHAR", "PCHAR">>>>>>

FromNtUserInitThreadCoreMessagingIocp == <<
  <<"NtUserInitThreadCoreMessagingIocp", "NtUserInitThreadCoreMessagingIocp", <<"HWND">>>>,
  <<"NtUserInternalGetWindowIcon", "NtUserInternalGetWindowIcon", <<"HWND", "ULONG">>>>,
  <<"NtUserInternalGetWindowText", "NtUserInternalGetWindowText", <<"HWND", "LPWSTR", "ULONG">>>>,
  <<"NtUserInvalidateRect", "NtUserInvalidateRect", <<"HWND", "const RECT*", "BOOL">>>>,
  <<"NtUserInvalidateRgn", "NtUserInvalidateRgn", <<"HWND", "HRGN", "BOOL">>>>,
  <<"NtUserIsQueueAttached", "NtUserIsQueueAttached", <<>>>>,
  <<"NtUserIsTouchWindow", "NtUserIsTouchWindow", <<"HWND", "PULONG">>>>,
  <<"NtUserKillSystemTimer", "NtUserKillSystemTimer", <<"HWND", "UINT_PTR">>>>>>

FromNtUserKillTimer == <<
  <<"NtUserKillTimer", "NtUserKillTimer", <<"HWND", "ULONG_PTR">>>>,
  <<"NtUserLW_LoadFonts", "NtUserLW_LoadFonts", <<"LOGICAL">>>>,
  <<"NtUserLoadCursorsAndIcons", "NtUserLoadCursorsAndIcons", <<>>>>,
  <<"NtUserLoadUserApiHook", "NtUserLoadUserApiHook", <<>>>>,
  <<"NtUserLockSetForegroundWindow", "NtUserLockSetForegroundWindow", <<"ULONG">>>>,
  <<"NtUserLockWorkStation", "NtUserLockWorkStation", <<>>>>,
  <<"NtUserLogicalToPhysicalPoint", "NtUserLogicalToPhysicalPoint", <<"HWND", "LPPOINT">>>>,
  <<"NtUserMapDesktopObject", "NtUserMapDesktopObject", <<"HANDLE">>>>,
  <<"NtUserMenuItemFromPoint", "NtUserMenuItemFromPoint", <<"HWND", "HMENU", "POINT">>>>,
  <<"NtUserMessageBeep", "NtUserMessageBeep", <<"ULONG">>>>>>

FromNtUserMoveWindow == <<
  <<"NtUserMoveWindow", "NtUserMoveWindow", <<"HWND", "LONG", "LONG", "LONG", "LONG", "BOOL">>>>,
  <<"NtUserNlsKbdSendIMENotification", "NtUserNlsKbdSendIMENotification", <<"ULONG", "ULONG">>>>,
  <<"NtUserNotifyOverlayWindow", "NtUserNotifyOverlayWindow", <<"HWND", "LOGICAL">>>>,
  <<"NtUserOpenDesktop", "NtUserOpenDesktop", <<"PCOBJECT_ATTRIBUTES", "ULONG", "ACCESS_MASK">>>>,
  <<"NtUserOpenInputDesktop", "NtUserOpenInputDesktop", <<"ULONG", "BOOL", "ACCESS_MASK">>>>,
  <<"NtUserOpenWindowStation", "NtUserOpenWindowStation", <<"POBJECT_ATTRIBUTES", "ACCESS_MASK">>>>,
  <<"NtUserPhysicalToLogicalPoint", "NtUserPhysicalToLogicalPoint", <<"HWND", "LPPOINT">>>>,
  <<"NtUserPlayEventSound", "NtUserPlayEventSound", <<"ULONG">>>>>>

FromNtUserPostQuitMessage == <<
  <<"NtUserPostQuitMessage", "NtUserPostQuitMessage", <<"LONG">>>>,
  <<"NtUserPrepareForLogoff", "NtUserPrepareForLogoff", <<>>>>,
  <<"NtUserPrintWindow", "NtUserPrintWindow", <<"HWND", "HDC", "ULONG">>>>,
  <<"NtUserQueryInformationThread", "NtUserQueryInformationThread", <<"HANDLE", "USERTHREADINFOCLASS", "PVOID",
    "PULONG">>>>,
  <<"NtUserQuerySendMessage", "NtUserQuerySendMessage", <<"PMSG">>>>,
  <<"NtUserQueryWindow", "NtUserQueryWindow", <<"HWND", "WINDOWINFOCLASS">>>>,
  <<"NtUserRaiseLowerShellWindow", "NtUserRaiseLowerShellWindow", <<"HWND", "BOOLEAN">>>>,
  <<"NtUserRealChildWindowFromPoint", "NtUserRealChildWindowFromPoint", <<"HWND", "POINT">>>>,
  <<"NtUserRealizePalette", "NtUserRealizePalette", <<"HDC">>>>>>

FromNtUserReassociateQueueEventCompletionPacket == <<
  <<"NtUserReassociateQueueEventCompletionPacket", "NtUserReassociateQueueEventCompletionPacket", <<>>>>,
  <<"NtUserRedrawFrame", "NtUserRedrawFrame", <<"HWND">>>>,
  <<"NtUserRedrawFrameAndHook", "NtUserRedrawFrameAndHook", <<"HWND">>>>,
  <<"NtUserRedrawTitle", "NtUserRedrawTitle", <<"HWND", "ULONG">>>>,
  <<"NtUserRedrawWindow", "NtUserRedrawWindow", <<"HWND", "const PRECT", "HRGN", "ULONG">>>>,
  <<"NtUserRegisterCloakedNotification", "NtUserRegisterCloakedNotification", <<"HWND", "BOOL">>>>,
  <<"NtUserRegisterGhostWindow", "NtUserRegisterGhostWindow", <<"HWND", "HWND">>>>,
  <<"NtUserRegisterHotKey", "NtUserRegisterHotKey", <<"HWND", "LONG", "ULONG", "ULONG">>>>,
  <<"NtUserRegisterLPK", "NtUserRegisterLPK", <<"ULONG">>>>>>

FromNtUserRegisterLogonProcess == <<
  <<"NtUserRegisterLogonProcess", "NtUserRegisterLogonProcess", <<"ULONG", "PLUID">>>>,
  <<"NtUserRegisterShellHookWindow", "NtUserRegisterShellHookWindow", <<"HWND">>>>,
  <<"NtUserRegisterSiblingFrostWindow", "NtUserRegisterSiblingFrostWindow", <<"HWND", "HWND">>>>,
  <<"NtUserRegisterSystemThread", "NtUserRegisterSystemThread", <<"ULONG">>>>,
  <<"NtUserRegisterUserHungAppHandlers", "NtUserRegisterUserHungAppHandlers", <<"PFNW32ET", "HANDLE">>>>,
  <<"NtUserRegisterWindowArrangementCallout", "NtUserRegisterWindowArrangementCallout", <<"HWND", "LOGICAL">>>>,
  <<"NtUserReleaseCapture", "NtUserReleaseCapture", <<>>>>,
  <<"NtUserRemoteConnectState", "NtUserRemoteConnectState", <<>>>>,
  <<"NtUserRemoteConsoleShadowStop", "NtUserRemoteConsoleShadowStop", <<>>>>,
  <<"NtUserRemoteDisconnect", "NtUserRemoteDisconnect", <<>>>>>>

FromNtUserRemoteNotify == <<
  <<"NtUserRemoteNotify", "NtUserRemoteNotify", <<"struct _DONOTIFYDATA*">>>>,
  <<"NtUserRemotePassthruDisable", "NtUserRemotePassthruDisable", <<>>>>,
  <<"NtUserRemotePassthruEnable", "NtUserRemotePassthruEnable", <<>>>>,
  <<"NtUserRemoteReconnect", "NtUserRemoteReconnect", <<"struct _DOCONNECTDATA*">>>>,
  <<"NtUserRemoteShadowCleanup", "NtUserRemoteShadowCleanup", <<"PVOID", "ULONG">>>>,
  <<"NtUserRemoteShadowSetup", "NtUserRemoteShadowSetup", <<>>>>,
  <<"NtUserRemoteShadowStart", "NtUserRemoteShadowStart", <<"PVOID", "ULONG">>>>,
  <<"NtUserRemoteShadowStop", "NtUserRemoteShadowStop", <<>>>>,
  <<"NtUserRemoteThinwireStats", "NtUserRemoteThinwireStats", <<"struct CACHE_STATISTICS*">>>>,
  <<"NtUserRemoveMenu", "NtUserRemoveMenu", <<"HMENU", "ULONG", "ULONG">>>>>>

FromNtUserRemoveQueueCompletion == <<
  <<"NtUserRemoveQueueCompletion", "NtUserRemoveQueueCompletion", <<>>>>,
  <<"NtUserReplyMessage", "NtUserReplyMessage", <<"LRESULT">>>>,
  <<"NtUserResetDblClk", "NtUserResetDblClk", <<>>>>,
  <<"NtUserScaleSystemMetricForDPIWithoutCache", "NtUserScaleSystemMetricForDPIWithoutCache", <<"ULONG", "ULONG">>>>,
  <<"NtUserScheduleDispatchNotification", "NtUserScheduleDispatchNotification", <<"HWND">>>>,
  <<"NtUserSendInput", "NtUserSendInput", <<"ULONG", "LPINPUT", "LONG">>>>,
  <<"NtUserSetActiveWindow", "NtUserSetActiveWindow", <<"HWND">>>>,
  <<"NtUserSetAdditionalForegroundBoostProcesses", "NtUserSetAdditionalForegroundBoostProcesses", <<"HWND">>>>,
  <<"NtUserSetAdditionalPowerThrottlingProcess", "NtUserSetAdditionalPowerThrottlingProcess", <<"HWND", "ULONG",
    "PHANDLE">>>>>>

FromNtUserSetCancelRotationDelayHintWindow == <<
  <<"NtUserSetCancelRotationDelayHintWindow", "NtUserSetCancelRotationDelayHintWindow", <<"HWND">>>>,
  <<"NtUserSetCapture", "NtUserSetCapture", <<"HWND">>>>,
  <<"NtUserSetCaretBlinkTime", "NtUserSetCaretBlinkTime", <<"ULONG">>>>,
  <<"NtUserSetCaretPos", "NtUserSetCaretPos", <<"LONG", "LONG">>>>,
  <<"NtUserSetChildWindowNoActivate", "NtUserSetChildWindowNoActivate", <<"HWND">>>>,
  <<"NtUserSetClassWord", "NtUserSetClassWord", <<"HWND", "LONG", "USHORT">>>>,
  <<"NtUserSetCursorPos", "NtUserSetCursorPos", <<"LONG", "LONG">>>>,
  <<"NtUserSetDialogPointer", "NtUserSetDialogPointer", <<"HWND", "ULONG_PTR">>>>,
  <<"NtUserSetDialogSystemMenu", "NtUserSetDialogSystemMenu", <<"HWND">>>>>>

FromNtUserSetDoubleClickTime == <<
  <<"NtUserSetDoubleClickTime", "NtUserSetDoubleClickTime", <<"ULONG">>>>,
  <<"NtUserSetFocus", "NtUserSetFocus", <<"HWND">>>>,
  <<"NtUserSetForegroundWindow", "NtUserSetForegroundWindow", <<"HWND">>>>,
  <<"NtUserSetForegroundWindowForApplication", "NtUserSetForegroundWindowForApplication", <<"HWND">>>>,
  <<"NtUserSetInformationThread", "NtUserSetInformationThread", <<"HANDLE", "USERTHREADINFOCLASS", "PVOID",
    "ULONG">>>>,
  <<"NtUserSetLayeredWindowAttributes", "NtUserSetLayeredWindowAttributes", <<"HWND", "COLORREF", "BYTE", "ULONG">>>>,
  <<"NtUserSetMessageExtraInfo", "NtUserSetMessageExtraInfo", <<"LPARAM">>>>,
  <<"NtUserSetModernAppWindow", "NtUserSetModernAppWindow", <<"HWND", "HWND">>>>,
  <<"NtUserSetMsgBox", "NtUserSetMsgBox", <<"HWND">>>>>>

FromNtUserSetProcessDefaultLayout == <<
  <<"NtUserSetProcessDefaultLayout", "NtUserSetProcessDefaultLayout", <<"ULONG">>>>,
  <<"NtUserSetProcessRestrictionExemption", "NtUserSetProcessRestrictionExemption", <<"BOOL">>>>,
  <<"NtUserSetProcessUIAccessZorder", "NtUserSetProcessUIAccessZorder", <<>>>>,
  <<"NtUserSetProcessWin32Capabilities", "NtUserSetProcessWin32Capabilities", <<"const USER_PROCESS_CAP_ENTRY*",
    "ULONG">>>>,
  <<"NtUserSetProcessWindowStation", "NtUserSetProcessWindowStation", <<"HWINSTA">>>>,
  <<"NtUserSetProgmanWindow", "NtUserSetProgmanWindow", <<"HWND">>>>,
  <<"NtUserSetShellChangeNotifyHWND", "NtUserSetShellChangeNotifyHWND", <<"HWND">>>>,
  <<"NtUserSetSysMenu", "NtUserSetSysMenu", <<"HWND">>>>,
  <<"NtUserSetTSFEventState", "NtUserSetTSFEventState", <<"ULONG">>>>,
  <<"NtUserSetTaskmanWindow", "NtUserSetTaskmanWindow", <<"HWND">>>>>>

FromNtUserSetThreadDesktop == <<
  <<"NtUserSetThreadDesktop", "NtUserSetThreadDesktop", <<"HDESK">>>>,
  <<"NtUserSetThreadQueueMergeSetting", "NtUserSetThreadQueueMergeSetting", <<"ULONG", "ULONG">>>>,
  <<"NtUserSetTimer", "NtUserSetTimer", <<"HWND", "ULONG_PTR", "ULONG", "TIMERPROC", "ULONG">>>>,
  <<"NtUserSetVisible", "NtUserSetVisible", <<"HWND", "ULONG">>>>,
  <<"NtUserSetWaitForQueueAttach", "NtUserSetWaitForQueueAttach", <<"LOGICAL">>>>,
  <<"NtUserSetWatermarkStrings", "NtUserSetWatermarkStrings", <<"PCUNICODE_STRING">>>>,
  <<"NtUserSetWindowContextHelpId", "NtUserSetWindowContextHelpId", <<"HWND", "ULONG">>>>,
  <<"NtUserSetWindowPlacement", "NtUserSetWindowPlacement", <<"HWND", "const WINDOWPLACEMENT*">>>>>>

FromNtUserSetWindowPos == <<
  <<"NtUserSetWindowPos", "NtUserSetWindowPos", <<"HWND", "HWND", "LONG", "LONG", "LONG", "LONG", "ULONG">>>>,
  <<"NtUserSetWindowState", "NtUserSetWindowState", <<"HWND", "ULONG">>>>,
  <<"NtUserSetWindowStationUser", "NtUserSetWindowStationUser", <<"HWINSTA", "PLUID", "PSID", "ULONG">>>>,
  <<"NtUserSetWindowWord", "NtUserSetWindowWord", <<"HWND", "LONG", "USHORT">>>>,
  <<"NtUserShellForegroundBoostProcess", "NtUserShellForegroundBoostProcess", <<"HANDLE", "HWND">>>>,
  <<"NtUserShowCursor", "NtUserShowCursor", <<"BOOL">>>>,
  <<"NtUserShowOwnedPopups", "NtUserShowOwnedPopups", <<"HWND", "LOGICAL">>>>,
  <<"NtUserShowStartGlass", "NtUserShowStartGlass", <<"ULONG">>>>>>

FromNtUserShowWindow == <<
  <<"NtUserShowWindow", "NtUserShowWindow", <<"HWND", "LONG">>>>,
  <<"NtUserShowWindowAsync", "NtUserShowWindowAsync", <<"HWND", "LONG">>>>,
  <<"NtUserShutdownBlockReasonQuery", "NtUserShutdownBlockReasonQuery", <<"HWND", "PWSTR", "PULONG">>>>,
  <<"NtUserShutdownReasonDestroy", "NtUserShutdownReasonDestroy", <<"HWND">>>>,
  <<"NtUserSwapMouseButton", "NtUserSwapMouseButton", <<"LOGICAL">>>>,
  <<"NtUserSwitchDesktop", "NtUserSwitchDesktop", <<"HDESK", "ULONG", "ULONG">>>>,
  <<"NtUserSwitchToThisWindow", "NtUserSwitchToThisWindow", <<"HWND", "LOGICAL">>>>,
  <<"NtUserTestForInteractiveUser", "NtUserTestForInteractiveUser", <<"PLUID">>>>,
  <<"NtUserThreadMessageQueueAttached", "NtUserThreadMessageQueueAttached", <<"ULONG">>>>>>

FromNtUserTrackMouseEvent == <<
  <<"NtUserTrackMouseEvent", "NtUserTrackMouseEvent", <<"LPTRACKMOUSEEVENT">>>>,
  <<"NtUserTrackPopupMenuEx", "NtUserTrackPopupMenuEx", <<"HMENU", "ULONG", "LONG", "LONG", "HWND", "LPTPMPARAMS">>>>,
  <<"NtUserUnhookWinEvent", "NtUserUnhookWinEvent", <<"HWINEVENTHOOK">>>>,
  <<"NtUserUnhookWindowsHook", "NtUserUnhookWindowsHook", <<"LONG", "HOOKPROC">>>>,
  <<"NtUserUnregisterHotKey", "NtUserUnregisterHotKey", <<"HWND", "LONG">>>>,
  <<"NtUserUpdateClientRect", "NtUserUpdateClientRect", <<"HWND">>>>,
  <<"NtUserUpdatePerUserImmEnabling", "NtUserUpdatePerUserImmEnabling", <<>>>>,
  <<"NtUserUpdateWindow", "NtUserUpdateWindow", <<"HWND">>>>,
  <<"NtUserUpdateWindows", "NtUserUpdateWindows", <<"HWND", "HRGN">>>>>>

FromNtUserUserHandleGrantAccess == <<
  <<"NtUserUserHandleGrantAccess", "NtUserUserHandleGrantAccess", <<"HANDLE", "HANDLE", "BOOL">>>>,
  <<"NtUserUserPowerCalloutWorker", "NtUserUserPowerCalloutWorker", <<>>>>,
  <<"NtUserValidateRect", "NtUserValidateRect", <<"HWND", "const RECT*">>>>,
  <<"NtUserValidateRgn", "NtUserValidateRgn", <<"HWND", "HRGN">>>>,
  <<"NtUserWOWModuleUnload", "NtUserWOWModuleUnload", <<"HANDLE">>>>,
  <<"NtUserWakeRITForShutdown", "NtUserWakeRITForShutdown", <<>>>>,
  <<"NtUserWindowFromDC", "NtUserWindowFromDC", <<"HDC">>>>,
  <<"NtUserWindowFromPhysicalPoint", "NtUserWindowFromPhysicalPoint", <<"POINT">>>>,
  <<"NtUserWindowFromPoint", "NtUserWindowFromPoint", <<"POINT">>>>,
  <<"NtUserZapActiveAndFocus", "NtUserZapActiveAndFocus", <<>>>>>>

FromNtVdmControl == <<
  <<"NtVdmControl", "NtVdmControl", <<"VDMSERVICECLASS", "PVOID">>>>,
  <<"NtWaitForAlertByThreadId", "NtWaitForAlertByThreadId", <<"PVOID", "PLARGE_INTEGER">>>>,
  <<"NtWaitForDebugEvent", "NtWaitForDebugEvent", <<"HANDLE", "BOOLEAN", "PLARGE_INTEGER",
    "PDBGUI_WAIT_STATE_CHANGE">>>>,
  <<"NtWaitForKeyedEvent", "NtWaitForKeyedEvent", <<"HANDLE", "PVOID", "BOOLEAN", "PLARGE_INTEGER">>>>,
  <<"NtWaitForMultipleObjects", "NtWaitForMultipleObjects", <<"ULONG", "HANDLE", "WAIT_TYPE", "BOOLEAN",
    "PLARGE_INTEGER">>>>,
  <<"NtWaitForMultipleObjects32", "NtWaitForMultipleObjects32", <<"ULONG", "LONG", "WAIT_TYPE", "BOOLEAN",
    "PLARGE_INTEGER">>>>,
  <<"NtWaitForSingleObject", "NtWaitForSingleObject", <<"HANDLE", "BOOLEAN", "PLARGE_INTEGER">>>>>>

FromNtWaitForWorkViaWorkerFactory == <<
  <<"NtWaitForWorkViaWorkerFactory", "NtWaitForWorkViaWorkerFactory", <<"HANDLE", "PFILE_IO_COMPLETION_INFORMATION",
    "ULONG", "PULONG", "PVOID">>>>,
  <<"NtWaitHighEventPair", "NtWaitHighEventPair", <<"HANDLE">>>>,
  <<"NtWaitLowEventPair", "NtWaitLowEventPair", <<"HANDLE">>>>,
  <<"NtWorkerFactoryWorkerReady", "NtWorkerFactoryWorkerReady", <<"HANDLE">>>>,
  <<"NtWriteFile", "NtWriteFile", <<"HANDLE", "HANDLE", "PIO_APC_ROUTINE", "PVOID", "PIO_STATUS_BLOCK", "PVOID",
    "ULONG", "PLARGE_INTEGER", "PULONG">>>>,
  <<"NtWriteFileGather", "NtWriteFileGather", <<"HANDLE", "HANDLE", "PIO_APC_ROUTINE", "PVOID", "PIO_STATUS_BLOCK",
    "PFILE_SEGMENT_ELEMENT", "ULONG", "PLARGE_INTEGER", "PULONG">>>>>>

FromNtWriteRequestData == <<
  <<"NtWriteRequestData", "NtWriteRequestData", <<"HANDLE", "PPORT_MESSAGE", "ULONG", "PVOID", "SIZE_T",
    "PSIZE_T">>>>,
  <<"NtWriteVirtualMemory", "NtWriteVirtualMemory", <<"HANDLE", "PVOID", "PVOID", "SIZE_T", "PSIZE_T">>>>,
  <<"NtYieldExecution", "NtYieldExecution", <<>>>>,
  <<"ZwAcceptConnectPort", "NtAcceptConnectPort", <<"PHANDLE", "PVOID", "PPORT_MESSAGE", "BOOLEAN", "PPORT_VIEW",
    "PREMOTE_PORT_VIEW">>>>,
  <<"ZwAccessCheck", "NtAccessCheck", <<"PSECURITY_DESCRIPTOR", "HANDLE", "ACCESS_MASK", "PGENERIC_MAPPING",
    "PPRIVILEGE_SET", "PULONG", "PACCESS_MASK", "PNTSTATUS">>>>,
  <<"ZwAccessCheckAndAuditAlarm", "NtAccessCheckAndAuditAlarm", <<"PCUNICODE_STRING", "PVOID", "PCUNICODE_STRING",
    "PCUNICODE_STRING", "PSECURITY_DESCRIPTOR", "ACCESS_MASK", "PGENERIC_MAPPING", "BOOLEAN", "PACCESS_MASK",
    "PNTSTATUS", "PBOOLEAN">>>>>>

FromZwAccessCheckByType == <<
  <<"ZwAccessCheckByType", "NtAccessCheckByType", <<"PSECURITY_DESCRIPTOR", "PSID", "HANDLE", "ACCESS_MASK",
    "POBJECT_TYPE_LIST", "ULONG", "PGENERIC_MAPPING", "PPRIVILEGE_SET", "PULONG", "PACCESS_MASK", "PNTSTATUS">>>>,
  <<"ZwAccessCheckByTypeAndAuditAlarm", "NtAccessCheckByTypeAndAuditAlarm", <<"PCUNICODE_STRING", "PVOID",
    "PCUNICODE_STRING", "PCUNICODE_STRING", "PSECURITY_DESCRIPTOR", "PSID", "ACCESS_MASK", "AUDIT_EVENT_TYPE",
    "ULONG", "POBJECT_TYPE_LIST", "ULONG", "PGENERIC_MAPPING", "BOOLEAN", "PACCESS_MASK", "PNTSTATUS", "PBOOLEAN">>>>,
  <<"ZwAccessCheckByTypeResultList", "NtAccessCheckByTypeResultList", <<"PSECURITY_DESCRIPTOR", "PSID", "HANDLE",
    "ACCESS_MASK", "POBJECT_TYPE_LIST", "ULONG", "PGENERIC_MAPPING", "PPRIVILEGE_SET", "PULONG", "PACCESS_MASK",
    "PNTSTATUS">>>>>>

FromZwAccessCheckByTypeResultListAndAuditAlarm == <<
  <<"ZwAccessCheckByTypeResultListAndAuditAlarm", "NtAccessCheckByTypeResultListAndAuditAlarm", <<"PCUNICODE_STRING",
    "PVOID", "PCUNICODE_STRING", "PCUNICODE_STRING", "PSECURITY_DESCRIPTOR", "PSID", "ACCESS_MASK",
    "AUDIT_EVENT_TYPE", "ULONG", "POBJECT_TYPE_LIST", "ULONG", "PGENERIC_MAPPING", "BOOLEAN", "PACCESS_MASK",
    "PNTSTATUS", "PBOOLEAN">>>>,
  <<"ZwAccessCheckByTypeResultListAndAuditAlarmByHandle", "NtAccessCheckByTypeResultListAndAuditAlarmByHandle",
    <<"PCUNICODE_STRING", "PVOID", "HANDLE", "PCUNICODE_STRING", "PCUNICODE_STRING", "PSECURITY_DESCRIPTOR", "PSID",
    "ACCESS_MASK", "AUDIT_EVENT_TYPE", "ULONG", "POBJECT_TYPE_LIST", "ULONG", "PGENERIC_MAPPING", "BOOLEAN",
    "PACCESS_MASK", "PNTSTATUS", "PBOOLEAN">>>>,
  <<"ZwAcquireCrossVmMutant", "NtAcquireCrossVmMutant", <<"HANDLE", "PLARGE_INTEGER">>>>,
  <<"ZwAcquireProcessActivityReference", "NtAcquireProcessActivityReference", <<"PHANDLE", "HANDLE", "ULONG">>>>,
  <<"ZwAddAtom", "NtAddAtom", <<"PCWSTR", "ULONG", "PRTL_ATOM">>>>>>

FromZwAddAtomEx == <<
  <<"ZwAddAtomEx", "NtAddAtomEx", <<"PCWSTR", "ULONG", "PRTL_ATOM", "ULONG">>>>,
  <<"ZwAddBootEntry", "NtAddBootEntry", <<"PBOOT_ENTRY", "PULONG">>>>,
  <<"ZwAddDriverEntry", "NtAddDriverEntry", <<"PEFI_DRIVER_ENTRY", "PULONG">>>>,
  <<"ZwAdjustGroupsToken", "NtAdjustGroupsToken", <<"HANDLE", "BOOLEAN", "PTOKEN_GROUPS", "ULONG", "PTOKEN_GROUPS",
    "PULONG">>>>,
  <<"ZwAdjustPrivilegesToken", "NtAdjustPrivilegesToken", <<"HANDLE", "BOOLEAN", "PTOKEN_PRIVILEGES", "ULONG",
    "PTOKEN_PRIVILEGES", "PULONG">>>>,
  <<"ZwAdjustTokenClaimsAndDeviceGroups", "NtAdjustTokenClaimsAndDeviceGroups", <<"HANDLE", "BOOLEAN", "BOOLEAN",
    "BOOLEAN", "PTOKEN_SECURITY_ATTRIBUTES_INFORMATION", "PTOKEN_SECURITY_ATTRIBUTES_INFORMATION", "PTOKEN_GROUPS",
    "ULONG", "PTOKEN_SECURITY_ATTRIBUTES_INFORMATION", "ULONG", "PTOKEN_SECURITY_ATTRIBUTES_INFORMATION", "ULONG",
    "PTOKEN_GROUPS", "PULONG", "PULONG", "PULONG">>>>>>

FromZwAlertMultipleThreadByThreadId == <<
  <<"ZwAlertMultipleThreadByThreadId", "NtAlertMultipleThreadByThreadId", <<"PHANDLE", "ULONG",
    "PPS_ALERT_THREAD_EXTENDED_PARAMETER", "ULONG">>>>,
  <<"ZwAlertResumeThread", "NtAlertResumeThread", <<"HANDLE", "PULONG">>>>,
  <<"ZwAlertThread", "NtAlertThread", <<"HANDLE">>>>,
  <<"ZwAlertThreadByThreadId", "NtAlertThreadByThreadId", <<"HANDLE">>>>,
  <<"ZwAlertThreadByThreadIdEx", "NtAlertThreadByThreadIdEx", <<"HANDLE", "PRTL_SRWLOCK">>>>,
  <<"ZwAllocateLocallyUniqueId", "NtAllocateLocallyUniqueId", <<"PLUID">>>>,
  <<"ZwAllocateReserveObject", "NtAllocateReserveObject", <<"PHANDLE", "PCOBJECT_ATTRIBUTES",
    "MEMORY_RESERVE_TYPE">>>>,
  <<"ZwAllocateUserPhysicalPages", "NtAllocateUserPhysicalPages", <<"HANDLE", "PSIZE_T", "PULONG_PTR">>>>>>

FromZwAllocateUserPhysicalPagesEx == <<
  <<"ZwAllocateUserPhysicalPagesEx", "NtAllocateUserPhysicalPagesEx", <<"HANDLE", "PULONG_PTR", "PULONG_PTR",
    "PMEM_EXTENDED_PARAMETER", "ULONG">>>>,
  <<"ZwAllocateUuids", "NtAllocateUuids", <<"PULARGE_INTEGER", "PULONG", "PULONG", "PCHAR">>>>,
  <<"ZwAllocateVirtualMemory", "NtAllocateVirtualMemory", <<"HANDLE", "PVOID*", "ULONG_PTR", "PSIZE_T", "ULONG",
    "ULONG">>>>,
  <<"ZwAllocateVirtualMemoryEx", "NtAllocateVirtualMemoryEx", <<"HANDLE", "PVOID*", "PSIZE_T", "ULONG", "ULONG",
    "PMEM_EXTENDED_PARAMETER", "ULONG">>>>,
  <<"ZwAlpcAcceptConnectPort", "NtAlpcAcceptConnectPort", <<"PHANDLE", "HANDLE", "ULONG", "POBJECT_ATTRIBUTES",
    "PALPC_PORT_ATTRIBUTES", "PVOID", "PPORT_MESSAGE", "PALPC_MESSAGE_ATTRIBUTES", "BOOLEAN">>>>,
  <<"ZwAlpcCancelMessage", "NtAlpcCancelMessage", <<"HANDLE", "ULONG", "PALPC_CONTEXT_ATTR">>>>>>

FromZwAlpcConnectPort == <<
  <<"ZwAlpcConnectPort", "NtAlpcConnectPort", <<"PHANDLE", "PCUNICODE_STRING", "POBJECT_ATTRIBUTES",
    "PALPC_PORT_ATTRIBUTES", "ULONG", "PSID", "PPORT_MESSAGE", "PSIZE_T", "PALPC_MESSAGE_ATTRIBUTES",
    "PALPC_MESSAGE_ATTRIBUTES", "PLARGE_INTEGER">>>>,
  <<"ZwAlpcConnectPortEx", "NtAlpcConnectPortEx", <<"PHANDLE", "POBJECT_ATTRIBUTES", "POBJECT_ATTRIBUTES",
    "PALPC_PORT_ATTRIBUTES", "ULONG", "PSECURITY_DESCRIPTOR", "PPORT_MESSAGE", "PSIZE_T", "PALPC_MESSAGE_ATTRIBUTES",
    "PALPC_MESSAGE_ATTRIBUTES", "PLARGE_INTEGER">>>>,
  <<"ZwAlpcCreatePort", "NtAlpcCreatePort", <<"PHANDLE", "POBJECT_ATTRIBUTES", "PALPC_PORT_ATTRIBUTES">>>>,
  <<"ZwAlpcCreatePortSection", "NtAlpcCreatePortSection", <<"HANDLE", "ULONG", "HANDLE", "SIZE_T", "PALPC_HANDLE",
    "PSIZE_T">>>>,
  <<"ZwAlpcCreateResourceReserve", "NtAlpcCreateResourceReserve", <<"HANDLE", "ULONG", "SIZE_T", "PULONG">>>>>>

FromZwAlpcCreateSectionView == <<
  <<"ZwAlpcCreateSectionView", "NtAlpcCreateSectionView", <<"HANDLE", "ULONG", "PALPC_DATA_VIEW_ATTR">>>>,
  <<"ZwAlpcCreateSecurityContext", "NtAlpcCreateSecurityContext", <<"HANDLE", "ULONG", "PALPC_SECURITY_ATTR">>>>,
  <<"ZwAlpcDeletePortSection", "NtAlpcDeletePortSection", <<"HANDLE", "ULONG", "ALPC_HANDLE">>>>,
  <<"ZwAlpcDeleteResourceReserve", "NtAlpcDeleteResourceReserve", <<"HANDLE", "ULONG", "ULONG">>>>,
  <<"ZwAlpcDeleteSectionView", "NtAlpcDeleteSectionView", <<"HANDLE", "ULONG", "PVOID">>>>,
  <<"ZwAlpcDeleteSecurityContext", "NtAlpcDeleteSecurityContext", <<"HANDLE", "ULONG", "ALPC_HANDLE">>>>,
  <<"ZwAlpcDisconnectPort", "NtAlpcDisconnectPort", <<"HANDLE", "ULONG">>>>,
  <<"ZwAlpcImpersonateClientContainerOfPort", "NtAlpcImpersonateClientContainerOfPort", <<"HANDLE", "PPORT_MESSAGE",
    "ULONG">>>>>>

FromZwAlpcImpersonateClientOfPort == <<
  <<"ZwAlpcImpersonateClientOfPort", "NtAlpcImpersonateClientOfPort", <<"HANDLE", "PPORT_MESSAGE", "PVOID">>>>,
  <<"ZwAlpcOpenSenderProcess", "NtAlpcOpenSenderProcess", <<"PHANDLE", "HANDLE", "PPORT_MESSAGE", "ULONG",
    "ACCESS_MASK", "POBJECT_ATTRIBUTES">>>>,
  <<"ZwAlpcOpenSenderThread", "NtAlpcOpenSenderThread", <<"PHANDLE", "HANDLE", "PPORT_MESSAGE", "ULONG",
    "ACCESS_MASK", "POBJECT_ATTRIBUTES">>>>,
  <<"ZwAlpcQueryInformation", "NtAlpcQueryInformation", <<"HANDLE", "ALPC_PORT_INFORMATION_CLASS", "PVOID", "ULONG",
    "PULONG">>>>,
  <<"ZwAlpcQueryInformationMessage", "NtAlpcQueryInformationMessage", <<"HANDLE", "PPORT_MESSAGE",
    "ALPC_MESSAGE_INFORMATION_CLASS", "PVOID", "ULONG", "PULONG">>>>,
  <<"ZwAlpcRevokeSecurityContext", "NtAlpcRevokeSecurityContext", <<"HANDLE", "ULONG", "ALPC_HANDLE">>>>>>

FromZwAlpcSendWaitReceivePort == <<
  <<"ZwAlpcSendWaitReceivePort", "NtAlpcSendWaitReceivePort", <<"HANDLE", "ULONG", "PPORT_MESSAGE",
    "PALPC_MESSAGE_ATTRIBUTES", "PPORT_MESSAGE", "PSIZE_T", "PALPC_MESSAGE_ATTRIBUTES", "PLARGE_INTEGER">>>>,
  <<"ZwAlpcSetInformation", "NtAlpcSetInformation", <<"HANDLE", "ALPC_PORT_INFORMATION_CLASS", "PVOID", "ULONG">>>>,
  <<"ZwApphelpCacheControl", "NtApphelpCacheControl", <<"AHC_SERVICE_CLASS", "PVOID">>>>,
  <<"ZwAreMappedFilesTheSame", "NtAreMappedFilesTheSame", <<"PVOID", "PVOID">>>>,
  <<"ZwAssignProcessToJobObject", "NtAssignProcessToJobObject", <<"HANDLE", "HANDLE">>>>,
  <<"ZwAssociateWaitCompletionPacket", "NtAssociateWaitCompletionPacket", <<"HANDLE", "HANDLE", "HANDLE", "PVOID",
    "PVOID", "NTSTATUS", "ULONG_PTR", "PBOOLEAN">>>>>>

FromZwCallEnclave == <<
  <<"ZwCallEnclave", "NtCallEnclave", <<"PENCLAVE_ROUTINE", "PVOID", "ULONG", "PVOID*">>>>,
  <<"ZwCallbackReturn", "NtCallbackReturn", <<"PVOID", "ULONG", "NTSTATUS">>>>,
  <<"ZwCancelIoFile", "NtCancelIoFile", <<"HANDLE", "PIO_STATUS_BLOCK">>>>,
  <<"ZwCancelIoFileEx", "NtCancelIoFileEx", <<"HANDLE", "PIO_STATUS_BLOCK", "PIO_STATUS_BLOCK">>>>,
  <<"ZwCancelSynchronousIoFile", "NtCancelSynchronousIoFile", <<"HANDLE", "PIO_STATUS_BLOCK", "PIO_STATUS_BLOCK">>>>,
  <<"ZwCancelTimer", "NtCancelTimer", <<"HANDLE", "PBOOLEAN">>>>,
  <<"ZwCancelTimer2", "NtCancelTimer2", <<"HANDLE", "PT2_CANCEL_PARAMETERS">>>>,
  <<"ZwCancelWaitCompletionPacket", "NtCancelWaitCompletionPacket", <<"HANDLE", "BOOLEAN">>>>>>

FromZwChangeProcessState == <<
  <<"ZwChangeProcessState", "NtChangeProcessState", <<"HANDLE", "HANDLE", "PROCESS_STATE_CHANGE_TYPE", "PVOID",
    "SIZE_T", "ULONG">>>>,
  <<"ZwChangeThreadState", "NtChangeThreadState", <<"HANDLE", "HANDLE", "THREAD_STATE_CHANGE_TYPE", "PVOID", "SIZE_T",
    "ULONG">>>>,
  <<"ZwClearEvent", "NtClearEvent", <<"HANDLE">>>>,
  <<"ZwClose", "NtClose", <<"HANDLE">>>>,
  <<"ZwCloseObjectAuditAlarm", "NtCloseObjectAuditAlarm", <<"PCUNICODE_STRING", "PVOID", "BOOLEAN">>>>,
  <<"ZwCommitComplete", "NtCommitComplete", <<"HANDLE", "PLARGE_INTEGER">>>>,
  <<"ZwCommitEnlistment", "NtCommitEnlistment", <<"HANDLE", "PLARGE_INTEGER">>>>,
  <<"ZwCommitRegistryTransaction", "NtCommitRegistryTransaction", <<"HANDLE", "ULONG">>>>>>

FromZwCommitTransaction == <<
  <<"ZwCommitTransaction", "NtCommitTransaction", <<"HANDLE", "BOOLEAN">>>>,
  <<"ZwCompactKeys", "NtCompactKeys", <<"ULONG", "HANDLE">>>>,
  <<"ZwCompareObjects", "NtCompareObjects", <<"HANDLE", "HANDLE">>>>,
  <<"ZwCompareSigningLevels", "NtCompareSigningLevels", <<"SE_SIGNING_LEVEL", "SE_SIGNING_LEVEL">>>>,
  <<"ZwCompareTokens", "NtCompareTokens", <<"HANDLE", "HANDLE", "PBOOLEAN">>>>,
  <<"ZwCompleteConnectPort", "NtCompleteConnectPort", <<"HANDLE">>>>,
  <<"ZwCompressKey", "NtCompressKey", <<"HANDLE">>>>,
  <<"ZwConnectPort", "NtConnectPort", <<"PHANDLE", "PCUNICODE_STRING", "PSECURITY_QUALITY_OF_SERVICE", "PPORT_VIEW",
    "PREMOTE_PORT_VIEW", "PULONG", "PVOID", "PULONG">>>>>>

FromZwContinue == <<
  <<"ZwContinue", "NtContinue", <<"PCONTEXT", "BOOLEAN">>>>,
  <<"ZwContinueEx", "NtContinueEx", <<"PCONTEXT", "PVOID">>>>,
  <<"ZwConvertBetweenAuxiliaryCounterAndPerformanceCounter", "NtConvertBetweenAuxiliaryCounterAndPerformanceCounter",
    <<"BOOLEAN", "PULONG64", "PULONG64", "PULONG64">>>>,
  <<"ZwCopyFileChunk", "NtCopyFileChunk", <<"HANDLE", "HANDLE", "HANDLE", "PIO_STATUS_BLOCK", "ULONG",
    "PLARGE_INTEGER", "PLARGE_INTEGER", "PULONG", "PULONG", "ULONG">>>>,
  <<"ZwCreateCpuPartition", "NtCreateCpuPartition", <<"PHANDLE", "ACCESS_MASK", "POBJECT_ATTRIBUTES">>>>,
  <<"ZwCreateCrossVmEvent", "NtCreateCrossVmEvent", <<"PHANDLE", "ACCESS_MASK", "POBJECT_ATTRIBUTES", "ULONG",
    "LPCGUID", "LPCGUID">>>>>>

FromZwCreateCrossVmMutant == <<
  <<"ZwCreateCrossVmMutant", "NtCreateCrossVmMutant", <<"PHANDLE", "ACCESS_MASK", "POBJECT_ATTRIBUTES", "ULONG",
    "LPCGUID", "LPCGUID">>>>,
  <<"ZwCreateDebugObject", "NtCreateDebugObject", <<"PHANDLE", "ACCESS_MASK", "POBJECT_ATTRIBUTES", "ULONG">>>>,
  <<"ZwCreateDirectoryObject", "NtCreateDirectoryObject", <<"PHANDLE", "ACCESS_MASK", "POBJECT_ATTRIBUTES">>>>,
  <<"ZwCreateDirectoryObjectEx", "NtCreateDirectoryObjectEx", <<"PHANDLE", "ACCESS_MASK", "POBJECT_ATTRIBUTES",
    "HANDLE", "ULONG">>>>,
  <<"ZwCreateEnclave", "NtCreateEnclave", <<"HANDLE", "PVOID*", "ULONG_PTR", "SIZE_T", "SIZE_T", "ULONG", "PVOID",
    "ULONG", "PULONG">>>>,
  <<"ZwCreateEnlistment", "NtCreateEnlistment", <<"PHANDLE", "ACCESS_MASK", "HANDLE", "HANDLE", "POBJECT_ATTRIBUTES",
    "ULONG", "NOTIFICATION_MASK", "PVOID">>>>>>

FromZwCreateEvent == <<
  <<"ZwCreateEvent", "NtCreateEvent", <<"PHANDLE", "ACCESS_MASK", "POBJECT_ATTRIBUTES", "EVENT_TYPE", "BOOLEAN">>>>,
  <<"ZwCreateEventPair", "NtCreateEventPair", <<"PHANDLE", "ACCESS_MASK", "PCOBJECT_ATTRIBUTES">>>>,
  <<"ZwCreateFile", "NtCreateFile", <<"PHANDLE", "ACCESS_MASK", "PCOBJECT_ATTRIBUTES", "PIO_STATUS_BLOCK",
    "PLARGE_INTEGER", "ULONG", "ULONG", "ULONG", "ULONG", "PVOID", "ULONG">>>>,
  <<"ZwCreateIRTimer", "NtCreateIRTimer", <<"PHANDLE", "PULONG", "ACCESS_MASK">>>>,
  <<"ZwCreateIoCompletion", "NtCreateIoCompletion", <<"PHANDLE", "ACCESS_MASK", "PCOBJECT_ATTRIBUTES", "ULONG">>>>,
  <<"ZwCreateIoRing", "NtCreateIoRing", <<"PHANDLE", "ULONG", "PVOID", "ULONG", "PVOID">>>>>>

FromZwCreateJobObject == <<
  <<"ZwCreateJobObject", "NtCreateJobObject", <<"PHANDLE", "ACCESS_MASK", "PCOBJECT_ATTRIBUTES">>>>,
  <<"ZwCreateJobSet", "NtCreateJobSet", <<"ULONG", "PJOB_SET_ARRAY", "ULONG">>>>,
  <<"ZwCreateKey", "NtCreateKey", <<"PHANDLE", "ACCESS_MASK", "POBJECT_ATTRIBUTES", "ULONG", "PCUNICODE_STRING",
    "ULONG", "PULONG">>>>,
  <<"ZwCreateKeyTransacted", "NtCreateKeyTransacted", <<"PHANDLE", "ACCESS_MASK", "POBJECT_ATTRIBUTES", "ULONG",
    "PCUNICODE_STRING", "ULONG", "HANDLE", "PULONG">>>>,
  <<"ZwCreateKeyedEvent", "NtCreateKeyedEvent", <<"PHANDLE", "ACCESS_MASK", "PCOBJECT_ATTRIBUTES", "ULONG">>>>,
  <<"ZwCreateLowBoxToken", "NtCreateLowBoxToken", <<"PHANDLE", "HANDLE", "ACCESS_MASK", "POBJECT_ATTRIBUTES", "PSID",
    "ULONG", "PSID_AND_ATTRIBUTES", "ULONG", "HANDLE*">>>>>>

FromZwCreateMailslotFile == <<
  <<"ZwCreateMailslotFile", "NtCreateMailslotFile", <<"PHANDLE", "ACCESS_MASK", "PCOBJECT_ATTRIBUTES",
    "PIO_STATUS_BLOCK", "ULONG", "ULONG", "ULONG", "PLARGE_INTEGER">>>>,
  <<"ZwCreateMutant", "NtCreateMutant", <<"PHANDLE", "ACCESS_MASK", "PCOBJECT_ATTRIBUTES", "BOOLEAN">>>>,
  <<"ZwCreateNamedPipeFile", "NtCreateNamedPipeFile", <<"PHANDLE", "ACCESS_MASK", "PCOBJECT_ATTRIBUTES",
    "PIO_STATUS_BLOCK", "ULONG", "ULONG", "ULONG", "ULONG", "ULONG", "ULONG", "ULONG", "ULONG", "ULONG",
    "PLARGE_INTEGER">>>>,
  <<"ZwCreatePagingFile", "NtCreatePagingFile", <<"PCUNICODE_STRING", "PLARGE_INTEGER", "PLARGE_INTEGER", "ULONG">>>>,
  <<"ZwCreatePartition", "NtCreatePartition", <<"HANDLE", "PHANDLE", "ACCESS_MASK", "PCOBJECT_ATTRIBUTES">>>>>>

FromZwCreatePort == <<
  <<"ZwCreatePort", "NtCreatePort", <<"PHANDLE", "POBJECT_ATTRIBUTES", "ULONG", "ULONG", "ULONG">>>>,
  <<"ZwCreatePrivateNamespace", "NtCreatePrivateNamespace", <<"PHANDLE", "ACCESS_MASK", "POBJECT_ATTRIBUTES",
    "POBJECT_BOUNDARY_DESCRIPTOR">>>>,
  <<"ZwCreateProcess", "NtCreateProcess", <<"PHANDLE", "ACCESS_MASK", "PCOBJECT_ATTRIBUTES", "HANDLE", "BOOLEAN",
    "HANDLE", "HANDLE", "HANDLE">>>>,
  <<"ZwCreateProcessEx", "NtCreateProcessEx", <<"PHANDLE", "ACCESS_MASK", "PCOBJECT_ATTRIBUTES", "HANDLE", "ULONG",
    "HANDLE", "HANDLE", "HANDLE", "ULONG">>>>,
  <<"ZwCreateProcessStateChange", "NtCreateProcessStateChange", <<"PHANDLE", "ACCESS_MASK", "PCOBJECT_ATTRIBUTES",
    "HANDLE", "ULONG">>>>>>

FromZwCreateProfile == <<
  <<"ZwCreateProfile", "NtCreateProfile", <<"PHANDLE", "HANDLE", "PVOID", "SIZE_T", "ULONG", "PULONG", "ULONG",
    "KPROFILE_SOURCE", "KAFFINITY">>>>,
  <<"ZwCreateProfileEx", "NtCreateProfileEx", <<"PHANDLE", "HANDLE", "PVOID", "SIZE_T", "ULONG", "PULONG", "ULONG",
    "KPROFILE_SOURCE", "USHORT", "PGROUP_AFFINITY">>>>,
  <<"ZwCreateRegistryTransaction", "NtCreateRegistryTransaction", <<"HANDLE*", "ACCESS_MASK", "POBJECT_ATTRIBUTES",
    "ULONG">>>>,
  <<"ZwCreateResourceManager", "NtCreateResourceManager", <<"PHANDLE", "ACCESS_MASK", "HANDLE", "LPGUID",
    "POBJECT_ATTRIBUTES", "ULONG", "PCUNICODE_STRING">>>>,
  <<"ZwCreateSection", "NtCreateSection", <<"PHANDLE", "ACCESS_MASK", "PCOBJECT_ATTRIBUTES", "PLARGE_INTEGER",
    "ULONG", "ULONG", "HANDLE">>>>>>

FromZwCreateSectionEx == <<
  <<"ZwCreateSectionEx", "NtCreateSectionEx", <<"PHANDLE", "ACCESS_MASK", "PCOBJECT_ATTRIBUTES", "PLARGE_INTEGER",
    "ULONG", "ULONG", "HANDLE", "PMEM_EXTENDED_PARAMETER", "ULONG">>>>,
  <<"ZwCreateSemaphore", "NtCreateSemaphore", <<"PHANDLE", "ACCESS_MASK", "PCOBJECT_ATTRIBUTES", "LONG", "LONG">>>>,
  <<"ZwCreateSymbolicLinkObject", "NtCreateSymbolicLinkObject", <<"PHANDLE", "ACCESS_MASK", "POBJECT_ATTRIBUTES",
    "PCUNICODE_STRING">>>>,
  <<"ZwCreateThread", "NtCreateThread", <<"PHANDLE", "ACCESS_MASK", "PCOBJECT_ATTRIBUTES", "HANDLE", "PCLIENT_ID",
    "PCONTEXT", "PINITIAL_TEB", "BOOLEAN">>>>,
  <<"ZwCreateThreadEx", "NtCreateThreadEx", <<"PHANDLE", "ACCESS_MASK", "PCOBJECT_ATTRIBUTES", "HANDLE",
    "PUSER_THREAD_START_ROUTINE", "PVOID", "ULONG", "SIZE_T", "SIZE_T", "SIZE_T", "PPS_ATTRIBUTE_LIST">>>>>>

FromZwCreateThreadStateChange == <<
  <<"ZwCreateThreadStateChange", "NtCreateThreadStateChange", <<"PHANDLE", "ACCESS_MASK", "PCOBJECT_ATTRIBUTES",
    "HANDLE", "ULONG">>>>,
  <<"ZwCreateTimer", "NtCreateTimer", <<"PHANDLE", "ACCESS_MASK", "PCOBJECT_ATTRIBUTES", "TIMER_TYPE">>>>,
  <<"ZwCreateTimer2", "NtCreateTimer2", <<"PHANDLE", "PULONG", "PCOBJECT_ATTRIBUTES", "ULONG", "ACCESS_MASK">>>>,
  <<"ZwCreateToken", "NtCreateToken", <<"PHANDLE", "ACCESS_MASK", "POBJECT_ATTRIBUTES", "TOKEN_TYPE", "PLUID",
    "PLARGE_INTEGER", "PTOKEN_USER", "PTOKEN_GROUPS", "PTOKEN_PRIVILEGES", "PTOKEN_OWNER", "PTOKEN_PRIMARY_GROUP",
    "PTOKEN_DEFAULT_DACL", "PTOKEN_SOURCE">>>>>>

FromZwCreateTokenEx == <<
  <<"ZwCreateTokenEx", "NtCreateTokenEx", <<"PHANDLE", "ACCESS_MASK", "POBJECT_ATTRIBUTES", "TOKEN_TYPE", "PLUID",
    "PLARGE_INTEGER", "PTOKEN_USER", "PTOKEN_GROUPS", "PTOKEN_PRIVILEGES", "PTOKEN_SECURITY_ATTRIBUTES_INFORMATION",
    "PTOKEN_SECURITY_ATTRIBUTES_INFORMATION", "PTOKEN_GROUPS", "PTOKEN_MANDATORY_POLICY", "PTOKEN_OWNER",
    "PTOKEN_PRIMARY_GROUP", "PTOKEN_DEFAULT_DACL", "PTOKEN_SOURCE">>>>,
  <<"ZwCreateTransaction", "NtCreateTransaction", <<"PHANDLE", "ACCESS_MASK", "POBJECT_ATTRIBUTES", "LPGUID",
    "HANDLE", "ULONG", "ULONG", "ULONG", "PLARGE_INTEGER", "PCUNICODE_STRING">>>>,
  <<"ZwCreateTransactionManager", "NtCreateTransactionManager", <<"PHANDLE", "ACCESS_MASK", "POBJECT_ATTRIBUTES",
    "PCUNICODE_STRING", "ULONG", "ULONG">>>>,
  <<"ZwCreateUserProcess", "NtCreateUserProcess", <<"PHANDLE", "PHANDLE", "ACCESS_MASK", "ACCESS_MASK",
    "PCOBJECT_ATTRIBUTES", "PCOBJECT_ATTRIBUTES", "ULONG", "ULONG", "PRTL_USER_PROCESS_PARAMETERS", "PPS_CREATE_INFO",
    "PPS_ATTRIBUTE_LIST">>>>>>

FromZwCreateWaitCompletionPacket == <<
  <<"ZwCreateWaitCompletionPacket", "NtCreateWaitCompletionPacket", <<"PHANDLE", "ACCESS_MASK",
    "PCOBJECT_ATTRIBUTES">>>>,
  <<"ZwCreateWaitablePort", "NtCreateWaitablePort", <<"PHANDLE", "POBJECT_ATTRIBUTES", "ULONG", "ULONG", "ULONG">>>>,
  <<"ZwCreateWnfStateName", "NtCreateWnfStateName", <<"PWNF_STATE_NAME", "WNF_STATE_NAME_LIFETIME", "WNF_DATA_SCOPE",
    "BOOLEAN", "PCWNF_TYPE_ID", "ULONG", "PSECURITY_DESCRIPTOR">>>>,
  <<"ZwCreateWorkerFactory", "NtCreateWorkerFactory", <<"PHANDLE", "ACCESS_MASK", "PCOBJECT_ATTRIBUTES", "HANDLE",
    "HANDLE", "PVOID", "PVOID", "ULONG", "SIZE_T", "SIZE_T">>>>,
  <<"ZwDebugActiveProcess", "NtDebugActiveProcess", <<"HANDLE", "HANDLE">>>>,
  <<"ZwDebugContinue", "NtDebugContinue", <<"HANDLE", "PCLIENT_ID", "NTSTATUS">>>>>>

FromZwDelayExecution == <<
  <<"ZwDelayExecution", "NtDelayExecution", <<"BOOLEAN", "PLARGE_INTEGER">>>>,
  <<"ZwDeleteAtom", "NtDeleteAtom", <<"RTL_ATOM">>>>,
  <<"ZwDeleteBootEntry", "NtDeleteBootEntry", <<"ULONG">>>>,
  <<"ZwDeleteDriverEntry", "NtDeleteDriverEntry", <<"ULONG">>>>,
  <<"ZwDeleteFile", "NtDeleteFile", <<"PCOBJECT_ATTRIBUTES">>>>,
  <<"ZwDeleteKey", "NtDeleteKey", <<"HANDLE">>>>,
  <<"ZwDeleteObjectAuditAlarm", "NtDeleteObjectAuditAlarm", <<"PCUNICODE_STRING", "PVOID", "BOOLEAN">>>>,
  <<"ZwDeletePrivateNamespace", "NtDeletePrivateNamespace", <<"HANDLE">>>>,
  <<"ZwDeleteValueKey", "NtDeleteValueKey", <<"HANDLE", "PCUNICODE_STRING">>>>>>

FromZwDeleteWnfStateData == <<
  <<"ZwDeleteWnfStateData", "NtDeleteWnfStateData", <<"PCWNF_STATE_NAME", "PCSID">>>>,
  <<"ZwDeleteWnfStateName", "NtDeleteWnfStateName", <<"PCWNF_STATE_NAME">>>>,
  <<"ZwDeviceIoControlFile", "NtDeviceIoControlFile", <<"HANDLE", "HANDLE", "PIO_APC_ROUTINE", "PVOID",
    "PIO_STATUS_BLOCK", "ULONG", "PVOID", "ULONG", "PVOID", "ULONG">>>>,
  <<"ZwDirectGraphicsCall", "NtDirectGraphicsCall", <<"ULONG", "PVOID", "ULONG", "PVOID", "PULONG">>>>,
  <<"ZwDisableLastKnownGood", "NtDisableLastKnownGood", <<>>>>,
  <<"ZwDisplayString", "NtDisplayString", <<"PCUNICODE_STRING">>>>,
  <<"ZwDrawText", "NtDrawText", <<"PCUNICODE_STRING">>>>>>

FromZwDuplicateObject == <<
  <<"ZwDuplicateObject", "NtDuplicateObject", <<"HANDLE", "HANDLE", "HANDLE", "PHANDLE", "ACCESS_MASK", "ULONG",
    "ULONG">>>>,
  <<"ZwDuplicateToken", "NtDuplicateToken", <<"HANDLE", "ACCESS_MASK", "POBJECT_ATTRIBUTES", "BOOLEAN", "TOKEN_TYPE",
    "PHANDLE">>>>,
  <<"ZwEnableLastKnownGood", "NtEnableLastKnownGood", <<>>>>,
  <<"ZwEnumerateBootEntries", "NtEnumerateBootEntries", <<"PVOID", "PULONG">>>>,
  <<"ZwEnumerateDriverEntries", "NtEnumerateDriverEntries", <<"PVOID", "PULONG">>>>,
  <<"ZwEnumerateKey", "NtEnumerateKey", <<"HANDLE", "ULONG", "KEY_INFORMATION_CLASS", "PVOID", "ULONG", "PULONG">>>>,
  <<"ZwEnumerateSystemEnvironmentValuesEx", "NtEnumerateSystemEnvironmentValuesEx", <<"ULONG", "PVOID", "PULONG">>>>>>

FromZwEnumerateTransactionObject == <<
  <<"ZwEnumerateTransactionObject", "NtEnumerateTransactionObject", <<"HANDLE", "KTMOBJECT_TYPE", "PKTMOBJECT_CURSOR",
    "ULONG", "PULONG">>>>,
  <<"ZwEnumerateValueKey", "NtEnumerateValueKey", <<"HANDLE", "ULONG", "KEY_VALUE_INFORMATION_CLASS", "PVOID",
    "ULONG", "PULONG">>>>,
  <<"ZwExtendSection", "NtExtendSection", <<"HANDLE", "PLARGE_INTEGER">>>>,
  <<"ZwFilterBootOption", "NtFilterBootOption", <<"FILTER_BOOT_OPTION_OPERATION", "ULONG", "ULONG", "PVOID",
    "ULONG">>>>,
  <<"ZwFilterToken", "NtFilterToken", <<"HANDLE", "ULONG", "PTOKEN_GROUPS", "PTOKEN_PRIVILEGES", "PTOKEN_GROUPS",
    "PHANDLE">>>>>>

FromZwFilterTokenEx == <<
  <<"ZwFilterTokenEx", "NtFilterTokenEx", <<"HANDLE", "ULONG", "PTOKEN_GROUPS", "PTOKEN_PRIVILEGES", "PTOKEN_GROUPS",
    "ULONG", "PCUNICODE_STRING", "ULONG", "PCUNICODE_STRING", "PTOKEN_GROUPS",
    "PTOKEN_SECURITY_ATTRIBUTES_INFORMATION", "PTOKEN_SECURITY_ATTRIBUTES_INFORMATION", "PTOKEN_GROUPS",
    "PHANDLE">>>>,
  <<"ZwFindAtom", "NtFindAtom", <<"PCWSTR", "ULONG", "PRTL_ATOM">>>>,
  <<"ZwFlushBuffersFile", "NtFlushBuffersFile", <<"HANDLE", "PIO_STATUS_BLOCK">>>>,
  <<"ZwFlushBuffersFileEx", "NtFlushBuffersFileEx", <<"HANDLE", "ULONG", "PVOID", "ULONG", "PIO_STATUS_BLOCK">>>>,
  <<"ZwFlushInstallUILanguage", "NtFlushInstallUILanguage", <<"LANGID", "ULONG">>>>,
  <<"ZwFlushInstructionCache", "NtFlushInstructionCache", <<"HANDLE", "PVOID", "SIZE_T">>>>>>

FromZwFlushKey == <<
  <<"ZwFlushKey", "NtFlushKey", <<"HANDLE">>>>,
  <<"ZwFlushProcessWriteBuffers", "NtFlushProcessWriteBuffers", <<>>>>,
  <<"ZwFlushVirtualMemory", "NtFlushVirtualMemory", <<"HANDLE", "PVOID*", "PSIZE_T", "PIO_STATUS_BLOCK">>>>,
  <<"ZwFlushWriteBuffer", "NtFlushWriteBuffer", <<>>>>,
  <<"ZwFreeUserPhysicalPages", "NtFreeUserPhysicalPages", <<"HANDLE", "PULONG_PTR", "PULONG_PTR">>>>,
  <<"ZwFreeVirtualMemory", "NtFreeVirtualMemory", <<"HANDLE", "PVOID*", "PSIZE_T", "ULONG">>>>,
  <<"ZwFreezeRegistry", "NtFreezeRegistry", <<"ULONG">>>>,
  <<"ZwFreezeTransactions", "NtFreezeTransactions", <<"PLARGE_INTEGER", "PLARGE_INTEGER">>>>>>

FromZwFsControlFile == <<
  <<"ZwFsControlFile", "NtFsControlFile", <<"HANDLE", "HANDLE", "PIO_APC_ROUTINE", "PVOID", "PIO_STATUS_BLOCK",
    "ULONG", "PVOID", "ULONG", "PVOID", "ULONG">>>>,
  <<"ZwGetCachedSigningLevel", "NtGetCachedSigningLevel", <<"HANDLE", "PULONG", "PSE_SIGNING_LEVEL", "PUCHAR",
    "PULONG", "PULONG">>>>,
  <<"ZwGetCompleteWnfStateSubscription", "NtGetCompleteWnfStateSubscription", <<"PWNF_STATE_NAME", "ULONG64*",
    "ULONG", "ULONG", "PWNF_DELIVERY_DESCRIPTOR", "ULONG">>>>,
  <<"ZwGetContextThread", "NtGetContextThread", <<"HANDLE", "PCONTEXT">>>>,
  <<"ZwGetCurrentProcessorNumber", "NtGetCurrentProcessorNumber", <<>>>>,
  <<"ZwGetCurrentProcessorNumberEx", "NtGetCurrentProcessorNumberEx", <<"PPROCESSOR_NUMBER">>>>,
  <<"ZwGetDevicePowerState", "NtGetDevicePowerState", <<"HANDLE", "PDEVICE_POWER_STATE">>>>>>

FromZwGetMUIRegistryInfo == <<
  <<"ZwGetMUIRegistryInfo", "NtGetMUIRegistryInfo", <<"ULONG", "PULONG", "PVOID">>>>,
  <<"ZwGetNextProcess", "NtGetNextProcess", <<"HANDLE", "ACCESS_MASK", "ULONG", "ULONG", "PHANDLE">>>>,
  <<"ZwGetNextThread", "NtGetNextThread", <<"HANDLE", "HANDLE", "ACCESS_MASK", "ULONG", "ULONG", "PHANDLE">>>>,
  <<"ZwGetNlsSectionPtr", "NtGetNlsSectionPtr", <<"ULONG", "ULONG", "PVOID", "PVOID*", "PULONG">>>>,
  <<"ZwGetNotificationResourceManager", "NtGetNotificationResourceManager", <<"HANDLE", "PTRANSACTION_NOTIFICATION",
    "ULONG", "PLARGE_INTEGER", "PULONG", "ULONG", "ULONG_PTR">>>>,
  <<"ZwGetWriteWatch", "NtGetWriteWatch", <<"HANDLE", "ULONG", "PVOID", "SIZE_T", "PVOID*", "PULONG_PTR",
    "PULONG">>>>>>

FromZwImpersonateAnonymousToken == <<
  <<"ZwImpersonateAnonymousToken", "NtImpersonateAnonymousToken", <<"HANDLE">>>>,
  <<"ZwImpersonateClientOfPort", "NtImpersonateClientOfPort", <<"HANDLE", "PPORT_MESSAGE">>>>,
  <<"ZwImpersonateThread", "NtImpersonateThread", <<"HANDLE", "HANDLE", "PSECURITY_QUALITY_OF_SERVICE">>>>,
  <<"ZwInitializeEnclave", "NtInitializeEnclave", <<"HANDLE", "PVOID", "PVOID", "ULONG", "PULONG">>>>,
  <<"ZwInitializeNlsFiles", "NtInitializeNlsFiles", <<"PVOID*", "PLCID", "PLARGE_INTEGER", "PULONG">>>>,
  <<"ZwInitializeRegistry", "NtInitializeRegistry", <<"USHORT">>>>,
  <<"ZwInitiatePowerAction", "NtInitiatePowerAction", <<"POWER_ACTION", "SYSTEM_POWER_STATE", "ULONG", "BOOLEAN">>>>,
  <<"ZwIsProcessInJob", "NtIsProcessInJob", <<"HANDLE", "HANDLE">>>>>>

FromZwIsSystemResumeAutomatic == <<
  <<"ZwIsSystemResumeAutomatic", "NtIsSystemResumeAutomatic", <<>>>>,
  <<"ZwIsUILanguageComitted", "NtIsUILanguageComitted", <<>>>>,
  <<"ZwListenPort", "NtListenPort", <<"HANDLE", "PPORT_MESSAGE">>>>,
  <<"ZwLoadDriver", "NtLoadDriver", <<"PCUNICODE_STRING">>>>,
  <<"ZwLoadEnclaveData", "NtLoadEnclaveData", <<"HANDLE", "PVOID", "PVOID", "SIZE_T", "ULONG", "PVOID", "ULONG",
    "PSIZE_T", "PULONG">>>>,
  <<"ZwLoadKey", "NtLoadKey", <<"POBJECT_ATTRIBUTES", "POBJECT_ATTRIBUTES">>>>,
  <<"ZwLoadKey2", "NtLoadKey2", <<"POBJECT_ATTRIBUTES", "POBJECT_ATTRIBUTES", "ULONG">>>>,
  <<"ZwLoadKey3", "NtLoadKey3", <<"POBJECT_ATTRIBUTES", "POBJECT_ATTRIBUTES", "ULONG", "PCM_EXTENDED_PARAMETER",
    "ULONG", "ACCESS_MASK", "PHANDLE", "PVOID">>>>>>

FromZwLoadKeyEx == <<
  <<"ZwLoadKeyEx", "NtLoadKeyEx", <<"POBJECT_ATTRIBUTES", "POBJECT_ATTRIBUTES", "ULONG", "HANDLE", "HANDLE",
    "ACCESS_MASK", "PHANDLE", "PVOID">>>>,
  <<"ZwLockFile", "NtLockFile", <<"HANDLE", "HANDLE", "PIO_APC_ROUTINE", "PVOID", "PIO_STATUS_BLOCK",
    "PLARGE_INTEGER", "PLARGE_INTEGER", "ULONG", "BOOLEAN", "BOOLEAN">>>>,
  <<"ZwLockProductActivationKeys", "NtLockProductActivationKeys", <<"ULONG*", "ULONG*">>>>,
  <<"ZwLockRegistryKey", "NtLockRegistryKey", <<"HANDLE">>>>,
  <<"ZwLockVirtualMemory", "NtLockVirtualMemory", <<"HANDLE", "PVOID*", "PSIZE_T", "ULONG">>>>,
  <<"ZwMakePermanentObject", "NtMakePermanentObject", <<"HANDLE">>>>,
  <<"ZwMakeTemporaryObject", "NtMakeTemporaryObject", <<"HANDLE">>>>>>

FromZwManageHotPatch == <<
  <<"ZwManageHotPatch", "NtManageHotPatch", <<"HOT_PATCH_INFORMATION_CLASS", "PVOID", "ULONG", "PULONG">>>>,
  <<"ZwManagePartition", "NtManagePartition", <<"HANDLE", "HANDLE", "PARTITION_INFORMATION_CLASS", "PVOID",
    "ULONG">>>>,
  <<"ZwMapCMFModule", "NtMapCMFModule", <<"ULONG", "ULONG", "PULONG", "PULONG", "PULONG", "PVOID*">>>>,
  <<"ZwMapUserPhysicalPages", "NtMapUserPhysicalPages", <<"PVOID", "SIZE_T", "PULONG_PTR">>>>,
  <<"ZwMapUserPhysicalPagesScatter", "NtMapUserPhysicalPagesScatter", <<"PVOID*", "SIZE_T", "PULONG_PTR">>>>,
  <<"ZwMapViewOfSection", "NtMapViewOfSection", <<"HANDLE", "HANDLE", "PVOID*", "ULONG_PTR", "SIZE_T",
    "PLARGE_INTEGER", "PSIZE_T", "SECTION_INHERIT", "ULONG", "ULONG">>>>>>

FromZwMapViewOfSectionEx == <<
  <<"ZwMapViewOfSectionEx", "NtMapViewOfSectionEx", <<"HANDLE", "HANDLE", "PVOID*", "PLARGE_INTEGER", "PSIZE_T",
    "ULONG", "ULONG", "PMEM_EXTENDED_PARAMETER", "ULONG">>>>,
  <<"ZwModifyBootEntry", "NtModifyBootEntry", <<"PBOOT_ENTRY">>>>,
  <<"ZwModifyDriverEntry", "NtModifyDriverEntry", <<"PEFI_DRIVER_ENTRY">>>>,
  <<"ZwNotifyChangeDirectoryFile", "NtNotifyChangeDirectoryFile", <<"HANDLE", "HANDLE", "PIO_APC_ROUTINE", "PVOID",
    "PIO_STATUS_BLOCK", "PVOID", "ULONG", "ULONG", "BOOLEAN">>>>,
  <<"ZwNotifyChangeDirectoryFileEx", "NtNotifyChangeDirectoryFileEx", <<"HANDLE", "HANDLE", "PIO_APC_ROUTINE",
    "PVOID", "PIO_STATUS_BLOCK", "PVOID", "ULONG", "ULONG", "BOOLEAN", "DIRECTORY_NOTIFY_INFORMATION_CLASS">>>>>>

FromZwNotifyChangeKey == <<
  <<"ZwNotifyChangeKey", "NtNotifyChangeKey", <<"HANDLE", "HANDLE", "PIO_APC_ROUTINE", "PVOID", "PIO_STATUS_BLOCK",
    "ULONG", "BOOLEAN", "PVOID", "ULONG", "BOOLEAN">>>>,
  <<"ZwNotifyChangeMultipleKeys", "NtNotifyChangeMultipleKeys", <<"HANDLE", "ULONG", "OBJECT_ATTRIBUTES", "HANDLE",
    "PIO_APC_ROUTINE", "PVOID", "PIO_STATUS_BLOCK", "ULONG", "BOOLEAN", "PVOID", "ULONG", "BOOLEAN">>>>,
  <<"ZwNotifyChangeSession", "NtNotifyChangeSession", <<"HANDLE", "ULONG", "PLARGE_INTEGER", "IO_SESSION_EVENT",
    "IO_SESSION_STATE", "IO_SESSION_STATE", "PVOID", "ULONG">>>>,
  <<"ZwOpenCpuPartition", "NtOpenCpuPartition", <<"PHANDLE", "ACCESS_MASK", "POBJECT_ATTRIBUTES">>>>,
  <<"ZwOpenDirectoryObject", "NtOpenDirectoryObject", <<"PHANDLE", "ACCESS_MASK", "POBJECT_ATTRIBUTES">>>>>>

FromZwOpenEnlistment == <<
  <<"ZwOpenEnlistment", "NtOpenEnlistment", <<"PHANDLE", "ACCESS_MASK", "HANDLE", "LPGUID", "POBJECT_ATTRIBUTES">>>>,
  <<"ZwOpenEvent", "NtOpenEvent", <<"PHANDLE", "ACCESS_MASK", "POBJECT_ATTRIBUTES">>>>,
  <<"ZwOpenEventPair", "NtOpenEventPair", <<"PHANDLE", "ACCESS_MASK", "PCOBJECT_ATTRIBUTES">>>>,
  <<"ZwOpenFile", "NtOpenFile", <<"PHANDLE", "ACCESS_MASK", "PCOBJECT_ATTRIBUTES", "PIO_STATUS_BLOCK", "ULONG",
    "ULONG">>>>,
  <<"ZwOpenIoCompletion", "NtOpenIoCompletion", <<"PHANDLE", "ACCESS_MASK", "PCOBJECT_ATTRIBUTES">>>>,
  <<"ZwOpenJobObject", "NtOpenJobObject", <<"PHANDLE", "ACCESS_MASK", "PCOBJECT_ATTRIBUTES">>>>,
  <<"ZwOpenKey", "NtOpenKey", <<"PHANDLE", "ACCESS_MASK", "POBJECT_ATTRIBUTES">>>>>>

FromZwOpenKeyEx == <<
  <<"ZwOpenKeyEx", "NtOpenKeyEx", <<"PHANDLE", "ACCESS_MASK", "POBJECT_ATTRIBUTES", "ULONG">>>>,
  <<"ZwOpenKeyTransacted", "NtOpenKeyTransacted", <<"PHANDLE", "ACCESS_MASK", "POBJECT_ATTRIBUTES", "HANDLE">>>>,
  <<"ZwOpenKeyTransactedEx", "NtOpenKeyTransactedEx", <<"PHANDLE", "ACCESS_MASK", "POBJECT_ATTRIBUTES", "ULONG",
    "HANDLE">>>>,
  <<"ZwOpenKeyedEvent", "NtOpenKeyedEvent", <<"PHANDLE", "ACCESS_MASK", "PCOBJECT_ATTRIBUTES">>>>,
  <<"ZwOpenMutant", "NtOpenMutant", <<"PHANDLE", "ACCESS_MASK", "PCOBJECT_ATTRIBUTES">>>>,
  <<"ZwOpenObjectAuditAlarm", "NtOpenObjectAuditAlarm", <<"PCUNICODE_STRING", "PVOID", "PCUNICODE_STRING",
    "PCUNICODE_STRING", "PSECURITY_DESCRIPTOR", "HANDLE", "ACCESS_MASK", "ACCESS_MASK", "PPRIVILEGE_SET", "BOOLEAN",
    "BOOLEAN", "PBOOLEAN">>>>>>

FromZwOpenPartition == <<
  <<"ZwOpenPartition", "NtOpenPartition", <<"PHANDLE", "ACCESS_MASK", "PCOBJECT_ATTRIBUTES">>>>,
  <<"ZwOpenPrivateNamespace", "NtOpenPrivateNamespace", <<"PHANDLE", "ACCESS_MASK", "POBJECT_ATTRIBUTES",
    "POBJECT_BOUNDARY_DESCRIPTOR">>>>,
  <<"ZwOpenProcess", "NtOpenProcess", <<"PHANDLE", "ACCESS_MASK", "PCOBJECT_ATTRIBUTES", "PCLIENT_ID">>>>,
  <<"ZwOpenProcessToken", "NtOpenProcessToken", <<"HANDLE", "ACCESS_MASK", "PHANDLE">>>>,
  <<"ZwOpenProcessTokenEx", "NtOpenProcessTokenEx", <<"HANDLE", "ACCESS_MASK", "ULONG", "PHANDLE">>>>,
  <<"ZwOpenRegistryTransaction", "NtOpenRegistryTransaction", <<"HANDLE*", "ACCESS_MASK", "POBJECT_ATTRIBUTES">>>>,
  <<"ZwOpenResourceManager", "NtOpenResourceManager", <<"PHANDLE", "ACCESS_MASK", "HANDLE", "LPGUID",
    "POBJECT_ATTRIBUTES">>>>>>

FromZwOpenSection == <<
  <<"ZwOpenSection", "NtOpenSection", <<"PHANDLE", "ACCESS_MASK", "PCOBJECT_ATTRIBUTES">>>>,
  <<"ZwOpenSemaphore", "NtOpenSemaphore", <<"PHANDLE", "ACCESS_MASK", "PCOBJECT_ATTRIBUTES">>>>,
  <<"ZwOpenSession", "NtOpenSession", <<"PHANDLE", "ACCESS_MASK", "POBJECT_ATTRIBUTES">>>>,
  <<"ZwOpenSymbolicLinkObject", "NtOpenSymbolicLinkObject", <<"PHANDLE", "ACCESS_MASK", "POBJECT_ATTRIBUTES">>>>,
  <<"ZwOpenThread", "NtOpenThread", <<"PHANDLE", "ACCESS_MASK", "PCOBJECT_ATTRIBUTES", "PCLIENT_ID">>>>,
  <<"ZwOpenThreadToken", "NtOpenThreadToken", <<"HANDLE", "ACCESS_MASK", "BOOLEAN", "PHANDLE">>>>,
  <<"ZwOpenThreadTokenEx", "NtOpenThreadTokenEx", <<"HANDLE", "ACCESS_MASK", "BOOLEAN", "ULONG", "PHANDLE">>>>>>

FromZwOpenTimer == <<
  <<"ZwOpenTimer", "NtOpenTimer", <<"PHANDLE", "ACCESS_MASK", "PCOBJECT_ATTRIBUTES">>>>,
  <<"ZwOpenTransaction", "NtOpenTransaction", <<"PHANDLE", "ACCESS_MASK", "POBJECT_ATTRIBUTES", "LPGUID",
    "HANDLE">>>>,
  <<"ZwOpenTransactionManager", "NtOpenTransactionManager", <<"PHANDLE", "ACCESS_MASK", "POBJECT_ATTRIBUTES",
    "PCUNICODE_STRING", "LPGUID", "ULONG">>>>,
  <<"ZwPlugPlayControl", "NtPlugPlayControl", <<"PLUGPLAY_CONTROL_CLASS", "PVOID", "ULONG">>>>,
  <<"ZwPowerInformation", "NtPowerInformation", <<"POWER_INFORMATION_LEVEL", "PVOID", "ULONG", "PVOID", "ULONG">>>>,
  <<"ZwPrePrepareComplete", "NtPrePrepareComplete", <<"HANDLE", "PLARGE_INTEGER">>>>,
  <<"ZwPrePrepareEnlistment", "NtPrePrepareEnlistment", <<"HANDLE", "PLARGE_INTEGER">>>>>>

FromZwPrepareComplete == <<
  <<"ZwPrepareComplete", "NtPrepareComplete", <<"HANDLE", "PLARGE_INTEGER">>>>,
  <<"ZwPrepareEnlistment", "NtPrepareEnlistment", <<"HANDLE", "PLARGE_INTEGER">>>>,
  <<"ZwPrivilegeCheck", "NtPrivilegeCheck", <<"HANDLE", "PPRIVILEGE_SET", "PBOOLEAN">>>>,
  <<"ZwPrivilegeObjectAuditAlarm", "NtPrivilegeObjectAuditAlarm", <<"PCUNICODE_STRING", "PVOID", "HANDLE",
    "ACCESS_MASK", "PPRIVILEGE_SET", "BOOLEAN">>>>,
  <<"ZwPrivilegedServiceAuditAlarm", "NtPrivilegedServiceAuditAlarm", <<"PCUNICODE_STRING", "PCUNICODE_STRING",
    "HANDLE", "PPRIVILEGE_SET", "BOOLEAN">>>>,
  <<"ZwPropagationComplete", "NtPropagationComplete", <<"HANDLE", "ULONG", "ULONG", "PVOID">>>>,
  <<"ZwPropagationFailed", "NtPropagationFailed", <<"HANDLE", "ULONG", "NTSTATUS">>>>>>

FromZwProtectVirtualMemory == <<
  <<"ZwProtectVirtualMemory", "NtProtectVirtualMemory", <<"HANDLE", "PVOID*", "PSIZE_T", "ULONG", "PULONG">>>>,
  <<"ZwPssCaptureVaSpaceBulk", "NtPssCaptureVaSpaceBulk", <<"HANDLE", "PVOID", "PNTPSS_MEMORY_BULK_INFORMATION",
    "SIZE_T", "PSIZE_T">>>>,
  <<"ZwPulseEvent", "NtPulseEvent", <<"HANDLE", "PLONG">>>>,
  <<"ZwQueryAttributesFile", "NtQueryAttributesFile", <<"PCOBJECT_ATTRIBUTES", "PFILE_BASIC_INFORMATION">>>>,
  <<"ZwQueryAuxiliaryCounterFrequency", "NtQueryAuxiliaryCounterFrequency", <<"PULONG64">>>>,
  <<"ZwQueryBootEntryOrder", "NtQueryBootEntryOrder", <<"PULONG", "PULONG">>>>,
  <<"ZwQueryBootOptions", "NtQueryBootOptions", <<"PBOOT_OPTIONS", "PULONG">>>>,
  <<"ZwQueryDebugFilterState", "NtQueryDebugFilterState", <<"ULONG", "ULONG">>>>>>

FromZwQueryDefaultLocale == <<
  <<"ZwQueryDefaultLocale", "NtQueryDefaultLocale", <<"BOOLEAN", "PLCID">>>>,
  <<"ZwQueryDefaultUILanguage", "NtQueryDefaultUILanguage", <<"LANGID*">>>>,
  <<"ZwQueryDirectoryFile", "NtQueryDirectoryFile", <<"HANDLE", "HANDLE", "PIO_APC_ROUTINE", "PVOID",
    "PIO_STATUS_BLOCK", "PVOID", "ULONG", "FILE_INFORMATION_CLASS", "BOOLEAN", "PCUNICODE_STRING", "BOOLEAN">>>>,
  <<"ZwQueryDirectoryFileEx", "NtQueryDirectoryFileEx", <<"HANDLE", "HANDLE", "PIO_APC_ROUTINE", "PVOID",
    "PIO_STATUS_BLOCK", "PVOID", "ULONG", "FILE_INFORMATION_CLASS", "ULONG", "PCUNICODE_STRING">>>>,
  <<"ZwQueryDirectoryObject", "NtQueryDirectoryObject", <<"HANDLE", "PVOID", "ULONG", "BOOLEAN", "BOOLEAN", "PULONG",
    "PULONG">>>>,
  <<"ZwQueryDriverEntryOrder", "NtQueryDriverEntryOrder", <<"PULONG", "PULONG">>>>>>

FromZwQueryEaFile == <<
  <<"ZwQueryEaFile", "NtQueryEaFile", <<"HANDLE", "PIO_STATUS_BLOCK", "PVOID", "ULONG", "BOOLEAN", "PVOID", "ULONG",
    "PULONG", "BOOLEAN">>>>,
  <<"ZwQueryEvent", "NtQueryEvent", <<"HANDLE", "EVENT_INFORMATION_CLASS", "PVOID", "ULONG", "PULONG">>>>,
  <<"ZwQueryFullAttributesFile", "NtQueryFullAttributesFile", <<"PCOBJECT_ATTRIBUTES",
    "PFILE_NETWORK_OPEN_INFORMATION">>>>,
  <<"ZwQueryInformationAtom", "NtQueryInformationAtom", <<"RTL_ATOM", "ATOM_INFORMATION_CLASS", "PVOID", "ULONG",
    "PULONG">>>>,
  <<"ZwQueryInformationByName", "NtQueryInformationByName", <<"PCOBJECT_ATTRIBUTES", "PIO_STATUS_BLOCK", "PVOID",
    "ULONG", "FILE_INFORMATION_CLASS">>>>,
  <<"ZwQueryInformationCpuPartition", "NtQueryInformationCpuPartition", <<"HANDLE", "ULONG", "PVOID", "ULONG",
    "PULONG">>>>>>

FromZwQueryInformationEnlistment == <<
  <<"ZwQueryInformationEnlistment", "NtQueryInformationEnlistment", <<"HANDLE", "ENLISTMENT_INFORMATION_CLASS",
    "PVOID", "ULONG", "PULONG">>>>,
  <<"ZwQueryInformationFile", "NtQueryInformationFile", <<"HANDLE", "PIO_STATUS_BLOCK", "PVOID", "ULONG",
    "FILE_INFORMATION_CLASS">>>>,
  <<"ZwQueryInformationJobObject", "NtQueryInformationJobObject", <<"HANDLE", "JOBOBJECTINFOCLASS", "PVOID", "ULONG",
    "PULONG">>>>,
  <<"ZwQueryInformationPort", "NtQueryInformationPort", <<"HANDLE", "PORT_INFORMATION_CLASS", "PVOID", "ULONG",
    "PULONG">>>>,
  <<"ZwQueryInformationProcess", "NtQueryInformationProcess", <<"HANDLE", "PROCESSINFOCLASS", "PVOID", "ULONG",
    "PULONG">>>>,
  <<"ZwQueryInformationResourceManager", "NtQueryInformationResourceManager", <<"HANDLE",
    "RESOURCEMANAGER_INFORMATION_CLASS", "PVOID", "ULONG", "PULONG">>>>>>

FromZwQueryInformationThread == <<
  <<"ZwQueryInformationThread", "NtQueryInformationThread", <<"HANDLE", "THREADINFOCLASS", "PVOID", "ULONG",
    "PULONG">>>>,
  <<"ZwQueryInformationToken", "NtQueryInformationToken", <<"HANDLE", "TOKEN_INFORMATION_CLASS", "PVOID", "ULONG",
    "PULONG">>>>,
  <<"ZwQueryInformationTransaction", "NtQueryInformationTransaction", <<"HANDLE", "TRANSACTION_INFORMATION_CLASS",
    "PVOID", "ULONG", "PULONG">>>>,
  <<"ZwQueryInformationTransactionManager", "NtQueryInformationTransactionManager", <<"HANDLE",
    "TRANSACTIONMANAGER_INFORMATION_CLASS", "PVOID", "ULONG", "PULONG">>>>,
  <<"ZwQueryInformationWorkerFactory", "NtQueryInformationWorkerFactory", <<"HANDLE", "WORKERFACTORYINFOCLASS",
    "PVOID", "ULONG", "PULONG">>>>,
  <<"ZwQueryInstallUILanguage", "NtQueryInstallUILanguage", <<"LANGID*">>>>,
  <<"ZwQueryIntervalProfile", "NtQueryIntervalProfile", <<"KPROFILE_SOURCE", "PULONG">>>>>>

FromZwQueryIoCompletion == <<
  <<"ZwQueryIoCompletion", "NtQueryIoCompletion", <<"HANDLE", "IO_COMPLETION_INFORMATION_CLASS", "PVOID", "ULONG",
    "PULONG">>>>,
  <<"ZwQueryIoRingCapabilities", "NtQueryIoRingCapabilities", <<"SIZE_T", "PVOID">>>>,
  <<"ZwQueryKey", "NtQueryKey", <<"HANDLE", "KEY_INFORMATION_CLASS", "PVOID", "ULONG", "PULONG">>>>,
  <<"ZwQueryLicenseValue", "NtQueryLicenseValue", <<"PCUNICODE_STRING", "PULONG", "PVOID", "ULONG", "PULONG">>>>,
  <<"ZwQueryMultipleValueKey", "NtQueryMultipleValueKey", <<"HANDLE", "PKEY_VALUE_ENTRY", "ULONG", "PVOID", "PULONG",
    "PULONG">>>>,
  <<"ZwQueryMutant", "NtQueryMutant", <<"HANDLE", "MUTANT_INFORMATION_CLASS", "PVOID", "ULONG", "PULONG">>>>>>

FromZwQueryObject == <<
  <<"ZwQueryObject", "NtQueryObject", <<"HANDLE", "OBJECT_INFORMATION_CLASS", "PVOID", "ULONG", "PULONG">>>>,
  <<"ZwQueryOpenSubKeys", "NtQueryOpenSubKeys", <<"POBJECT_ATTRIBUTES", "PULONG">>>>,
  <<"ZwQueryOpenSubKeysEx", "NtQueryOpenSubKeysEx", <<"POBJECT_ATTRIBUTES", "ULONG", "PVOID", "PULONG">>>>,
  <<"ZwQueryPerformanceCounter", "NtQueryPerformanceCounter", <<"PLARGE_INTEGER", "PLARGE_INTEGER">>>>,
  <<"ZwQueryPortInformationProcess", "NtQueryPortInformationProcess", <<>>>>,
  <<"ZwQueryQuotaInformationFile", "NtQueryQuotaInformationFile", <<"HANDLE", "PIO_STATUS_BLOCK", "PVOID", "ULONG",
    "BOOLEAN", "PVOID", "ULONG", "PSID", "BOOLEAN">>>>,
  <<"ZwQuerySection", "NtQuerySection", <<"HANDLE", "SECTION_INFORMATION_CLASS", "PVOID", "SIZE_T", "PSIZE_T">>>>>>

FromZwQuerySecurityAttributesToken == <<
  <<"ZwQuerySecurityAttributesToken", "NtQuerySecurityAttributesToken", <<"HANDLE", "PCUNICODE_STRING", "ULONG",
    "PVOID", "ULONG", "PULONG">>>>,
  <<"ZwQuerySecurityObject", "NtQuerySecurityObject", <<"HANDLE", "SECURITY_INFORMATION", "PSECURITY_DESCRIPTOR",
    "ULONG", "PULONG">>>>,
  <<"ZwQuerySecurityPolicy", "NtQuerySecurityPolicy", <<"PCUNICODE_STRING", "PCUNICODE_STRING", "PCUNICODE_STRING",
    "SECURE_SETTING_VALUE_TYPE", "PVOID", "PULONG">>>>,
  <<"ZwQuerySemaphore", "NtQuerySemaphore", <<"HANDLE", "SEMAPHORE_INFORMATION_CLASS", "PVOID", "ULONG", "PULONG">>>>,
  <<"ZwQuerySymbolicLinkObject", "NtQuerySymbolicLinkObject", <<"HANDLE", "PUNICODE_STRING", "PULONG">>>>,
  <<"ZwQuerySystemEnvironmentValue", "NtQuerySystemEnvironmentValue", <<"PCUNICODE_STRING", "PWSTR", "USHORT",
    "PUSHORT">>>>>>

FromZwQuerySystemEnvironmentValueEx == <<
  <<"ZwQuerySystemEnvironmentValueEx", "NtQuerySystemEnvironmentValueEx", <<"PCUNICODE_STRING", "PCGUID", "PVOID",
    "PULONG", "PULONG">>>>,
  <<"ZwQuerySystemInformation", "NtQuerySystemInformation", <<"SYSTEM_INFORMATION_CLASS", "PVOID", "ULONG",
    "PULONG">>>>,
  <<"ZwQuerySystemInformationEx", "NtQuerySystemInformationEx", <<"SYSTEM_INFORMATION_CLASS", "PVOID", "ULONG",
    "PVOID", "ULONG", "PULONG">>>>,
  <<"ZwQuerySystemTime", "NtQuerySystemTime", <<"PLARGE_INTEGER">>>>,
  <<"ZwQueryTimer", "NtQueryTimer", <<"HANDLE", "TIMER_INFORMATION_CLASS", "PVOID", "ULONG", "PULONG">>>>,
  <<"ZwQueryTimerResolution", "NtQueryTimerResolution", <<"PULONG", "PULONG", "PULONG">>>>>>

FromZwQueryValueKey == <<
  <<"ZwQueryValueKey", "NtQueryValueKey", <<"HANDLE", "PCUNICODE_STRING", "KEY_VALUE_INFORMATION_CLASS", "PVOID",
    "ULONG", "PULONG">>>>,
  <<"ZwQueryVirtualMemory", "NtQueryVirtualMemory", <<"HANDLE", "PVOID", "MEMORY_INFORMATION_CLASS", "PVOID",
    "SIZE_T", "PSIZE_T">>>>,
  <<"ZwQueryVolumeInformationFile", "NtQueryVolumeInformationFile", <<"HANDLE", "PIO_STATUS_BLOCK", "PVOID", "ULONG",
    "FSINFOCLASS">>>>,
  <<"ZwQueryWnfStateData", "NtQueryWnfStateData", <<"PCWNF_STATE_NAME", "PCWNF_TYPE_ID", "PCSID", "PWNF_CHANGE_STAMP",
    "PVOID", "PULONG">>>>,
  <<"ZwQueryWnfStateNameInformation", "NtQueryWnfStateNameInformation", <<"PCWNF_STATE_NAME",
    "WNF_STATE_NAME_INFORMATION", "PCSID", "PVOID", "ULONG">>>>,
  <<"ZwQueueApcThread", "NtQueueApcThread", <<"HANDLE", "PPS_APC_ROUTINE", "PVOID", "PVOID", "PVOID">>>>>>

FromZwQueueApcThreadEx == <<
  <<"ZwQueueApcThreadEx", "NtQueueApcThreadEx", <<"HANDLE", "HANDLE", "PPS_APC_ROUTINE", "PVOID", "PVOID",
    "PVOID">>>>,
  <<"ZwQueueApcThreadEx2", "NtQueueApcThreadEx2", <<"HANDLE", "HANDLE", "ULONG", "PPS_APC_ROUTINE", "PVOID", "PVOID",
    "PVOID">>>>,
  <<"ZwRaiseException", "NtRaiseException", <<"PEXCEPTION_RECORD", "PCONTEXT", "BOOLEAN">>>>,
  <<"ZwRaiseHardError", "NtRaiseHardError", <<"NTSTATUS", "ULONG", "ULONG", "PULONG_PTR", "ULONG", "PULONG">>>>,
  <<"ZwReadFile", "NtReadFile", <<"HANDLE", "HANDLE", "PIO_APC_ROUTINE", "PVOID", "PIO_STATUS_BLOCK", "PVOID",
    "ULONG", "PLARGE_INTEGER", "PULONG">>>>>>

FromZwReadFileScatter == <<
  <<"ZwReadFileScatter", "NtReadFileScatter", <<"HANDLE", "HANDLE", "PIO_APC_ROUTINE", "PVOID", "PIO_STATUS_BLOCK",
    "PFILE_SEGMENT_ELEMENT", "ULONG", "PLARGE_INTEGER", "PULONG">>>>,
  <<"ZwReadOnlyEnlistment", "NtReadOnlyEnlistment", <<"HANDLE", "PLARGE_INTEGER">>>>,
  <<"ZwReadRequestData", "NtReadRequestData", <<"HANDLE", "PPORT_MESSAGE", "ULONG", "PVOID", "SIZE_T", "PSIZE_T">>>>,
  <<"ZwReadVirtualMemory", "NtReadVirtualMemory", <<"HANDLE", "PVOID", "PVOID", "SIZE_T", "PSIZE_T">>>>,
  <<"ZwReadVirtualMemoryEx", "NtReadVirtualMemoryEx", <<"HANDLE", "PVOID", "PVOID", "SIZE_T", "PSIZE_T", "ULONG">>>>,
  <<"ZwRecoverEnlistment", "NtRecoverEnlistment", <<"HANDLE", "PVOID">>>>>>

FromZwRecoverResourceManager == <<
  <<"ZwRecoverResourceManager", "NtRecoverResourceManager", <<"HANDLE">>>>,
  <<"ZwRecoverTransactionManager", "NtRecoverTransactionManager", <<"HANDLE">>>>,
  <<"ZwRegisterProtocolAddressInformation", "NtRegisterProtocolAddressInformation", <<"HANDLE", "PCRM_PROTOCOL_ID",
    "ULONG", "PVOID", "ULONG">>>>,
  <<"ZwRegisterThreadTerminatePort", "NtRegisterThreadTerminatePort", <<"HANDLE">>>>,
  <<"ZwReleaseKeyedEvent", "NtReleaseKeyedEvent", <<"HANDLE", "PVOID", "BOOLEAN", "PLARGE_INTEGER">>>>,
  <<"ZwReleaseMutant", "NtReleaseMutant", <<"HANDLE", "PLONG">>>>,
  <<"ZwReleaseSemaphore", "NtReleaseSemaphore", <<"HANDLE", "LONG", "PLONG">>>>,
  <<"ZwReleaseWorkerFactoryWorker", "NtReleaseWorkerFactoryWorker", <<"HANDLE">>>>>>

FromZwRemoveIoCompletion == <<
  <<"ZwRemoveIoCompletion", "NtRemoveIoCompletion", <<"HANDLE", "PVOID*", "PVOID*", "PIO_STATUS_BLOCK",
    "PLARGE_INTEGER">>>>,
  <<"ZwRemoveIoCompletionEx", "NtRemoveIoCompletionEx", <<"HANDLE", "PFILE_IO_COMPLETION_INFORMATION", "ULONG",
    "PULONG", "PLARGE_INTEGER", "BOOLEAN">>>>,
  <<"ZwRemoveProcessDebug", "NtRemoveProcessDebug", <<"HANDLE", "HANDLE">>>>,
  <<"ZwRenameKey", "NtRenameKey", <<"HANDLE", "PCUNICODE_STRING">>>>,
  <<"ZwRenameTransactionManager", "NtRenameTransactionManager", <<"PCUNICODE_STRING", "LPGUID">>>>,
  <<"ZwReplaceKey", "NtReplaceKey", <<"POBJECT_ATTRIBUTES", "HANDLE", "POBJECT_ATTRIBUTES">>>>,
  <<"ZwReplacePartitionUnit", "NtReplacePartitionUnit", <<"PCUNICODE_STRING", "PCUNICODE_STRING", "ULONG">>>>>>

FromZwReplyPort == <<
  <<"ZwReplyPort", "NtReplyPort", <<"HANDLE", "PPORT_MESSAGE">>>>,
  <<"ZwReplyWaitReceivePort", "NtReplyWaitReceivePort", <<"HANDLE", "PVOID*", "PPORT_MESSAGE", "PPORT_MESSAGE">>>>,
  <<"ZwReplyWaitReceivePortEx", "NtReplyWaitReceivePortEx", <<"HANDLE", "PVOID*", "PPORT_MESSAGE", "PPORT_MESSAGE",
    "PLARGE_INTEGER">>>>,
  <<"ZwReplyWaitReplyPort", "NtReplyWaitReplyPort", <<"HANDLE", "PPORT_MESSAGE">>>>,
  <<"ZwRequestPort", "NtRequestPort", <<"HANDLE", "PPORT_MESSAGE">>>>,
  <<"ZwRequestWaitReplyPort", "NtRequestWaitReplyPort", <<"HANDLE", "PPORT_MESSAGE", "PPORT_MESSAGE">>>>,
  <<"ZwResetEvent", "NtResetEvent", <<"HANDLE", "PLONG">>>>,
  <<"ZwResetWriteWatch", "NtResetWriteWatch", <<"HANDLE", "PVOID", "SIZE_T">>>>>>

FromZwRestoreKey == <<
  <<"ZwRestoreKey", "NtRestoreKey", <<"HANDLE", "HANDLE", "ULONG">>>>,
  <<"ZwResumeProcess", "NtResumeProcess", <<"HANDLE">>>>,
  <<"ZwResumeThread", "NtResumeThread", <<"HANDLE", "PULONG">>>>,
  <<"ZwRevertContainerImpersonation", "NtRevertContainerImpersonation", <<>>>>,
  <<"ZwRollbackComplete", "NtRollbackComplete", <<"HANDLE", "PLARGE_INTEGER">>>>,
  <<"ZwRollbackEnlistment", "NtRollbackEnlistment", <<"HANDLE", "PLARGE_INTEGER">>>>,
  <<"ZwRollbackRegistryTransaction", "NtRollbackRegistryTransaction", <<"HANDLE", "ULONG">>>>,
  <<"ZwRollbackTransaction", "NtRollbackTransaction", <<"HANDLE", "BOOLEAN">>>>,
  <<"ZwRollforwardTransactionManager", "NtRollforwardTransactionManager", <<"HANDLE", "PLARGE_INTEGER">>>>>>

FromZwSaveKey == <<
  <<"ZwSaveKey", "NtSaveKey", <<"HANDLE", "HANDLE">>>>,
  <<"ZwSaveKeyEx", "NtSaveKeyEx", <<"HANDLE", "HANDLE", "ULONG">>>>,
  <<"ZwSaveMergedKeys", "NtSaveMergedKeys", <<"HANDLE", "HANDLE", "HANDLE">>>>,
  <<"ZwSecureConnectPort", "NtSecureConnectPort", <<"PHANDLE", "PCUNICODE_STRING", "PSECURITY_QUALITY_OF_SERVICE",
    "PPORT_VIEW", "PSID", "PREMOTE_PORT_VIEW", "PULONG", "PVOID", "PULONG">>>>,
  <<"ZwSerializeBoot", "NtSerializeBoot", <<>>>>,
  <<"ZwSetBootEntryOrder", "NtSetBootEntryOrder", <<"PULONG", "ULONG">>>>,
  <<"ZwSetBootOptions", "NtSetBootOptions", <<"PBOOT_OPTIONS", "ULONG">>>>>>

FromZwSetCachedSigningLevel == <<
  <<"ZwSetCachedSigningLevel", "NtSetCachedSigningLevel", <<"ULONG", "SE_SIGNING_LEVEL", "PHANDLE", "ULONG",
    "HANDLE">>>>,
  <<"ZwSetCachedSigningLevel2", "NtSetCachedSigningLevel2", <<"ULONG", "SE_SIGNING_LEVEL", "PHANDLE", "ULONG",
    "HANDLE", "SE_SET_FILE_CACHE_INFORMATION*">>>>,
  <<"ZwSetContextThread", "NtSetContextThread", <<"HANDLE", "PCONTEXT">>>>,
  <<"ZwSetDebugFilterState", "NtSetDebugFilterState", <<"ULONG", "ULONG", "BOOLEAN">>>>,
  <<"ZwSetDefaultHardErrorPort", "NtSetDefaultHardErrorPort", <<"HANDLE">>>>,
  <<"ZwSetDefaultLocale", "NtSetDefaultLocale", <<"BOOLEAN", "LCID">>>>,
  <<"ZwSetDefaultUILanguage", "NtSetDefaultUILanguage", <<"LANGID">>>>,
  <<"ZwSetDriverEntryOrder", "NtSetDriverEntryOrder", <<"PULONG", "ULONG">>>>>>

FromZwSetEaFile == <<
  <<"ZwSetEaFile", "NtSetEaFile", <<"HANDLE", "PIO_STATUS_BLOCK", "PVOID", "ULONG">>>>,
  <<"ZwSetEvent", "NtSetEvent", <<"HANDLE", "PLONG">>>>,
  <<"ZwSetEventBoostPriority", "NtSetEventBoostPriority", <<"HANDLE">>>>,
  <<"ZwSetEventEx", "NtSetEventEx", <<"HANDLE", "PRTL_SRWLOCK">>>>,
  <<"ZwSetHighEventPair", "NtSetHighEventPair", <<"HANDLE">>>>,
  <<"ZwSetHighWaitLowEventPair", "NtSetHighWaitLowEventPair", <<"HANDLE">>>>,
  <<"ZwSetIRTimer", "NtSetIRTimer", <<"HANDLE", "PLARGE_INTEGER">>>>,
  <<"ZwSetInformationCpuPartition", "NtSetInformationCpuPartition", <<"HANDLE", "ULONG", "PVOID", "ULONG", "PVOID",
    "ULONG", "ULONG">>>>>>

FromZwSetInformationDebugObject == <<
  <<"ZwSetInformationDebugObject", "NtSetInformationDebugObject", <<"HANDLE", "DEBUGOBJECTINFOCLASS", "PVOID",
    "ULONG", "PULONG">>>>,
  <<"ZwSetInformationEnlistment", "NtSetInformationEnlistment", <<"HANDLE", "ENLISTMENT_INFORMATION_CLASS", "PVOID",
    "ULONG">>>>,
  <<"ZwSetInformationFile", "NtSetInformationFile", <<"HANDLE", "PIO_STATUS_BLOCK", "PVOID", "ULONG",
    "FILE_INFORMATION_CLASS">>>>,
  <<"ZwSetInformationIoRing", "NtSetInformationIoRing", <<"HANDLE", "ULONG", "ULONG", "PVOID">>>>,
  <<"ZwSetInformationJobObject", "NtSetInformationJobObject", <<"HANDLE", "JOBOBJECTINFOCLASS", "PVOID", "ULONG">>>>,
  <<"ZwSetInformationKey", "NtSetInformationKey", <<"HANDLE", "KEY_SET_INFORMATION_CLASS", "PVOID", "ULONG">>>>>>

FromZwSetInformationObject == <<
  <<"ZwSetInformationObject", "NtSetInformationObject", <<"HANDLE", "OBJECT_INFORMATION_CLASS", "PVOID", "ULONG">>>>,
  <<"ZwSetInformationProcess", "NtSetInformationProcess", <<"HANDLE", "PROCESSINFOCLASS", "PVOID", "ULONG">>>>,
  <<"ZwSetInformationResourceManager", "NtSetInformationResourceManager", <<"HANDLE",
    "RESOURCEMANAGER_INFORMATION_CLASS", "PVOID", "ULONG">>>>,
  <<"ZwSetInformationSymbolicLink", "NtSetInformationSymbolicLink", <<"HANDLE", "SYMBOLIC_LINK_INFO_CLASS", "PVOID",
    "ULONG">>>>,
  <<"ZwSetInformationThread", "NtSetInformationThread", <<"HANDLE", "THREADINFOCLASS", "PVOID", "ULONG">>>>,
  <<"ZwSetInformationToken", "NtSetInformationToken", <<"HANDLE", "TOKEN_INFORMATION_CLASS", "PVOID", "ULONG">>>>,
  <<"ZwSetInformationTransaction", "NtSetInformationTransaction", <<"HANDLE", "TRANSACTION_INFORMATION_CLASS",
    "PVOID", "ULONG">>>>>>

FromZwSetInformationTransactionManager == <<
  <<"ZwSetInformationTransactionManager", "NtSetInformationTransactionManager", <<"HANDLE",
    "TRANSACTIONMANAGER_INFORMATION_CLASS", "PVOID", "ULONG">>>>,
  <<"ZwSetInformationVirtualMemory", "NtSetInformationVirtualMemory", <<"HANDLE", "VIRTUAL_MEMORY_INFORMATION_CLASS",
    "SIZE_T", "PMEMORY_RANGE_ENTRY", "PVOID", "ULONG">>>>,
  <<"ZwSetInformationWorkerFactory", "NtSetInformationWorkerFactory", <<"HANDLE", "WORKERFACTORYINFOCLASS", "PVOID",
    "ULONG">>>>,
  <<"ZwSetIntervalProfile", "NtSetIntervalProfile", <<"ULONG", "KPROFILE_SOURCE">>>>,
  <<"ZwSetIoCompletion", "NtSetIoCompletion", <<"HANDLE", "PVOID", "PVOID", "NTSTATUS", "ULONG_PTR">>>>,
  <<"ZwSetIoCompletionEx", "NtSetIoCompletionEx", <<"HANDLE", "HANDLE", "PVOID", "PVOID", "NTSTATUS",
    "ULONG_PTR">>>>>>

FromZwSetLdtEntries == <<
  <<"ZwSetLdtEntries", "NtSetLdtEntries", <<"ULONG", "ULONG", "ULONG", "ULONG", "ULONG", "ULONG">>>>,
  <<"ZwSetLowEventPair", "NtSetLowEventPair", <<"HANDLE">>>>,
  <<"ZwSetLowWaitHighEventPair", "NtSetLowWaitHighEventPair", <<"HANDLE">>>>,
  <<"ZwSetQuotaInformationFile", "NtSetQuotaInformationFile", <<"HANDLE", "PIO_STATUS_BLOCK", "PVOID", "ULONG">>>>,
  <<"ZwSetSecurityObject", "NtSetSecurityObject", <<"HANDLE", "SECURITY_INFORMATION", "PSECURITY_DESCRIPTOR">>>>,
  <<"ZwSetSystemEnvironmentValue", "NtSetSystemEnvironmentValue", <<"PCUNICODE_STRING", "PCUNICODE_STRING">>>>,
  <<"ZwSetSystemEnvironmentValueEx", "NtSetSystemEnvironmentValueEx", <<"PCUNICODE_STRING", "PCGUID", "PVOID",
    "ULONG", "ULONG">>>>>>

FromZwSetSystemInformation == <<
  <<"ZwSetSystemInformation", "NtSetSystemInformation", <<"SYSTEM_INFORMATION_CLASS", "PVOID", "ULONG">>>>,
  <<"ZwSetSystemPowerState", "NtSetSystemPowerState", <<"POWER_ACTION", "SYSTEM_POWER_STATE", "ULONG">>>>,
  <<"ZwSetSystemTime", "NtSetSystemTime", <<"PLARGE_INTEGER", "PLARGE_INTEGER">>>>,
  <<"ZwSetThreadExecutionState", "NtSetThreadExecutionState", <<"EXECUTION_STATE", "EXECUTION_STATE*">>>>,
  <<"ZwSetTimer", "NtSetTimer", <<"HANDLE", "PLARGE_INTEGER", "PTIMER_APC_ROUTINE", "PVOID", "BOOLEAN", "LONG",
    "PBOOLEAN">>>>,
  <<"ZwSetTimer2", "NtSetTimer2", <<"HANDLE", "PLARGE_INTEGER", "PLARGE_INTEGER", "PT2_SET_PARAMETERS">>>>,
  <<"ZwSetTimerEx", "NtSetTimerEx", <<"HANDLE", "TIMER_SET_INFORMATION_CLASS", "PVOID", "ULONG">>>>>>

FromZwSetTimerResolution == <<
  <<"ZwSetTimerResolution", "NtSetTimerResolution", <<"ULONG", "BOOLEAN", "PULONG">>>>,
  <<"ZwSetUuidSeed", "NtSetUuidSeed", <<"PCHAR">>>>,
  <<"ZwSetValueKey", "NtSetValueKey", <<"HANDLE", "PCUNICODE_STRING", "ULONG", "ULONG", "PVOID", "ULONG">>>>,
  <<"ZwSetVolumeInformationFile", "NtSetVolumeInformationFile", <<"HANDLE", "PIO_STATUS_BLOCK", "PVOID", "ULONG",
    "FSINFOCLASS">>>>,
  <<"ZwSetWnfProcessNotificationEvent", "NtSetWnfProcessNotificationEvent", <<"HANDLE">>>>,
  <<"ZwShutdownSystem", "NtShutdownSystem", <<"SHUTDOWN_ACTION">>>>,
  <<"ZwShutdownWorkerFactory", "NtShutdownWorkerFactory", <<"HANDLE", "volatile LONG*">>>>,
  <<"ZwSignalAndWaitForSingleObject", "NtSignalAndWaitForSingleObject", <<"HANDLE", "HANDLE", "BOOLEAN",
    "PLARGE_INTEGER">>>>>>

FromZwSinglePhaseReject == <<
  <<"ZwSinglePhaseReject", "NtSinglePhaseReject", <<"HANDLE", "PLARGE_INTEGER">>>>,
  <<"ZwStartProfile", "NtStartProfile", <<"HANDLE">>>>,
  <<"ZwStopProfile", "NtStopProfile", <<"HANDLE">>>>,
  <<"ZwSubmitIoRing", "NtSubmitIoRing", <<"HANDLE", "ULONG", "ULONG", "PLARGE_INTEGER">>>>,
  <<"ZwSubscribeWnfStateChange", "NtSubscribeWnfStateChange", <<"PCWNF_STATE_NAME", "WNF_CHANGE_STAMP", "ULONG",
    "PULONG64">>>>,
  <<"ZwSuspendProcess", "NtSuspendProcess", <<"HANDLE">>>>,
  <<"ZwSuspendThread", "NtSuspendThread", <<"HANDLE", "PULONG">>>>,
  <<"ZwSystemDebugControl", "NtSystemDebugControl", <<"SYSDBG_COMMAND", "PVOID", "ULONG", "PVOID", "ULONG",
    "PULONG">>>>>>

FromZwTerminateEnclave == <<
  <<"ZwTerminateEnclave", "NtTerminateEnclave", <<"PVOID", "ULONG">>>>,
  <<"ZwTerminateJobObject", "NtTerminateJobObject", <<"HANDLE", "NTSTATUS">>>>,
  <<"ZwTerminateProcess", "NtTerminateProcess", <<"HANDLE", "NTSTATUS">>>>,
  <<"ZwTerminateThread", "NtTerminateThread", <<"HANDLE", "NTSTATUS">>>>,
  <<"ZwTestAlert", "NtTestAlert", <<>>>>,
  <<"ZwThawRegistry", "NtThawRegistry", <<>>>>,
  <<"ZwThawTransactions", "NtThawTransactions", <<>>>>,
  <<"ZwTraceControl", "NtTraceControl", <<"ETWTRACECONTROLCODE", "PVOID", "ULONG", "PVOID", "ULONG", "PULONG">>>>,
  <<"ZwTraceEvent", "NtTraceEvent", <<"HANDLE", "ULONG", "ULONG", "PVOID">>>>>>

FromZwTranslateFilePath == <<
  <<"ZwTranslateFilePath", "NtTranslateFilePath", <<"PFILE_PATH", "ULONG", "PFILE_PATH", "PULONG">>>>,
  <<"ZwUmsThreadYield", "NtUmsThreadYield", <<"PVOID">>>>,
  <<"ZwUnloadDriver", "NtUnloadDriver", <<"PCUNICODE_STRING">>>>,
  <<"ZwUnloadKey", "NtUnloadKey", <<"POBJECT_ATTRIBUTES">>>>,
  <<"ZwUnloadKey2", "NtUnloadKey2", <<"POBJECT_ATTRIBUTES", "ULONG">>>>,
  <<"ZwUnloadKeyEx", "NtUnloadKeyEx", <<"POBJECT_ATTRIBUTES", "HANDLE">>>>,
  <<"ZwUnlockFile", "NtUnlockFile", <<"HANDLE", "PIO_STATUS_BLOCK", "PLARGE_INTEGER", "PLARGE_INTEGER", "ULONG">>>>,
  <<"ZwUnlockVirtualMemory", "NtUnlockVirtualMemory", <<"HANDLE", "PVOID*", "PSIZE_T", "ULONG">>>>>>

FromZwUnmapViewOfSection == <<
  <<"ZwUnmapViewOfSection", "NtUnmapViewOfSection", <<"HANDLE", "PVOID">>>>,
  <<"ZwUnmapViewOfSectionEx", "NtUnmapViewOfSectionEx", <<"HANDLE", "PVOID", "ULONG">>>>,
  <<"ZwUnsubscribeWnfStateChange", "NtUnsubscribeWnfStateChange", <<"PCWNF_STATE_NAME">>>>,
  <<"ZwUpdateWnfStateData", "NtUpdateWnfStateData", <<"PCWNF_STATE_NAME", "const VOID*", "ULONG", "PCWNF_TYPE_ID",
    "PCSID", "WNF_CHANGE_STAMP", "LOGICAL">>>>,
  <<"ZwVdmControl", "NtVdmControl", <<"VDMSERVICECLASS", "PVOID">>>>,
  <<"ZwWaitForAlertByThreadId", "NtWaitForAlertByThreadId", <<"PVOID", "PLARGE_INTEGER">>>>,
  <<"ZwWaitForDebugEvent", "NtWaitForDebugEvent", <<"HANDLE", "BOOLEAN", "PLARGE_INTEGER",
    "PDBGUI_WAIT_STATE_CHANGE">>>>>>

FromZwWaitForKeyedEvent == <<
  <<"ZwWaitForKeyedEvent", "NtWaitForKeyedEvent", <<"HANDLE", "PVOID", "BOOLEAN", "PLARGE_INTEGER">>>>,
  <<"ZwWaitForMultipleObjects", "NtWaitForMultipleObjects", <<"ULONG", "HANDLE", "WAIT_TYPE", "BOOLEAN",
    "PLARGE_INTEGER">>>>,
  <<"ZwWaitForMultipleObjects32", "NtWaitForMultipleObjects32", <<"ULONG", "LONG", "WAIT_TYPE", "BOOLEAN",
    "PLARGE_INTEGER">>>>,
  <<"ZwWaitForSingleObject", "NtWaitForSingleObject", <<"HANDLE", "BOOLEAN", "PLARGE_INTEGER">>>>,
  <<"ZwWaitForWorkViaWorkerFactory", "NtWaitForWorkViaWorkerFactory", <<"HANDLE", "PFILE_IO_COMPLETION_INFORMATION",
    "ULONG", "PULONG", "PVOID">>>>,
  <<"ZwWaitHighEventPair", "NtWaitHighEventPair", <<"HANDLE">>>>,
  <<"ZwWaitLowEventPair", "NtWaitLowEventPair", <<"HANDLE">>>>>>

FromZwWorkerFactoryWorkerReady == <<
  <<"ZwWorkerFactoryWorkerReady", "NtWorkerFactoryWorkerReady", <<"HANDLE">>>>,
  <<"ZwWriteFile", "NtWriteFile", <<"HANDLE", "HANDLE", "PIO_APC_ROUTINE", "PVOID", "PIO_STATUS_BLOCK", "PVOID",
    "ULONG", "PLARGE_INTEGER", "PULONG">>>>,
  <<"ZwWriteFileGather", "NtWriteFileGather", <<"HANDLE", "HANDLE", "PIO_APC_ROUTINE", "PVOID", "PIO_STATUS_BLOCK",
    "PFILE_SEGMENT_ELEMENT", "ULONG", "PLARGE_INTEGER", "PULONG">>>>,
  <<"ZwWriteRequestData", "NtWriteRequestData", <<"HANDLE", "PPORT_MESSAGE", "ULONG", "PVOID", "SIZE_T",
    "PSIZE_T">>>>,
  <<"ZwWriteVirtualMemory", "NtWriteVirtualMemory", <<"HANDLE", "PVOID", "PVOID", "SIZE_T", "PSIZE_T">>>>,
  <<"ZwYieldExecution", "NtYieldExecution", <<>>>>>>

\* The array, sorted by name.
Registrations ==
    FromNtAcceptConnectPort \o FromNtAccessCheckByTypeAndAuditAlarm
    \o FromNtAccessCheckByTypeResultListAndAuditAlarmByHandle \o FromNtAddDriverEntry \o FromNtAlertThread
    \o FromNtAllocateVirtualMemory \o FromNtAlpcConnectPortEx \o FromNtAlpcDeletePortSection
    \o FromNtAlpcOpenSenderProcess \o FromNtAlpcSetInformation \o FromNtCancelIoFile
    \o FromNtChangeThreadState \o FromNtCompactKeys \o FromNtContinueEx \o FromNtCreateDebugObject
    \o FromNtCreateEventPair \o FromNtCreateJobSet \o FromNtCreateMailslotFile \o FromNtCreatePort
    \o FromNtCreateProfile \o FromNtCreateSectionEx \o FromNtCreateThreadStateChange \o FromNtCreateTokenEx
    \o FromNtCreateWaitCompletionPacket \o FromNtDelayExecution \o FromNtDeleteWnfStateData
    \o FromNtDuplicateObject \o FromNtEnumerateTransactionObject \o FromNtFilterTokenEx \o FromNtFlushKey
    \o FromNtFsControlFile \o FromNtGetMUIRegistryInfo \o FromNtImpersonateAnonymousToken
    \o FromNtIsSystemResumeAutomatic \o FromNtLoadKeyEx \o FromNtManageHotPatch \o FromNtMapViewOfSectionEx
    \o FromNtNotifyChangeKey \o FromNtOpenEnlistment \o FromNtOpenKeyEx \o FromNtOpenPartition
    \o FromNtOpenSection \o FromNtOpenTimer \o FromNtPrepareComplete \o FromNtProtectVirtualMemory
    \o FromNtQueryDefaultLocale \o FromNtQueryEaFile \o FromNtQueryInformationEnlistment
    \o FromNtQueryInformationThread \o FromNtQueryIoCompletion \o FromNtQueryObject
    \o FromNtQuerySecurityAttributesToken \o FromNtQuerySystemEnvironmentValueEx \o FromNtQueryValueKey
    \o FromNtQueueApcThreadEx \o FromNtReadFileScatter \o FromNtRecoverResourceManager
    \o FromNtRemoveIoCompletion \o FromNtReplyPort \o FromNtRestoreKey \o FromNtSaveKey
    \o FromNtSetCachedSigningLevel \o FromNtSetEaFile \o FromNtSetInformationDebugObject
    \o FromNtSetInformationObject \o FromNtSetInformationTransactionManager \o FromNtSetLdtEntries
    \o FromNtSetSystemInformation \o FromNtSetTimerResolution \o FromNtSinglePhaseReject
    \o FromNtTerminateEnclave \o FromNtTranslateFilePath \o FromNtUnmapViewOfSection
    \o FromNtUserBeginDeferWindowPos \o FromNtUserCalculatePopupWindowPosition \o FromNtUserCallHwndSafe
    \o FromNtUserCheckProcessForClipboardAccess \o FromNtUserCopyAcceleratorTable \o FromNtUserDeleteMenu
    \o FromNtUserDragObject \o FromNtUserEnableShellWindowManagementBehavior \o FromNtUserFindWindowEx
    \o FromNtUserGetComboBoxInfo \o FromNtUserGetGUIThreadInfo \o FromNtUserGetLayeredWindowAttributes
    \o FromNtUserGetProcessDefaultLayout \o FromNtUserGetSendMessageReceiver \o FromNtUserGetWindowPlacement
    \o FromNtUserInitThreadCoreMessagingIocp \o FromNtUserKillTimer \o FromNtUserMoveWindow
    \o FromNtUserPostQuitMessage \o FromNtUserReassociateQueueEventCompletionPacket
    \o FromNtUserRegisterLogonProcess \o FromNtUserRemoteNotify \o FromNtUserRemoveQueueCompletion
    \o FromNtUserSetCancelRotationDelayHintWindow \o FromNtUserSetDoubleClickTime
    \o FromNtUserSetProcessDefaultLayout \o FromNtUserSetThreadDesktop \o FromNtUserSetWindowPos
    \o FromNtUserShowWindow \o FromNtUserTrackMouseEvent \o FromNtUserUserHandleGrantAccess
    \o FromNtVdmControl \o FromNtWaitForWorkViaWorkerFactory \o FromNtWriteRequestData
    \o FromZwAccessCheckByType \o FromZwAccessCheckByTypeResultListAndAuditAlarm \o FromZwAddAtomEx
    \o FromZwAlertMultipleThreadByThreadId \o FromZwAllocateUserPhysicalPagesEx \o FromZwAlpcConnectPort
    \o FromZwAlpcCreateSectionView \o FromZwAlpcImpersonateClientOfPort \o FromZwAlpcSendWaitReceivePort
    \o FromZwCallEnclave \o FromZwChangeProcessState \o FromZwCommitTransaction \o FromZwContinue
    \o FromZwCreateCrossVmMutant \o FromZwCreateEvent \o FromZwCreateJobObject \o FromZwCreateMailslotFile
    \o FromZwCreatePort \o FromZwCreateProfile \o FromZwCreateSectionEx \o FromZwCreateThreadStateChange
    \o FromZwCreateTokenEx \o FromZwCreateWaitCompletionPacket \o FromZwDelayExecution
    \o FromZwDeleteWnfStateData \o FromZwDuplicateObject \o FromZwEnumerateTransactionObject
    \o FromZwFilterTokenEx \o FromZwFlushKey \o FromZwFsControlFile \o FromZwGetMUIRegistryInfo
    \o FromZwImpersonateAnonymousToken \o FromZwIsSystemResumeAutomatic \o FromZwLoadKeyEx
    \o FromZwManageHotPatch \o FromZwMapViewOfSectionEx \o FromZwNotifyChangeKey \o FromZwOpenEnlistment
    \o FromZwOpenKeyEx \o FromZwOpenPartition \o FromZwOpenSection \o FromZwOpenTimer
    \o FromZwPrepareComplete \o FromZwProtectVirtualMemory \o FromZwQueryDefaultLocale \o FromZwQueryEaFile
    \o FromZwQueryInformationEnlistment \o FromZwQueryInformationThread \o FromZwQueryIoCompletion
    \o FromZwQueryObject \o FromZwQuerySecurityAttributesToken \o FromZwQuerySystemEnvironmentValueEx
    \o FromZwQueryValueKey \o FromZwQueueApcThreadEx \o FromZwReadFileScatter \o FromZwRecoverResourceManager
    \o FromZwRemoveIoCompletion \o FromZwReplyPort \o FromZwRestoreKey \o FromZwSaveKey
    \o FromZwSetCachedSigningLevel \o FromZwSetEaFile \o FromZwSetInformationDebugObject
    \o FromZwSetInformationObject \o FromZwSetInformationTransactionManager \o FromZwSetLdtEntries
    \o FromZwSetSystemInformation \o FromZwSetTimerResolution \o FromZwSinglePhaseReject
    \o FromZwTerminateEnclave \o FromZwTranslateFilePath \o FromZwUnmapViewOfSection
    \o FromZwWaitForKeyedEvent \o FromZwWorkerFactoryWorkerReady
=============================================================================
